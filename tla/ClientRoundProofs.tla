-------------------------- MODULE ClientRoundProofs --------------------------
(***************************************************************************)
(* One question at a time: the client's threads carry on one round, which  *)
(* is begun once and ended once, for every number of questions, threads    *)
(* and catalogs, every bound and whatever the server and the player do.    *)
(***************************************************************************)
EXTENDS ClientRound, ClientProofs, FiniteSetTheorems

(* The invariant.  What is passed on is a token: the right to post           *)
(* semaphore_main for the login, the right to post it for the game, and the  *)
(* round.  Each is in one place at a time and none comes back.               *)

InLogin == Early \cup {"waitLogin"}
InError == {"errDialog", "errWait"}

\* main has taken the login's post, or finds it when it comes to its wait.
LoggedIn == pc["main"] \notin InLogin \/ semMain > 0

\* Where the threads can be: before main creates the GUI thread there is no window
\* and no error dialog, and after the login the GUI's one post is for the listener
\* or for nobody: a thread in an error check waits for ever.
MainPlaces ==
  /\ pc["main"] \in MainLabels \cup InError
  /\ pc["main"] \in InError => cont["main"] \in {"waitStart", "waitEnd"}
  /\ pc["main"] \in InLogin \cup {"createGui"} =>
       /\ pc["gui"] = "none" /\ windows = "none"
       /\ pc["listener"] \notin InError \cup {"quit", "rank"}
GuiPlaces ==
  /\ pc["gui"] \in InError => cont["gui"] \in {"name", "unlock"}
  /\ pc["gui"] \in {"none", "init"} => windows = "none"
  /\ pc["gui"] = "post" => semSocket = 0
ListenerPlaces ==
  /\ semSocket <= 1
  /\ LoggedIn => \/ pc["listener"] = "waitGui"
                 \/ semSocket = 0 /\ pc["gui"] \notin {"none", "init", "post"}
  /\ pc["listener"] = "post" => hdr.type \in {"LG_RQ_OK", "ST_GA"}
  /\ pc["listener"] = "waitGui" => hdr.type = "LG_RQ_OK"
  /\ pc["listener"] = "spawn" => hdr.type = "QU_RE"
PlaceInv == MainPlaces /\ GuiPlaces /\ ListenerPlaces

\* Who may yet make the listener post semaphore_main for the login, and for the game.
LoginTokens ==
  One(srv = "await") + Count(inbox, "LG_RQ_OK")
    + One(pc["listener"] \in {"size", "case", "post"} /\ hdr.type = "LG_RQ_OK")
StartTokens ==
  One(srv \in {"await", "lobby"}) + Count(inbox, "ST_GA")
    + One(pc["listener"] \in {"size", "case", "gui", "post"} /\ hdr.type = "ST_GA")
\* Who carries the round on.
RoundTokens ==
  threads.sleeping + Count(outbox, "QU_RQ") + Count(inbox, "QU_RE")
    + One(srvActive) + One(pc["main"] = "request")
    + One(pc["listener"] \in {"size", "case", "gui", "spawn"} /\ hdr.type = "QU_RE")

\* The round's tokens before a question is opened, and after it.
AskTokens == threads.sleeping + Count(outbox, "QU_RQ") + One(pc["main"] = "request")
CloseTokens ==
  Count(inbox, "QU_RE")
    + One(pc["listener"] \in {"size", "case", "gui", "spawn"} /\ hdr.type = "QU_RE")

\* A step that at most drops the round.
NoGain ==
  /\ AskTokens' <= AskTokens /\ CloseTokens' <= CloseTokens
  /\ srvActive' = srvActive /\ (Started' <=> Started)

TokenInv ==
  /\ pc["main"] \in InLogin =>
       LoginTokens + semMain <= 1 /\ StartTokens <= 1 /\ RoundTokens = 0
  /\ pc["main"] \notin InLogin /\ ~Started =>
       LoginTokens = 0 /\ StartTokens + semMain <= 1 /\ RoundTokens = 0
  /\ Started =>
       LoginTokens = 0 /\ StartTokens = 0 /\ semMain = 0 /\ RoundTokens <= 1

RoundInv == closeOnEnd \/ (PlaceInv /\ TokenInv)

-----------------------------------------------------------------------------
(* Counting the messages of a type in a queue.                              *)

Places(queue, type) == {i \in DOMAIN queue : queue[i].type = type}

\* A queue holds finitely many messages of a type.
LEMMA CountNat ==
  ASSUME NEW S, NEW queue \in Seq(S), NEW type
  PROVE  /\ IsFiniteSet(Places(queue, type)) /\ Count(queue, type) \in Nat
         /\ Count(queue, type) = Cardinality(Places(queue, type))
<1>1. Places(queue, type) \in SUBSET (1 .. Len(queue)) /\ Len(queue) \in Nat
  BY LenProperties DEF Places
<1>2. IsFiniteSet(Places(queue, type))
  <2>1. IsFiniteSet(1 .. Len(queue))
    BY <1>1, FS_Interval
  <2> QED BY <1>1, <2>1, FS_Subset
<1>3. Count(queue, type) = Cardinality(Places(queue, type))
  BY DEF Count, Places
<1> QED BY <1>2, <1>3, FS_CardinalityType

\* Two queues, one behind the other, hold what both hold.
LEMMA CountConcat ==
  ASSUME NEW S, NEW front \in Seq(S), NEW back \in Seq(S), NEW type
  PROVE  Count(front \o back, type) = Count(front, type) + Count(back, type)
<1> DEFINE n == Len(front)
           A == Places(front, type)
           B == Places(back, type)
           Moved == {i + n : i \in B}
           shift == [i \in B |-> i + n]
<1>1. n \in Nat /\ Len(back) \in Nat /\ DOMAIN front = 1 .. n /\ DOMAIN back = 1 .. Len(back)
  BY LenProperties
<1>2. /\ DOMAIN (front \o back) = 1 .. n + Len(back)
      /\ \A i \in 1 .. n : (front \o back)[i] = front[i]
      /\ \A i \in 1 .. Len(back) : (front \o back)[i + n] = back[i]
  <2>1. /\ Len(front \o back) = n + Len(back) /\ front \o back \in Seq(S)
        /\ \A i \in 1 .. n + Len(back) :
             (front \o back)[i] = IF i <= n THEN front[i] ELSE back[i - n]
    BY ConcatProperties
  <2> QED BY <1>1, <2>1, LenProperties
<1>3. Places(front \o back, type) = A \cup Moved
  <2>1. ASSUME NEW i \in Places(front \o back, type)
        PROVE  i \in A \cup Moved
    <3>1. CASE i <= n
      BY <1>1, <1>2, <2>1, <3>1 DEF Places
    <3>2. CASE i > n
      <4>1. i - n \in 1 .. Len(back) /\ i = (i - n) + n
        BY <1>1, <1>2, <2>1, <3>2 DEF Places
      <4>2. (front \o back)[(i - n) + n] = back[i - n]
        BY <1>2, <4>1
      <4>3. i - n \in B
        BY <1>1, <2>1, <4>1, <4>2 DEF Places
      <4> QED BY <4>1, <4>3
    <3> QED BY <1>1, <1>2, <2>1, <3>1, <3>2 DEF Places
  <2>2. A \subseteq Places(front \o back, type)
    BY <1>1, <1>2 DEF Places
  <2>3. Moved \subseteq Places(front \o back, type)
    BY <1>1, <1>2 DEF Places
  <2> QED BY <2>1, <2>2, <2>3
<1>4. A \cap Moved = {}
  BY <1>1 DEF Places
<1>5. IsFiniteSet(A) /\ IsFiniteSet(B)
  BY CountNat
<1>6. ExistsBijection(B, Moved)
  <2>1. B \subseteq Int
    BY <1>1 DEF Places
  <2>2. shift \in Bijection(B, Moved)
    BY <1>1, <2>1 DEF Bijection, Injection, Surjection, IsInjective
  <2> QED BY <2>2 DEF ExistsBijection
<1>7. IsFiniteSet(Moved) /\ Cardinality(Moved) = Cardinality(B)
  BY <1>5, <1>6, FS_Bijection
<1>8. Cardinality(A \cup Moved) = Cardinality(A) + Cardinality(Moved) - 0
  BY <1>4, <1>5, <1>7, FS_Union, FS_EmptySet
<1>9. Cardinality(A) \in Nat /\ Cardinality(B) \in Nat
  BY <1>5, FS_CardinalityType
<1>10. /\ Count(front, type) = Cardinality(A) /\ Count(back, type) = Cardinality(B)
       /\ Count(front \o back, type) = Cardinality(A \cup Moved)
  BY <1>3 DEF Count, Places
<1> HIDE DEF A, B, Moved
<1> QED BY <1>7, <1>8, <1>9, <1>10

\* A queue without the type counts none, and one message counts itself.
LEMMA CountFew ==
  ASSUME NEW type
  PROVE  /\ \A queue : (\A i \in DOMAIN queue : queue[i].type # type)
                         => Count(queue, type) = 0
         /\ \A m : Count(<<m>>, type) = One(m.type = type)
<1>1. ASSUME NEW queue, \A i \in DOMAIN queue : queue[i].type # type
      PROVE  Count(queue, type) = 0
  <2>1. {i \in DOMAIN queue : queue[i].type = type} = {}
    BY <1>1
  <2> QED BY <2>1, FS_EmptySet DEF Count
<1>2. ASSUME NEW m
      PROVE  Count(<<m>>, type) = One(m.type = type)
  <2>1. {i \in DOMAIN <<m>> : <<m>>[i].type = type} = IF m.type = type THEN {1} ELSE {}
    OBVIOUS
  <2> QED BY <2>1, FS_EmptySet, FS_Singleton DEF Count, One
<1> QED BY <1>1, <1>2

\* A message appended, and one taken from the front.
LEMMA CountAppend ==
  ASSUME NEW S, NEW queue \in Seq(S), NEW m \in S, NEW type
  PROVE  Count(Append(queue, m), type) = Count(queue, type) + One(m.type = type)
<1>1. Append(queue, m) = queue \o <<m>> /\ <<m>> \in Seq(S)
  BY AppendIsConcat
<1>2. Count(queue \o <<m>>, type) = Count(queue, type) + Count(<<m>>, type)
  BY <1>1, CountConcat
<1>3. Count(<<m>>, type) = One(m.type = type)
  BY CountFew
<1> QED BY <1>1, <1>2, <1>3

LEMMA CountTail ==
  ASSUME NEW S, NEW queue \in Seq(S), queue # <<>>, NEW type
  PROVE  Count(queue, type) = One(Head(queue).type = type) + Count(Tail(queue), type)
<1>1. /\ Head(queue) \in S /\ Tail(queue) \in Seq(S) /\ <<Head(queue)>> \in Seq(S)
      /\ queue = <<Head(queue)>> \o Tail(queue)
  <2>1. Head(queue) \in S /\ Tail(queue) \in Seq(S)
    BY HeadTailProperties
  <2>2. queue = <<Head(queue)>> \o Tail(queue)
    BY <2>1, ConcatProperties, HeadTailProperties
  <2> QED BY <2>1, <2>2
<1>2. Count(<<Head(queue)>> \o Tail(queue), type)
        = Count(<<Head(queue)>>, type) + Count(Tail(queue), type)
  BY <1>1, CountConcat
<1>3. Count(<<Head(queue)>>, type) = One(Head(queue).type = type)
  BY CountFew
<1> QED BY <1>1, <1>2, <1>3

\* What the queues count is a number, before and after a step.
LEMMA CountsTyped ==
  ASSUME TypeOK, TypeOK'
  PROVE  /\ \A type : /\ Count(inbox, type) \in Nat /\ Count(outbox, type) \in Nat
                      /\ Count(inbox', type) \in Nat /\ Count(outbox', type) \in Nat
         /\ threads.sleeping \in Nat /\ threads'.sleeping \in Nat
         /\ semMain \in Nat /\ semMain' \in Nat /\ semSocket \in Nat /\ semSocket' \in Nat
<1>1. /\ inbox \in Seq(Message) /\ outbox \in Seq(Frame)
      /\ inbox' \in Seq(Message) /\ outbox' \in Seq(Frame)
  BY DEF TypeOK, NetTypeOK
<1>2. threads.sleeping \in Nat /\ threads'.sleeping \in Nat
  BY DEF TypeOK, ThreadsTypeOK
<1>3. /\ semMain \in Nat /\ semMain' \in Nat /\ semSocket \in Nat /\ semSocket' \in Nat
  BY ClientAssumption DEF TypeOK, SemTypeOK
<1> QED BY <1>1, <1>2, <1>3, CountNat

\* One is a number.
LEMMA OneTyped == \A condition \in BOOLEAN : One(condition) \in {0, 1}
  BY DEF One

-----------------------------------------------------------------------------
(* How a step keeps the tokens.                                             *)

\* Nothing is gained, and main stays in its stage of the game.
LEMMA TokensKept ==
  ASSUME TypeOK, TypeOK', TokenInv, semMain' = semMain,
         pc'["main"] \in InLogin <=> pc["main"] \in InLogin, Started' <=> Started,
         LoginTokens' <= LoginTokens, StartTokens' <= StartTokens,
         RoundTokens' <= RoundTokens
  PROVE  TokenInv'
<1>1. /\ LoginTokens \in Nat /\ StartTokens \in Nat /\ RoundTokens \in Nat
      /\ LoginTokens' \in Nat /\ StartTokens' \in Nat /\ RoundTokens' \in Nat
  BY CountsTyped DEF LoginTokens, StartTokens, RoundTokens, One
<1>2. PICK a \in Nat, b \in Nat, c \in Nat, d \in Nat, e \in Nat, f \in Nat, n \in Nat :
        /\ a = LoginTokens /\ b = StartTokens /\ c = RoundTokens
        /\ d = LoginTokens' /\ e = StartTokens' /\ f = RoundTokens' /\ n = semMain
  BY <1>1, CountsTyped
<1>3. d <= a /\ e <= b /\ f <= c /\ n = semMain'
  BY <1>2
<1>4. /\ a + n <= 1 => d + n <= 1
      /\ a = 0 => d = 0
      /\ b + n <= 1 => e + n <= 1
      /\ b <= 1 => e <= 1
      /\ b = 0 => e = 0
      /\ c <= 1 => f <= 1
      /\ c = 0 => f = 0
  BY <1>3
<1>5. CASE pc["main"] \in InLogin
  <2>1. a + n <= 1 /\ b <= 1 /\ c = 0 /\ ~Started
    BY <1>2, <1>5 DEF TokenInv, Started, InLogin, Early
  <2>2. d + n <= 1 /\ e <= 1 /\ f = 0
    BY <1>4, <2>1
  <2> QED BY <1>2, <1>3, <1>5, <2>1, <2>2, Zenon DEF TokenInv
<1>6. CASE pc["main"] \notin InLogin /\ ~Started
  <2>1. a = 0 /\ b + n <= 1 /\ c = 0
    BY <1>2, <1>6, Zenon DEF TokenInv
  <2>2. d = 0 /\ e + n <= 1 /\ f = 0
    BY <1>4, <2>1
  <2> QED BY <1>2, <1>3, <1>6, <2>2, Zenon DEF TokenInv
<1>7. CASE pc["main"] \notin InLogin /\ Started
  <2>1. a = 0 /\ b = 0 /\ n = 0 /\ c <= 1
    BY <1>2, <1>7, Zenon DEF TokenInv
  <2>2. d = 0 /\ e = 0 /\ n = 0 /\ f <= 1
    BY <1>4, <2>1
  <2> QED BY <1>2, <1>3, <1>7, <2>2, Zenon DEF TokenInv
<1> QED BY <1>5, <1>6, <1>7

\* The round is being asked for, open or being closed; what drops it adds nothing.
LEMMA RoundSum ==
  ASSUME TypeOK, TypeOK'
  PROVE  /\ AskTokens \in Nat /\ CloseTokens \in Nat
         /\ AskTokens' \in Nat /\ CloseTokens' \in Nat
         /\ RoundTokens = AskTokens + One(srvActive) + CloseTokens
         /\ RoundTokens' = AskTokens' + One(srvActive') + CloseTokens'
         /\ NoGain => RoundTokens' <= RoundTokens
<1>1. /\ AskTokens \in Nat /\ CloseTokens \in Nat
      /\ AskTokens' \in Nat /\ CloseTokens' \in Nat
  BY CountsTyped DEF AskTokens, CloseTokens, One
<1>2. /\ RoundTokens = AskTokens + One(srvActive) + CloseTokens
      /\ RoundTokens' = AskTokens' + One(srvActive') + CloseTokens'
  BY CountsTyped DEF RoundTokens, AskTokens, CloseTokens, One
<1>3. PICK a \in Nat, b \in Nat, c \in Nat, d \in Nat, e \in Nat :
        /\ a = AskTokens /\ b = CloseTokens /\ c = AskTokens' /\ d = CloseTokens'
        /\ e = One(srvActive)
  BY <1>1 DEF One
<1>4. NoGain => c <= a /\ d <= b /\ RoundTokens = a + e + b /\ RoundTokens' = c + e + d
  BY <1>2, <1>3 DEF NoGain
<1>5. NoGain => RoundTokens' <= RoundTokens
  BY <1>4
<1> QED BY <1>1, <1>2, <1>5

\* The listener moves, and no queue gains a message that counts.
LEMMA TokensFall ==
  ASSUME TypeOK, TypeOK', TokenInv, semMain' = semMain,
         pc'["main"] = pc["main"], cont'["main"] = cont["main"], hdr'.type = hdr.type,
         srv' = srv, srvActive' = srvActive, threads'.sleeping <= threads.sleeping,
         \A type \in {"LG_RQ_OK", "ST_GA", "QU_RE"} :
           Count(inbox', type) <= Count(inbox, type),
         Count(outbox', "QU_RQ") <= Count(outbox, "QU_RQ"),
         hdr.type = "LG_RQ_OK" /\ pc'["listener"] \in {"size", "case", "post"}
           => pc["listener"] \in {"size", "case", "post"},
         hdr.type = "ST_GA" /\ pc'["listener"] \in {"size", "case", "gui", "post"}
           => pc["listener"] \in {"size", "case", "gui", "post"},
         hdr.type = "QU_RE" /\ pc'["listener"] \in {"size", "case", "gui", "spawn"}
           => pc["listener"] \in {"size", "case", "gui", "spawn"}
  PROVE  TokenInv' /\ NoGain
<1>1. LoginTokens' <= LoginTokens
  BY CountsTyped DEF LoginTokens, One
<1>2. StartTokens' <= StartTokens
  BY CountsTyped DEF StartTokens, One
<1>3. AskTokens' <= AskTokens /\ CloseTokens' <= CloseTokens
  <2>1. AskTokens' <= AskTokens
    BY CountsTyped DEF AskTokens, One
  <2>2. CloseTokens' <= CloseTokens
    BY CountsTyped DEF CloseTokens, One
  <2> QED BY <2>1, <2>2
<1>4. Started' <=> Started
  BY DEF Started
<1>5. NoGain
  BY <1>3, <1>4 DEF NoGain
<1> QED BY <1>1, <1>2, <1>4, <1>5, RoundSum, TokensKept

-----------------------------------------------------------------------------
(* The listener.                                                            *)

\* The listener goes on at next, or stops in an error check of the running GUI;
\* no other thread moves.
ListenerTo(next) ==
  /\ pc'["main"] = pc["main"] /\ cont'["main"] = cont["main"]
  /\ pc'["gui"] = pc["gui"] /\ cont'["gui"] = cont["gui"]
  /\ \/ pc'["listener"] \in {pc["listener"], next}
     \/ pc'["listener"] = "errDialog" /\ guiRuns

\* Each way a step of the listener ends is one of these moves.
LEMMA ListenerMoves ==
  ASSUME TypeOK, ~closeOnEnd, NEW next
  PROVE  /\ Continue("listener", next) => ListenerTo(next)
         /\ \A how : End(how) => ListenerTo(next)
         /\ \A ret, other : TestErrors("listener", ret, other) => ListenerTo(next)
         /\ Read(next) => ListenerTo(next)
         /\ ReadPayload(next) => ListenerTo(next)
         /\ \A frame : Write("listener", frame, next) => ListenerTo(next)
<1> USE DEF TypeOK, CtlTypeOK, Threads
<1>1. Continue("listener", next) => ListenerTo(next)
  BY DEF Continue, Goto, ListenerTo
<1>2. ASSUME NEW how, End(how)
      PROVE  ListenerTo(next)
  BY <1>2 DEF End, ListenerTo
<1>3. ASSUME NEW ret, NEW other, TestErrors("listener", ret, other)
      PROVE  ListenerTo(next)
  <2>1. CASE guiRuns /\ Goto("listener", "errDialog")
             /\ cont' = [cont EXCEPT !["listener"] = other]
    BY <2>1 DEF Goto, ListenerTo
  <2>2. CASE End("exited")
    BY <1>2, <2>2
  <2> QED BY <1>3, <2>1, <2>2 DEF TestErrors
<1>4. Read(next) => ListenerTo(next)
  BY <1>1, <1>3 DEF Read
<1>5. ReadPayload(next) => ListenerTo(next)
  BY <1>1, <1>4 DEF ReadPayload, Skip
<1>6. ASSUME NEW frame, Write("listener", frame, next)
      PROVE  ListenerTo(next)
  BY <1>1, <1>2, <1>3, <1>6 DEF Write
<1> QED BY <1>1, <1>2, <1>3, <1>4, <1>5, <1>6

\* A move of the listener that brings no token and needs no window that is missing.
LEMMA ListenerKeeps ==
  ASSUME GuiInv, TypeOK', PlaceInv, TokenInv, NEW next, ListenerTo(next),
         pc["listener"] \notin {"waitGui"} \cup InError,
         next # "post" \/ hdr.type \in {"LG_RQ_OK", "ST_GA"},
         next # "spawn" \/ hdr.type = "QU_RE",
         next \notin {"quit", "rank", "errWait"} \/ windows # "none",
         hdr.type = "LG_RQ_OK" /\ next \in {"size", "case", "post"}
           => pc["listener"] \in {"size", "case", "post"},
         hdr.type = "ST_GA" /\ next \in {"size", "case", "gui", "post"}
           => pc["listener"] \in {"size", "case", "gui", "post"},
         hdr.type = "QU_RE" /\ next \in {"size", "case", "gui", "spawn"}
           => pc["listener"] \in {"size", "case", "gui", "spawn"},
         next \notin {"errDialog", "waitGui"},
         UNCHANGED <<semVars, windows, threads, srv, srvActive>>, hdr'.type = hdr.type,
         \A type \in {"LG_RQ_OK", "ST_GA", "QU_RE"} :
           Count(inbox', type) <= Count(inbox, type),
         Count(outbox', "QU_RQ") <= Count(outbox, "QU_RQ")
  PROVE  PlaceInv' /\ TokenInv' /\ NoGain
<1>1. guiRuns => windows # "none"
  BY DEF GuiInv, StartInv, BeforeGui
<1>2. PlaceInv'
  <2>1. MainPlaces'
    BY <1>1 DEF PlaceInv, MainPlaces, ListenerTo, InError
  <2>2. GuiPlaces'
    BY DEF PlaceInv, GuiPlaces, ListenerTo, semVars
  <2>3. ListenerPlaces'
    BY DEF PlaceInv, ListenerPlaces, LoggedIn, ListenerTo, semVars
  <2> QED BY <2>1, <2>2, <2>3 DEF PlaceInv
<1>3. TokenInv' /\ NoGain
  <2>1. threads'.sleeping <= threads.sleeping
    BY CountsTyped DEF GuiInv
  <2>2. pc'["listener"] \in {pc["listener"], next, "errDialog"}
    BY DEF ListenerTo
  <2>3. /\ hdr.type = "LG_RQ_OK" /\ pc'["listener"] \in {"size", "case", "post"}
             => pc["listener"] \in {"size", "case", "post"}
        /\ hdr.type = "ST_GA" /\ pc'["listener"] \in {"size", "case", "gui", "post"}
             => pc["listener"] \in {"size", "case", "gui", "post"}
        /\ hdr.type = "QU_RE" /\ pc'["listener"] \in {"size", "case", "gui", "spawn"}
             => pc["listener"] \in {"size", "case", "gui", "spawn"}
    BY <2>2
  <2>4. /\ pc'["main"] = pc["main"] /\ cont'["main"] = cont["main"] /\ semMain' = semMain
        /\ srv' = srv /\ srvActive' = srvActive
    BY DEF ListenerTo, semVars
  <2> QED BY <2>1, <2>3, <2>4, TokensFall DEF GuiInv
<1> QED BY <1>2, <1>3

\* Most steps of the listener leave the queues, or take only from them.
LEMMA QueuesKept ==
  ASSUME TypeOK, TypeOK'
  PROVE  /\ inbox' \in {inbox, <<>>, <<Raw>> \o inbox}
              => \A type \in {"LG_RQ_OK", "ST_GA", "QU_RE"} :
                   Count(inbox', type) <= Count(inbox, type)
         /\ outbox' = outbox => Count(outbox', "QU_RQ") <= Count(outbox, "QU_RQ")
<1>1. ASSUME NEW type \in {"LG_RQ_OK", "ST_GA", "QU_RE"}
      PROVE  /\ Count(<<>>, type) = 0 /\ Count(inbox, type) \in Nat
             /\ Count(<<Raw>> \o inbox, type) = Count(inbox, type)
  <2>1. Count(<<>>, type) = 0
    BY CountFew
  <2>2. Count(inbox, type) \in Nat
    BY CountsTyped
  <2>3. Count(<<Raw>>, type) = 0
    BY CountFew DEF One, Raw
  <2>4. inbox \in Seq(Message) /\ <<Raw>> \in Seq(Message)
    BY MessageTyped DEF TypeOK, NetTypeOK
  <2>5. Count(<<Raw>> \o inbox, type) = Count(<<Raw>>, type) + Count(inbox, type)
    BY <2>4, CountConcat
  <2> QED BY <2>1, <2>2, <2>3, <2>5
<1>2. ASSUME inbox' \in {inbox, <<>>, <<Raw>> \o inbox},
             NEW type \in {"LG_RQ_OK", "ST_GA", "QU_RE"}
      PROVE  Count(inbox', type) <= Count(inbox, type)
  <2>1. Count(inbox', type) \in {Count(inbox, type), 0}
    BY <1>1, <1>2
  <2> QED BY <1>1, <2>1
<1>3. outbox' = outbox => Count(outbox', "QU_RQ") <= Count(outbox, "QU_RQ")
  BY CountsTyped
<1> QED BY <1>2, <1>3

\* Past its first message the listener runs among windows.
LEMMA WindowsThere ==
  ASSUME GuiInv, proc = "running",
         pc["listener"] \notin {"none", "type", "inType", "size", "case", "severity",
                                "post", "waitGui"} \/ guiRuns
  PROVE  windows # "none"
  BY DEF GuiInv, StartInv, BeforeGui, ListenerBeforeGui

\* A read or a case of listener_thread.
LEMMA ListenerReadsRound ==
  ASSUME GuiInv, TypeOK', PlaceInv, TokenInv, ~closeOnEnd,
         \/ CallRead \/ ReadSize \/ ReadRank \/ ReceiveLoginOk \/ ReceiveCatalog
         \/ ReceiveCatalogChange \/ ReceivePlayerList \/ ReceiveStartGame
         \/ ReceiveQuestion \/ ReceiveResult \/ ReceiveWarning \/ ReceiveUnknown
         \/ Severity
  PROVE  PlaceInv' /\ TokenInv' /\ NoGain
<1> USE DEF At, InThread, InError
<1>1. TypeOK /\ hdr \in [type : ServerTypes, size : {0, 1}]
  BY DEF GuiInv, TypeOK, LiTypeOK
<1>2. /\ UNCHANGED <<semVars, windows, threads, srv, srvActive, outbox>>
      /\ hdr'.type = hdr.type /\ inbox' \in {inbox, <<Raw>> \o inbox}
  <2>1. UNCHANGED <<semVars, guiVars, threads, srvVars, outbox>>
    BY DEF CallRead, ReadSize, ReadRank, ReceiveLoginOk, ReceiveCatalog,
           ReceiveCatalogChange, ReceivePlayerList, ReceiveStartGame, ReceiveQuestion,
           ReceiveResult, ReceiveWarning, ReceiveUnknown, Severity, Receive, netVars
  <2>2. hdr'.type = hdr.type
    BY <1>1
    DEF CallRead, ReadSize, ReadRank, ReceiveLoginOk, ReceiveCatalog,
        ReceiveCatalogChange, ReceivePlayerList, ReceiveStartGame, ReceiveQuestion,
        ReceiveResult, ReceiveWarning, ReceiveUnknown, Severity, Receive, liVars
  <2>3. inbox' \in {inbox, <<Raw>> \o inbox}
    BY DEF CallRead, ReadSize, ReadRank, ReceiveLoginOk, ReceiveCatalog,
           ReceiveCatalogChange, ReceivePlayerList, ReceiveStartGame, ReceiveQuestion,
           ReceiveResult, ReceiveWarning, ReceiveUnknown, Severity, Receive, netVars
  <2> QED BY <2>1, <2>2, <2>3 DEF guiVars, srvVars
<1>3. /\ \A type \in {"LG_RQ_OK", "ST_GA", "QU_RE"} : Count(inbox', type) <= Count(inbox, type)
      /\ Count(outbox', "QU_RQ") <= Count(outbox, "QU_RQ")
  BY <1>1, <1>2, QueuesKept
<1>4. CASE CallRead
  <2>1. ListenerTo("inType")
    BY <1>1, <1>4, ListenerMoves DEF CallRead
  <2> QED BY <1>2, <1>3, <1>4, <2>1, ListenerKeeps DEF CallRead
<1>5. CASE ReadSize
  <2>1. ListenerTo("case")
    BY <1>1, <1>5, ListenerMoves DEF ReadSize
  <2> QED BY <1>2, <1>3, <1>5, <2>1, ListenerKeeps DEF ReadSize
<1>6. CASE ReadRank
  <2>1. ListenerTo("quit")
    BY <1>1, <1>6, ListenerMoves DEF ReadRank
  <2>2. windows # "none"
    BY <1>6, WindowsThere DEF ReadRank
  <2> QED BY <1>2, <1>3, <1>6, <2>1, <2>2, ListenerKeeps DEF ReadRank
<1>7. CASE ReceiveLoginOk
  <2>1. ListenerTo("post") /\ pc["listener"] = "case" /\ hdr.type = "LG_RQ_OK"
    BY <1>1, <1>7, ListenerMoves DEF ReceiveLoginOk, Receive, Case
  <2> QED BY <1>2, <1>3, <2>1, ListenerKeeps
<1>8. CASE ReceiveCatalogChange \/ ReceivePlayerList \/ ReceiveStartGame
  <2>1. ListenerTo("gui") /\ pc["listener"] = "case"
    BY <1>1, <1>8, ListenerMoves
    DEF ReceiveCatalogChange, ReceivePlayerList, ReceiveStartGame, Receive, Case
  <2> QED BY <1>2, <1>3, <2>1, ListenerKeeps
<1>9. CASE ReceiveCatalog
  <2>1. \E next \in {"gui", "type"} : ListenerTo(next)
    <3>1. ReadPayload("gui") \/ Continue("listener", "gui") \/ Continue("listener", "type")
      BY <1>9 DEF ReceiveCatalog, Skip
    <3> QED BY <1>1, <3>1, ListenerMoves
  <2>2. pc["listener"] = "case"
    BY <1>9 DEF ReceiveCatalog, Case
  <2> QED BY <1>2, <1>3, <2>1, <2>2, ListenerKeeps
<1>10. CASE ReceiveQuestion
  <2>1. ListenerTo("gui") /\ pc["listener"] = "case"
    BY <1>1, <1>10, ListenerMoves DEF ReceiveQuestion, Case
  <2> QED BY <1>2, <1>3, <2>1, ListenerKeeps
<1>11. CASE ReceiveResult
  <2>1. ListenerTo("gui") /\ pc["listener"] = "case"
    BY <1>1, <1>11, ListenerMoves DEF ReceiveResult, Case
  <2> QED BY <1>2, <1>3, <2>1, ListenerKeeps
<1>12. CASE ReceiveWarning
  <2>1. ListenerTo("severity") /\ pc["listener"] = "case"
    BY <1>1, <1>12, ListenerMoves DEF ReceiveWarning, Case
  <2> QED BY <1>2, <1>3, <2>1, ListenerKeeps
<1>13. CASE ReceiveUnknown
  <2>1. ListenerTo("type") /\ pc["listener"] = "case"
    BY <1>1, <1>13, ListenerMoves DEF ReceiveUnknown
  <2> QED BY <1>2, <1>3, <2>1, ListenerKeeps
<1>14. CASE Severity
  <2>1. \E next \in {"info", "quit"} :
          ListenerTo(next) /\ (next = "quit" => windows # "none")
    <3>1. \/ Continue("listener", "info") \/ \E how : End(how)
          \/ Continue("listener", "quit") /\ guiRuns
      BY <1>14 DEF Severity
    <3> QED BY <1>1, <1>14, <3>1, ListenerMoves, WindowsThere DEF Severity
  <2>2. pc["listener"] = "severity"
    BY <1>14 DEF Severity
  <2> QED BY <1>2, <1>3, <2>1, <2>2, ListenerKeeps
<1> QED BY <1>4, <1>5, <1>6, <1>7, <1>8, <1>9, <1>10, <1>11, <1>12, <1>13, <1>14

\* A message taken from the queue brings its token to the listener.
LEMMA ReadTypeRound ==
  ASSUME GuiInv, TypeOK', PlaceInv, TokenInv, ~closeOnEnd, ReadType
  PROVE  PlaceInv' /\ TokenInv' /\ NoGain
<1> USE DEF At, InThread, InError
<1>1. TypeOK /\ hdr \in [type : ServerTypes, size : {0, 1}] /\ inbox \in Seq(Message)
  BY DEF GuiInv, TypeOK, LiTypeOK, NetTypeOK
<1>2. /\ UNCHANGED <<semVars, windows, threads, srv, srvActive, outbox>>
      /\ pc["listener"] = "inType"
  BY DEF ReadType, guiVars, srvVars
<1>3. CASE /\ inbox # <<>> /\ inbox' = Tail(inbox)
           /\ hdr' = [hdr EXCEPT !.type = Head(inbox).type]
           /\ Continue("listener", "size")
  <2>1. /\ pc'["main"] = pc["main"] /\ cont'["main"] = cont["main"]
        /\ pc'["gui"] = pc["gui"] /\ cont'["gui"] = cont["gui"] /\ pc'["listener"] = "size"
    BY <1>1, <1>3 DEF Continue, Goto, TypeOK, CtlTypeOK, Threads
  <2>2. PlaceInv'
    BY <1>2, <2>1
    DEF PlaceInv, MainPlaces, GuiPlaces, ListenerPlaces, LoggedIn, semVars
  <2>3. hdr'.type = Head(inbox).type
    BY <1>1, <1>3
  <2>4. ASSUME NEW type
        PROVE  Count(inbox, type) = One(hdr'.type = type) + Count(inbox', type)
    BY <1>1, <1>3, <2>3, CountTail
  <2>5. LoginTokens' <= LoginTokens
    <3>1. LoginTokens' = One(srv = "await") + Count(inbox', "LG_RQ_OK")
                           + One(hdr'.type = "LG_RQ_OK")
      BY <1>2, <2>1 DEF LoginTokens, One
    <3>2. LoginTokens = One(srv = "await") + Count(inbox, "LG_RQ_OK") + 0
      BY <1>2 DEF LoginTokens, One
    <3> QED BY SMTT(60), <1>1, <2>4, <3>1, <3>2, CountsTyped, OneTyped DEF One
  <2>6. StartTokens' <= StartTokens
    <3>1. StartTokens' = One(srv \in {"await", "lobby"}) + Count(inbox', "ST_GA")
                           + One(hdr'.type = "ST_GA")
      BY <1>2, <2>1 DEF StartTokens, One
    <3>2. StartTokens = One(srv \in {"await", "lobby"}) + Count(inbox, "ST_GA") + 0
      BY <1>2 DEF StartTokens, One
    <3> QED BY SMTT(60), <1>1, <2>4, <3>1, <3>2, CountsTyped DEF One
  <2>7. AskTokens' <= AskTokens /\ CloseTokens' <= CloseTokens
    <3>1. AskTokens' = AskTokens
      BY <1>2, <2>1 DEF AskTokens
    <3>2. CloseTokens' = Count(inbox', "QU_RE") + One(hdr'.type = "QU_RE")
      BY <2>1 DEF CloseTokens, One
    <3>3. CloseTokens = Count(inbox, "QU_RE") + 0
      BY <1>2 DEF CloseTokens, One
    <3>4. CloseTokens' <= CloseTokens
      BY <1>1, <2>4, <3>2, <3>3, CountsTyped DEF One
    <3> QED BY <1>1, <3>1, <3>4, RoundSum
  <2>8. Started' <=> Started
    BY <2>1 DEF Started
  <2>9. NoGain
    BY <1>2, <2>7, <2>8 DEF NoGain
  <2>10. TokenInv'
    BY <1>1, <1>2, <2>1, <2>5, <2>6, <2>8, <2>9, RoundSum, TokensKept DEF semVars
  <2> QED BY <2>2, <2>9, <2>10
<1>4. CASE /\ inbox' = <<>> /\ UNCHANGED hdr
           /\ \E ret \in {0, -1} : TestErrors("listener", ret, "size")
  <2>1. ListenerTo("inType")
    BY <1>1, <1>4, ListenerMoves
  <2>2. /\ \A type \in {"LG_RQ_OK", "ST_GA", "QU_RE"} :
             Count(inbox', type) <= Count(inbox, type)
        /\ Count(outbox', "QU_RQ") <= Count(outbox, "QU_RQ")
    BY <1>1, <1>2, <1>4, QueuesKept
  <2> QED BY <1>2, <1>4, <2>1, <2>2, ListenerKeeps
<1> QED BY <1>3, <1>4 DEF ReadType

\* The two posts of semaphore_main: the login's while main waits for it, and the
\* game's while main waits for that.
LEMMA PostMainRound ==
  ASSUME GuiInv, TypeOK', PlaceInv, TokenInv, ~closeOnEnd, PostMain
  PROVE  PlaceInv' /\ TokenInv' /\ NoGain
<1> USE DEF At
<1>1. TypeOK /\ pc["listener"] = "post" /\ proc = "running"
  BY DEF GuiInv, PostMain
<1>2. /\ pc'["main"] = pc["main"] /\ cont'["main"] = cont["main"]
      /\ pc'["gui"] = pc["gui"] /\ cont'["gui"] = cont["gui"]
      /\ pc'["listener"] = AfterPost
      /\ UNCHANGED <<semSocket, hdr, windows, threads, srv, srvActive, inbox, outbox>>
  BY <1>1
  DEF PostMain, Continue, Goto, TypeOK, CtlTypeOK, Threads, liVars, guiVars, netVars, srvVars
<1>3. semMain \in Nat /\ semMain' <= semMain + 1 /\ semMain' >= semMain /\ semMain' \in Nat
  BY <1>1, CountsTyped, ClientAssumption DEF PostMain, SemPost, TypeOK, SemTypeOK
<1>4. /\ \A type : Count(inbox, type) \in Nat /\ Count(outbox, type) \in Nat
      /\ threads.sleeping \in Nat
  BY <1>1, CountsTyped
<1>5. Started' <=> Started
  BY <1>2 DEF Started
<1>6. RoundTokens' = RoundTokens
  BY <1>1, <1>2, <1>4 DEF RoundTokens, One, AfterPost
<1>7. NoGain
  <2>1. AskTokens' = AskTokens /\ CloseTokens' = CloseTokens
    BY <1>1, <1>2 DEF AskTokens, CloseTokens, One, AfterPost
  <2> QED BY <1>1, <1>2, <1>5, <2>1, RoundSum DEF NoGain
<1>8. hdr.type \in {"LG_RQ_OK", "ST_GA"}
  BY <1>1 DEF PlaceInv, ListenerPlaces
<1>9. CASE hdr.type = "LG_RQ_OK"
  <2>1. LoginTokens >= 1 /\ LoginTokens' = LoginTokens - 1 /\ StartTokens' = StartTokens
    BY <1>1, <1>2, <1>4, <1>9 DEF LoginTokens, StartTokens, One, AfterPost
  <2>2. pc["main"] \in InLogin
    BY <2>1 DEF TokenInv, Started, InLogin, Early
  <2>3. semMain = 0 /\ LoginTokens = 1
    <3>1. LoginTokens + semMain <= 1 /\ LoginTokens \in Nat
      BY <1>4, <2>2 DEF TokenInv, LoginTokens, One
    <3> QED BY <1>3, <2>1, <3>1
  <2>4. TokenInv'
    <3>1. LoginTokens' + semMain' <= 1 /\ StartTokens' <= 1 /\ RoundTokens' = 0
      <4>1. LoginTokens' = 0 /\ semMain' \in {0, 1}
        BY <1>3, <2>1, <2>3
      <4>2. StartTokens <= 1 /\ RoundTokens = 0
        BY <2>2 DEF TokenInv
      <4> QED BY <1>6, <2>1, <4>1, <4>2
    <3>2. ~Started'
      BY <1>2, <2>2 DEF Started, InLogin, Early
    <3> QED BY <1>2, <2>2, <3>1, <3>2 DEF TokenInv
  <2>5. PlaceInv'
    BY <1>1, <1>2, <1>9
    DEF AfterPost, PlaceInv, MainPlaces, GuiPlaces, ListenerPlaces, LoggedIn, InError
  <2> QED BY <1>7, <2>4, <2>5
<1>10. CASE hdr.type = "ST_GA"
  <2>1. StartTokens >= 1 /\ StartTokens' = StartTokens - 1 /\ LoginTokens' = LoginTokens
    BY <1>1, <1>2, <1>4, <1>10 DEF LoginTokens, StartTokens, One, AfterPost
  <2>2. windows # "none"
    BY <1>1, <1>10 DEF GuiInv, StartInv, BeforeGui, ListenerBeforeGui, FirstMessage
  <2>3. pc["main"] \notin InLogin
    BY <2>2 DEF PlaceInv, MainPlaces
  <2>4. ~Started
    BY <2>1 DEF TokenInv
  <2>5. TokenInv'
    <3>1. LoginTokens = 0 /\ StartTokens + semMain <= 1 /\ RoundTokens = 0
      BY <2>3, <2>4, Zenon DEF TokenInv
    <3>2. StartTokens \in Nat
      BY <1>4 DEF StartTokens, One
    <3>3. StartTokens = 1 /\ semMain = 0
      BY <1>3, <2>1, <3>1, <3>2
    <3>4. StartTokens' = 0 /\ semMain' \in {0, 1}
      BY <1>3, <2>1, <3>3
    <3>5. LoginTokens' = 0 /\ StartTokens' + semMain' <= 1 /\ RoundTokens' = 0
      BY <1>6, <2>1, <3>1, <3>4
    <3> QED BY <1>2, <1>5, <2>3, <2>4, <3>5, Zenon DEF TokenInv
  <2>6. PlaceInv'
    BY <1>1, <1>2, <1>10, <2>3
    DEF AfterPost, PlaceInv, MainPlaces, GuiPlaces, ListenerPlaces, LoggedIn, InError
  <2> QED BY <1>7, <2>5, <2>6
<1> QED BY <1>8, <1>9, <1>10

\* A written frame that is no QUESTION_REQUEST brings no token.
LEMMA WritesNoRequest ==
  ASSUME TypeOK, TypeOK', NEW frame \in Frame, frame.type # "QU_RQ",
         outbox' = outbox \/ \E t, next : Write(t, frame, next)
  PROVE  Count(outbox', "QU_RQ") <= Count(outbox, "QU_RQ")
<1>1. outbox' \in {outbox, Append(outbox, frame)}
  <2>1. ASSUME NEW t, NEW next, Write(t, frame, next)
        PROVE  outbox' \in {outbox, Append(outbox, frame)}
    BY <2>1 DEF Write
  <2> QED BY <2>1
<1>2. Count(outbox, "QU_RQ") \in Nat
  BY CountsTyped
<1>3. Count(Append(outbox, frame), "QU_RQ") = Count(outbox, "QU_RQ")
  <2>1. outbox \in Seq(Frame)
    BY DEF TypeOK, NetTypeOK
  <2>2. Count(Append(outbox, frame), "QU_RQ") = Count(outbox, "QU_RQ") + 0
    BY <2>1, CountAppend DEF One
  <2> QED BY <1>2, <2>2
<1>4. CASE outbox' = outbox
  BY <1>2, <1>4
<1>5. CASE outbox' = Append(outbox, frame)
  BY <1>2, <1>3, <1>5
<1> QED BY <1>1, <1>4, <1>5

\* A GUI call of listener_thread.
LEMMA ListenerShowsRound ==
  ASSUME GuiInv, TypeOK', PlaceInv, TokenInv, ~closeOnEnd, ListenerShows
  PROVE  PlaceInv' /\ TokenInv' /\ NoGain
<1> USE DEF At, GuiCall, InError
<1>1. TypeOK /\ proc = "running"
  BY DEF GuiInv, ListenerShows, ListenerAborts, SetMode, ShowCatalog, ShowSelection,
         ShowPlayers, ShowGame, ShowQuestion, EnableButtons, ShowResult, HideGame,
         ShowWarning, ShowEnd
<1>2. UNCHANGED <<semVars, windows, threads, srv, srvActive, hdr, inbox>>
  BY DEF ListenerShows, ListenerAborts, SetMode, ShowCatalog, ShowSelection,
         ShowPlayers, ShowGame, ShowQuestion, EnableButtons, ShowResult, HideGame,
         ShowWarning, ShowEnd, OnlyGui, OnlyControl, guiVars, liVars, netVars, srvVars
<1>3. ASSUME outbox' = outbox \/ \E next : Write("listener", Frm("CA_CH", 0), next)
      PROVE  /\ \A type \in {"LG_RQ_OK", "ST_GA", "QU_RE"} :
                  Count(inbox', type) <= Count(inbox, type)
             /\ Count(outbox', "QU_RQ") <= Count(outbox, "QU_RQ")
  <2>1. Frm("CA_CH", 0) \in Frame /\ Frm("CA_CH", 0).type # "QU_RQ"
    BY DEF Frm, Frame, FrameTypes
  <2> QED BY <1>1, <1>2, <1>3, <2>1, QueuesKept, WritesNoRequest
<1>4. CASE ListenerAborts
  <2>1. ListenerTo("type") /\ outbox' = outbox /\ pc["listener"] \in {"gui", "buttons", "case"}
    BY <1>1, <1>4, ListenerMoves DEF ListenerAborts, OnlyControl, netVars
  <2> QED BY <1>2, <1>3, <2>1, ListenerKeeps
<1>5. CASE SetMode \/ ShowCatalog \/ ShowPlayers
  <2>1. ListenerTo("type") /\ outbox' = outbox /\ pc["listener"] = "gui"
    BY <1>1, <1>5, ListenerMoves
    DEF SetMode, ShowCatalog, ShowPlayers, OnlyGui, OnlyControl, netVars
  <2> QED BY <1>2, <1>3, <2>1, ListenerKeeps
<1>6. CASE ShowSelection
  <2>1. pc["listener"] = "gui"
    BY <1>6 DEF ShowSelection
  <2>2. CASE Write("listener", Frm("CA_CH", 0), "name")
    <3>1. ListenerTo("name")
      BY <1>1, <2>2, ListenerMoves
    <3> QED BY <1>2, <1>3, <2>1, <2>2, <3>1, ListenerKeeps
  <2>3. CASE Continue("listener", "type") /\ outbox' = outbox
    <3>1. ListenerTo("type")
      BY <1>1, <2>3, ListenerMoves
    <3> QED BY <1>2, <1>3, <2>1, <2>3, <3>1, ListenerKeeps
  <2> QED BY <1>6, <2>2, <2>3 DEF ShowSelection
<1>7. CASE ShowGame
  <2>1. /\ ListenerTo("post") /\ outbox' = outbox /\ pc["listener"] = "gui"
        /\ hdr.type = "ST_GA"
    BY <1>1, <1>7, ListenerMoves DEF ShowGame, netVars
  <2> QED BY <1>2, <1>3, <2>1, ListenerKeeps
<1>8. CASE ShowQuestion \/ EnableButtons
  <2>1. /\ \E next \in {"buttons", "type"} : ListenerTo(next)
        /\ outbox' = outbox /\ pc["listener"] \in {"gui", "buttons"}
    BY <1>1, <1>8, ListenerMoves DEF ShowQuestion, EnableButtons, OnlyGui, netVars
  <2> QED BY <1>2, <1>3, <2>1, ListenerKeeps
<1>9. CASE ShowResult
  <2>1. /\ ListenerTo("spawn") /\ outbox' = outbox /\ pc["listener"] = "gui"
        /\ hdr.type = "QU_RE"
    BY <1>1, <1>9, ListenerMoves DEF ShowResult, OnlyGui, netVars
  <2> QED BY <1>2, <1>3, <2>1, ListenerKeeps
<1>10. CASE HideGame
  <2>1. /\ ListenerTo("rank") /\ outbox' = outbox /\ pc["listener"] = "case"
        /\ windows # "none"
    BY <1>1, <1>10, ListenerMoves DEF HideGame, OnlyGui, netVars
  <2> QED BY <1>2, <1>3, <2>1, ListenerKeeps
<1>11. CASE ShowWarning
  <2>1. ListenerTo("type") /\ outbox' = outbox /\ pc["listener"] = "info"
    BY <1>1, <1>11, ListenerMoves DEF ShowWarning, OnlyGui, netVars
  <2> QED BY <1>2, <1>3, <2>1, ListenerKeeps
<1>12. CASE ShowEnd
  <2>1. ListenerTo("errWait")
    BY <1>1, <1>12 DEF ShowEnd, ListenerTo, Goto, TypeOK, CtlTypeOK, Threads
  <2>2. outbox' = outbox /\ pc["listener"] = "quit" /\ windows # "none"
    BY <1>1, <1>12, WindowsThere DEF ShowEnd, OnlyGui, netVars
  <2> QED BY <1>2, <1>3, <2>1, <2>2, ListenerKeeps
<1> QED BY <1>4, <1>5, <1>6, <1>7, <1>8, <1>9, <1>10, <1>11, <1>12 DEF ListenerShows

\* "Wait until GUI-Thread is started" takes the one post of the GUI thread.
LEMMA WaitGuiRound ==
  ASSUME GuiInv, TypeOK', PlaceInv, TokenInv, WaitGui
  PROVE  PlaceInv' /\ TokenInv' /\ NoGain
<1> USE DEF At
<1>1. TypeOK /\ pc["listener"] = "waitGui" /\ hdr.type = "LG_RQ_OK" /\ semSocket = 1
  <2>1. semSocket \in Nat /\ semSocket <= 1 /\ semSocket > 0
    BY CountsTyped DEF GuiInv, WaitGui, PlaceInv, ListenerPlaces
  <2> QED BY <2>1 DEF GuiInv, WaitGui, PlaceInv, ListenerPlaces
<1>2. /\ pc'["main"] = pc["main"] /\ cont'["main"] = cont["main"]
      /\ pc'["gui"] = pc["gui"] /\ cont'["gui"] = cont["gui"]
      /\ pc'["listener"] = "gui" /\ semSocket' = 0
      /\ UNCHANGED <<semMain, hdr, windows, threads, srv, srvActive, inbox, outbox>>
  BY <1>1
  DEF WaitGui, Continue, Goto, TypeOK, CtlTypeOK, Threads, liVars, guiVars, netVars, srvVars
<1>3. windows # "none"
  BY <1>1 DEF GuiInv, StartInv, BeforeGui
<1>4. PlaceInv'
  BY <1>1, <1>2, <1>3
  DEF PlaceInv, MainPlaces, GuiPlaces, ListenerPlaces, LoggedIn, InError
<1>5. TokenInv' /\ NoGain
  BY <1>1, <1>2, QueuesKept, CountsTyped, TokensFall
<1> QED BY <1>4, <1>5

\* The listener hands the round to the thread it starts, or the round is over.
LEMMA SpawnRound ==
  ASSUME GuiInv, TypeOK', PlaceInv, TokenInv, SpawnQuestionThread
  PROVE  PlaceInv' /\ TokenInv'
<1> USE DEF At
<1>1. TypeOK /\ pc["listener"] = "spawn" /\ hdr.type = "QU_RE"
  BY DEF GuiInv, SpawnQuestionThread, PlaceInv, ListenerPlaces
<1>2. /\ pc'["main"] = pc["main"] /\ cont'["main"] = cont["main"]
      /\ pc'["gui"] = pc["gui"] /\ cont'["gui"] = cont["gui"]
      /\ pc'["listener"] = "type"
      /\ UNCHANGED <<semMain, semSocket, hdr, windows, srv, srvActive, inbox, outbox>>
  BY <1>1
  DEF SpawnQuestionThread, Continue, Goto, TypeOK, CtlTypeOK, Threads, semVars, liVars,
      guiVars, netVars, srvVars
<1>3. threads'.sleeping \in {threads.sleeping, threads.sleeping + 1}
  BY <1>1 DEF SpawnQuestionThread, Spawned, TypeOK, ThreadsTypeOK
<1>4. PlaceInv'
  BY <1>1, <1>2
  DEF PlaceInv, MainPlaces, GuiPlaces, ListenerPlaces, LoggedIn, InError
<1>5. LoginTokens' <= LoginTokens /\ StartTokens' <= StartTokens
  BY <1>1, <1>2, CountsTyped DEF LoginTokens, StartTokens, One
<1>6. RoundTokens' <= RoundTokens
  BY <1>1, <1>2, <1>3, CountsTyped DEF RoundTokens, One
<1>7. Started' <=> Started
  BY <1>2 DEF Started
<1>8. TokenInv'
  BY <1>1, <1>2, <1>5, <1>6, <1>7, TokensKept
<1> QED BY <1>4, <1>8

-----------------------------------------------------------------------------
(* main, the GUI thread and the error checks.                               *)

\* How a write ends while nobody has closed a window.
LEMMA WriteEnds ==
  ASSUME TypeOK, ~closeOnEnd, NEW t \in Threads, NEW frame, NEW next,
         Write(t, frame, next)
  PROVE  /\ \A u \in Threads \ {t} : pc'[u] = pc[u] /\ cont'[u] = cont[u]
         /\ \/ /\ pc'[t] = next /\ cont'[t] = cont[t]
               /\ outbox' \in {outbox, Append(outbox, frame)}
            \/ pc'[t] = pc[t] /\ cont'[t] = cont[t] /\ outbox' = outbox
            \/ /\ guiRuns /\ pc'[t] = "errDialog" /\ cont'[t] = next
               /\ outbox' = outbox
<1> USE DEF TypeOK, CtlTypeOK
<1>1. CASE Continue(t, next) /\ outbox' \in {outbox, Append(outbox, frame)}
  BY <1>1 DEF Continue, Goto
<1>2. CASE (\E how \in {"killed", "exited"} : End(how)) /\ outbox' = outbox
  BY <1>2 DEF End
<1>3. CASE guiRuns /\ Goto(t, "errDialog") /\ cont' = [cont EXCEPT ![t] = next]
           /\ outbox' = outbox
  BY <1>3 DEF Goto
<1> QED BY <1>1, <1>2, <1>3 DEF Write, TestErrors

\* main connects, creates the threads and waits.
LEMMA MainStartsRound ==
  ASSUME GuiInv, TypeOK', PlaceInv, TokenInv, Connect \/ CreateListener \/ CreateGui
  PROVE  PlaceInv' /\ TokenInv' /\ NoGain
<1> USE DEF At
<1>1. TypeOK
  BY DEF GuiInv
<1>2. /\ UNCHANGED <<semMain, semSocket, hdr, windows, threads, srv, srvActive,
                     inbox, outbox>>
      /\ cont' = cont
  BY DEF Connect, CreateListener, CreateGui, Continue, End, OnlyControl, semVars, liVars,
         guiVars, netVars, srvVars
<1>3. ASSUME pc'["main"] \in InLogin <=> pc["main"] \in InLogin, Started' <=> Started,
             pc["main"] # "request", pc'["main"] # "request",
             pc'["listener"] \in {pc["listener"], "type"}
      PROVE  TokenInv' /\ NoGain
  <2>1. LoginTokens' <= LoginTokens /\ StartTokens' <= StartTokens
    BY <1>1, <1>2, <1>3, CountsTyped DEF LoginTokens, StartTokens, One
  <2>2. AskTokens' <= AskTokens /\ CloseTokens' <= CloseTokens
    <3>1. AskTokens' <= AskTokens
      BY <1>1, <1>2, <1>3, CountsTyped DEF AskTokens, One
    <3>2. CloseTokens' <= CloseTokens
      BY <1>1, <1>2, <1>3, CountsTyped DEF CloseTokens, One
    <3> QED BY <3>1, <3>2
  <2>3. NoGain
    BY <1>2, <1>3, <2>2 DEF NoGain
  <2> QED BY <1>1, <1>2, <1>3, <2>1, <2>3, RoundSum, TokensKept
<1>4. CASE pc' = pc
  <2>1. PlaceInv'
    BY <1>2, <1>4 DEF PlaceInv, MainPlaces, GuiPlaces, ListenerPlaces, LoggedIn
  <2>2. pc["main"] # "request"
    BY DEF Connect, CreateListener, CreateGui
  <2>3. TokenInv' /\ NoGain
    BY <1>2, <1>3, <1>4, <2>2 DEF Started
  <2> QED BY <2>1, <2>3
<1>5. CASE Connect /\ pc' # pc
  <2>1. pc' = [pc EXCEPT !["main"] = "create"] /\ pc["main"] = "connect"
    BY <1>5 DEF Connect, Continue, Goto, End
  <2>2. /\ pc'["main"] = "create" /\ pc'["listener"] = pc["listener"]
        /\ pc'["gui"] = pc["gui"]
    BY <1>1, <2>1 DEF TypeOK, CtlTypeOK, Threads
  <2>3. PlaceInv'
    BY <1>2, <2>1, <2>2
    DEF PlaceInv, MainPlaces, GuiPlaces, ListenerPlaces, LoggedIn, InLogin, Early,
        InError, MainLabels
  <2>4. TokenInv' /\ NoGain
    BY <1>3, <2>1, <2>2 DEF Started, InLogin, Early
  <2> QED BY <2>3, <2>4
<1>6. CASE CreateListener /\ pc' # pc
  <2>1. /\ pc' = [pc EXCEPT !["main"] = "login", !["listener"] = "type"]
        /\ pc["main"] = "create"
    BY <1>6 DEF CreateListener, End
  <2>2. /\ pc'["main"] = "login" /\ pc'["listener"] = "type" /\ pc'["gui"] = pc["gui"]
    BY <1>1, <2>1 DEF TypeOK, CtlTypeOK, Threads
  <2>3. pc["listener"] = "none"
    BY <2>1 DEF GuiInv, StartInv, BeforeLogin
  <2>4. PlaceInv'
    BY <1>2, <2>1, <2>2, <2>3
    DEF PlaceInv, MainPlaces, GuiPlaces, ListenerPlaces, LoggedIn, InLogin, Early,
        InError, MainLabels
  <2>5. TokenInv' /\ NoGain
    BY <1>3, <2>1, <2>2 DEF Started, InLogin, Early
  <2> QED BY <2>4, <2>5
<1>7. CASE CreateGui /\ pc' # pc
  <2>1. /\ pc' = [pc EXCEPT !["main"] = "catalogs", !["gui"] = "init"]
        /\ pc["main"] = "createGui"
    BY <1>7 DEF CreateGui, End
  <2>2. /\ pc'["main"] = "catalogs" /\ pc'["listener"] = pc["listener"]
        /\ pc'["gui"] = "init"
    BY <1>1, <2>1 DEF TypeOK, CtlTypeOK, Threads
  <2>3. PlaceInv'
    BY <1>2, <2>1, <2>2
    DEF PlaceInv, MainPlaces, GuiPlaces, ListenerPlaces, LoggedIn, InLogin, Early,
        InError, MainLabels
  <2>4. TokenInv' /\ NoGain
    BY <1>3, <2>1, <2>2 DEF Started, InLogin, Early
  <2> QED BY <2>3, <2>4
<1> QED BY <1>4, <1>5, <1>6, <1>7

\* main writes its three requests; the last passes its token to the server.
LEMMA MainWritesRound ==
  ASSUME GuiInv, TypeOK', PlaceInv, TokenInv, ~closeOnEnd,
         SendLogin \/ SendCatalogRequest \/ SendQuestionRequest
  PROVE  PlaceInv' /\ TokenInv' /\ NoGain
<1> USE DEF At
<1>1. TypeOK /\ "main" \in Threads
  BY DEF GuiInv, Threads
<1>2. UNCHANGED <<semMain, semSocket, hdr, windows, threads, srv, srvActive, inbox>>
  BY DEF SendLogin, SendCatalogRequest, SendQuestionRequest, MainWrites, semVars, liVars,
         guiVars, srvVars
<1>3. PICK type \in {"LG_RQ", "CA_RQ", "QU_RQ"}, next \in {"waitLogin", "waitStart", "waitEnd"} :
        /\ Write("main", Frm(type, 0), next)
        /\ \/ pc["main"] = "login" /\ type = "LG_RQ" /\ next = "waitLogin"
           \/ pc["main"] = "catalogs" /\ type = "CA_RQ" /\ next = "waitStart"
           \/ pc["main"] = "request" /\ type = "QU_RQ" /\ next = "waitEnd"
  BY DEF SendLogin, SendCatalogRequest, SendQuestionRequest, MainWrites
<1>4. guiRuns => windows # "none"
  BY DEF GuiInv, StartInv, BeforeGui
<1>5. /\ pc'["listener"] = pc["listener"] /\ pc'["gui"] = pc["gui"]
      /\ cont'["gui"] = cont["gui"]
      /\ \/ /\ pc'["main"] = next /\ cont'["main"] = cont["main"]
            /\ outbox' \in {outbox, Append(outbox, Frm(type, 0))}
         \/ pc'["main"] = pc["main"] /\ cont'["main"] = cont["main"] /\ outbox' = outbox
         \/ /\ guiRuns /\ pc'["main"] = "errDialog" /\ cont'["main"] = next
            /\ outbox' = outbox
  BY <1>1, <1>3, WriteEnds DEF Threads
<1>6. PlaceInv'
  BY <1>2, <1>3, <1>4, <1>5
  DEF PlaceInv, MainPlaces, GuiPlaces, ListenerPlaces, LoggedIn, InLogin, Early, InError,
      MainLabels
<1>7. pc'["main"] \in InLogin <=> pc["main"] \in InLogin
  BY <1>3, <1>4, <1>5 DEF InLogin, Early, PlaceInv, MainPlaces
<1>8. Started' <=> Started
  BY <1>3, <1>4, <1>5 DEF Started, PlaceInv, MainPlaces, InLogin, Early
<1>9. LoginTokens' <= LoginTokens /\ StartTokens' <= StartTokens
  BY <1>1, <1>2, <1>5, CountsTyped DEF LoginTokens, StartTokens, One
<1>10. Count(outbox', "QU_RQ") + One(pc'["main"] = "request")
         <= Count(outbox, "QU_RQ") + One(pc["main"] = "request")
  <2>1. outbox \in Seq(Frame) /\ Frm(type, 0) \in Frame /\ Frm(type, 0).type = type
    BY <1>1 DEF TypeOK, NetTypeOK, Frm, Frame, FrameTypes
  <2>2. /\ Count(Append(outbox, Frm(type, 0)), "QU_RQ")
             = Count(outbox, "QU_RQ") + One(type = "QU_RQ")
        /\ Count(outbox, "QU_RQ") \in Nat
    BY <2>1, CountAppend, CountNat
  <2>3. CASE pc'["main"] = pc["main"] /\ outbox' = outbox
    BY <2>2, <2>3 DEF One
  <2>4. CASE pc'["main"] # "request" /\ outbox' = outbox
    BY <2>2, <2>4 DEF One
  <2>5. CASE pc'["main"] = next /\ outbox' = Append(outbox, Frm(type, 0))
    <3>1. One(pc'["main"] = "request") = 0
      BY <1>3, <2>5 DEF One
    <3>2. One(type = "QU_RQ") = One(pc["main"] = "request")
      BY <1>3 DEF One
    <3>3. One(pc["main"] = "request") \in Nat
      BY DEF One
    <3> QED BY <2>2, <2>5, <3>1, <3>2, <3>3
  <2> QED BY <1>3, <1>5, <2>3, <2>4, <2>5
<1>11. NoGain
  <2>1. AskTokens' <= AskTokens
    <3>1. PICK a \in Nat, b \in Nat, c \in Nat, d \in Nat, m \in Nat :
            /\ a = Count(outbox, "QU_RQ") /\ b = Count(outbox', "QU_RQ")
            /\ c = One(pc["main"] = "request") /\ d = One(pc'["main"] = "request")
            /\ m = threads.sleeping
      BY <1>1, CountsTyped DEF One
    <3>2. b + d <= a + c
      BY <1>10, <3>1
    <3>3. AskTokens = m + a + c /\ AskTokens' = m + b + d
      BY <1>2, <3>1 DEF AskTokens
    <3> QED BY <3>2, <3>3
  <2>2. CloseTokens' = CloseTokens
    BY <1>2, <1>5 DEF CloseTokens
  <2> QED BY <1>1, <1>2, <1>8, <2>1, <2>2, RoundSum DEF NoGain
<1>12. TokenInv'
  BY <1>1, <1>2, <1>7, <1>8, <1>9, <1>11, RoundSum, TokensKept
<1> QED BY <1>6, <1>11, <1>12

\* main's waits: each takes a post that was meant for it, and the last gets none.
LEMMA MainWaitsRound ==
  ASSUME GuiInv, TypeOK', PlaceInv, TokenInv, WaitLogin \/ WaitStart \/ WaitEnd
  PROVE  PlaceInv' /\ TokenInv'
<1> USE DEF At
<1>1. TypeOK /\ semMain \in Nat /\ semMain > 0
  BY CountsTyped DEF GuiInv, WaitLogin, WaitStart, WaitEnd, MainWaits
<1>2. ~WaitEnd
  BY <1>1 DEF WaitEnd, TokenInv, Started
<1>3. PICK next \in {"createGui", "request"} :
        /\ \/ pc["main"] = "waitLogin" /\ next = "createGui"
           \/ pc["main"] = "waitStart" /\ next = "request"
        /\ Continue("main", next) /\ semMain' = semMain - 1
  BY <1>2 DEF WaitLogin, WaitStart, MainWaits
<1>4. /\ UNCHANGED <<semSocket, hdr, windows, threads, srv, srvActive, inbox, outbox>>
      /\ pc'["main"] = next /\ cont' = cont
      /\ pc'["listener"] = pc["listener"] /\ pc'["gui"] = pc["gui"]
  BY <1>1, <1>2, <1>3
  DEF WaitLogin, WaitStart, MainWaits, liVars, guiVars, netVars, srvVars, Continue, Goto,
      TypeOK, CtlTypeOK, Threads
<1>5. PlaceInv'
  BY <1>1, <1>3, <1>4
  DEF PlaceInv, MainPlaces, GuiPlaces, ListenerPlaces, LoggedIn, InLogin, Early, InError,
      MainLabels
<1>6. LoginTokens' = LoginTokens /\ StartTokens' = StartTokens
  BY <1>4 DEF LoginTokens, StartTokens
<1>7. /\ LoginTokens \in Nat /\ StartTokens \in Nat
      /\ RoundTokens' = RoundTokens + One(pc'["main"] = "request") - One(pc["main"] = "request")
  <2>1. LoginTokens \in Nat /\ StartTokens \in Nat
    BY <1>1, CountsTyped DEF LoginTokens, StartTokens, One
  <2>2. PICK a \in Nat, b \in Nat, c \in Nat, d \in Nat, e \in Nat :
          /\ a = threads.sleeping /\ b = Count(outbox, "QU_RQ") /\ c = Count(inbox, "QU_RE")
          /\ d = One(srvActive)
          /\ e = One(pc["listener"] \in {"size", "case", "gui", "spawn"} /\ hdr.type = "QU_RE")
    BY <1>1, CountsTyped DEF One
  <2>3. PICK m \in Nat, n \in Nat :
          m = One(pc["main"] = "request") /\ n = One(pc'["main"] = "request")
    BY DEF One
  <2>4. RoundTokens = a + b + c + d + m + e /\ RoundTokens' = a + b + c + d + n + e
    BY <1>4, <2>2, <2>3 DEF RoundTokens
  <2> QED BY <2>1, <2>3, <2>4
<1>8. CASE pc["main"] = "waitLogin" /\ next = "createGui"
  <2>1. LoginTokens + semMain <= 1 /\ StartTokens <= 1 /\ RoundTokens = 0
    BY <1>8 DEF TokenInv, InLogin
  <2>2. LoginTokens = 0 /\ semMain' = 0
    BY <1>1, <1>3, <1>7, <2>1
  <2>3. RoundTokens' = 0
    BY <1>4, <1>7, <1>8, <2>1 DEF One
  <2>4. LoginTokens' = 0 /\ StartTokens' + semMain' <= 1 /\ RoundTokens' = 0
    BY <1>6, <1>7, <2>1, <2>2, <2>3
  <2>5. pc'["main"] \notin InLogin /\ ~Started'
    BY <1>4, <1>8 DEF InLogin, Early, Started
  <2> QED BY <1>5, <2>4, <2>5, Zenon DEF TokenInv
<1>9. CASE pc["main"] = "waitStart" /\ next = "request"
  <2>1. pc["main"] \notin InLogin /\ ~Started
    BY <1>9 DEF InLogin, Early, Started
  <2>2. LoginTokens = 0 /\ StartTokens + semMain <= 1 /\ RoundTokens = 0
    BY <2>1, Zenon DEF TokenInv
  <2>3. StartTokens = 0 /\ semMain' = 0
    BY <1>1, <1>3, <1>7, <2>2
  <2>4. RoundTokens' <= 1
    BY <1>4, <1>7, <1>9, <2>2 DEF One
  <2>5. pc'["main"] \notin InLogin /\ Started'
    BY <1>4, <1>9 DEF InLogin, Early, Started
  <2> QED BY <1>5, <1>6, <2>2, <2>3, <2>4, <2>5, Zenon DEF TokenInv
<1> QED BY <1>3, <1>8, <1>9

\* A step that moves the GUI thread, or nobody, and brings no token.
LEMMA GuiKeeps ==
  ASSUME GuiInv, TypeOK', PlaceInv, TokenInv,
         pc'["main"] = pc["main"], cont'["main"] = cont["main"],
         pc'["listener"] = pc["listener"], pc["gui"] # "none",
         (pc["gui"] = "init" \/ pc'["gui"] \notin {"none", "init", "post"}),
         GuiPlaces',
         (\/ semSocket' = semSocket \/ (semSocket' <= 1 /\ pc["gui"] = "post")
          \/ (semSocket' = semSocket - 1 /\ semSocket > 0)),
         UNCHANGED <<semMain, hdr, threads, srv, srvActive, inbox>>,
         Count(outbox', "QU_RQ") <= Count(outbox, "QU_RQ")
  PROVE  PlaceInv' /\ TokenInv' /\ NoGain
<1>1. TypeOK
  BY DEF GuiInv
<1>2. MainPlaces'
  BY DEF PlaceInv, MainPlaces
<1>3. ListenerPlaces'
  <2>1. semSocket' <= 1
    BY <1>1, CountsTyped DEF PlaceInv, ListenerPlaces
  <2>2. pc["listener"] # "waitGui" /\ LoggedIn => semSocket' = 0
    BY <1>1, CountsTyped DEF PlaceInv, ListenerPlaces
  <2> QED BY <2>1, <2>2 DEF PlaceInv, ListenerPlaces, LoggedIn
<1>4. TokenInv' /\ NoGain
  BY <1>1, QueuesKept, CountsTyped, TokensFall
<1> QED BY <1>2, <1>3, <1>4 DEF PlaceInv

\* The GUI thread, its callbacks and the dialogs.
LEMMA GuiRound ==
  ASSUME GuiInv, TypeOK', PlaceInv, TokenInv, ~closeOnEnd, ~closeOnEnd',
         GuiStarts \/ GuiEnds \/ UserNext \/ UserConfirms
  PROVE  PlaceInv' /\ TokenInv' /\ NoGain
<1> USE DEF At
<1>1. TypeOK /\ "gui" \in Threads
  BY DEF GuiInv, Threads
<1>2. ASSUME outbox' = outbox
      PROVE  Count(outbox', "QU_RQ") <= Count(outbox, "QU_RQ")
  BY <1>1, <1>2, QueuesKept
<1>3. CASE GuiInit
  <2>1. /\ pc["gui"] = "init" /\ pc'["gui"] = "post" /\ pc'["main"] = pc["main"]
        /\ pc'["listener"] = pc["listener"] /\ cont' = cont
    BY <1>1, <1>3 DEF GuiInit, Continue, Goto, TypeOK, CtlTypeOK, Threads
  <2>2. UNCHANGED <<semMain, semSocket, hdr, threads, srv, srvActive, inbox, outbox>>
    BY <1>3 DEF GuiInit, OnlyGui, semVars, liVars, netVars, srvVars
  <2>3. semSocket = 0
    BY <2>1 DEF PlaceInv, GuiPlaces, GuiInv, StartInv, BeforeGui
  <2>4. GuiPlaces'
    BY <2>1, <2>2, <2>3 DEF GuiPlaces, InError
  <2> QED BY <1>2, <2>1, <2>2, <2>4, GuiKeeps
<1>4. CASE GuiPost
  <2>1. /\ pc["gui"] = "post" /\ pc'["gui"] = "setRuns" /\ pc'["main"] = pc["main"]
        /\ pc'["listener"] = pc["listener"] /\ cont' = cont
    BY <1>1, <1>4 DEF GuiPost, Continue, Goto, TypeOK, CtlTypeOK, Threads
  <2>2. UNCHANGED <<semMain, hdr, threads, srv, srvActive, inbox, outbox>>
    BY <1>4 DEF GuiPost, semVars, liVars, netVars, srvVars
  <2>3. semSocket' <= 1
    <3>1. semSocket = 0
      BY <2>1 DEF PlaceInv, GuiPlaces
    <3> QED BY <1>4, <3>1 DEF GuiPost, SemPost
  <2>4. GuiPlaces'
    BY <2>1 DEF GuiPlaces, InError
  <2> QED BY <1>2, <2>1, <2>2, <2>3, <2>4, GuiKeeps
<1>5. CASE GuiSetRuns \/ GuiEnds \/ UserConfirms
  <2>1. /\ pc["gui"] \in {"setRuns", "destroy", "exit", "loop"}
        /\ pc'["gui"] \in {"loop", "exit", "destroy"}
        /\ pc'["main"] = pc["main"] /\ pc'["listener"] = pc["listener"] /\ cont' = cont
    BY <1>1, <1>5
    DEF GuiSetRuns, GuiEnds, GuiDestroy, GuiExit, UserConfirms, DismissDialog, Continue,
        Goto, End, ctlVars, TypeOK, CtlTypeOK, Threads
  <2>2. UNCHANGED <<semMain, semSocket, hdr, threads, srv, srvActive, inbox, outbox>>
    BY <1>5
    DEF GuiSetRuns, GuiEnds, GuiDestroy, GuiExit, UserConfirms, DismissDialog, OnlyGui,
        OnlyControl, semVars, liVars, netVars, srvVars
  <2>3. GuiPlaces'
    BY <2>1 DEF GuiPlaces, InError
  <2> QED BY <1>2, <2>1, <2>2, <2>3, GuiKeeps
<1>6. CASE UserNext
  <2>1. PICK frame \in {Frm("CA_CH", 0), Frm("ST_GA", 0), Frm("QU_AN", shown)},
             next \in {"name", "unlock"} :
          pc["gui"] = "loop" /\ Callback(frame, next)
    <3>1. ~\E w \in {"preparation", "game"} : OnWindowClosed(w)
      BY DEF OnWindowClosed
    <3> QED BY <1>6, <3>1
            DEF UserNext, OnCatalogChanged, OnStartClicked, OnAnswerClicked, Dispatches
  <2>2. Write("gui", frame, next)
    BY <2>1 DEF Callback
  <2>3. /\ UNCHANGED <<semMain, semSocket, hdr, threads, srv, srvActive, inbox>>
    BY <2>1 DEF Callback, semVars, liVars, srvVars
  <2>4. /\ pc'["main"] = pc["main"] /\ pc'["listener"] = pc["listener"]
        /\ cont'["main"] = cont["main"]
        /\ \/ pc'["gui"] \in {next, "loop"}
           \/ pc'["gui"] = "errDialog" /\ cont'["gui"] = next
    BY <1>1, <2>1, <2>2, WriteEnds DEF Threads
  <2>5. GuiPlaces'
    BY <2>4 DEF GuiPlaces, InError
  <2>6. frame \in Frame /\ frame.type # "QU_RQ"
    BY <1>1 DEF Frm, Frame, FrameTypes, TypeOK, GuiTypeOK
  <2>7. Count(outbox', "QU_RQ") <= Count(outbox, "QU_RQ")
    BY <1>1, <2>2, <2>6, WritesNoRequest
  <2>8. pc'["gui"] \notin {"none", "init", "post"}
    BY <2>4
  <2> QED BY <2>1, <2>3, <2>4, <2>5, <2>7, <2>8, GuiKeeps
<1> QED BY <1>3, <1>4, <1>5, <1>6 DEF GuiStarts

\* The error checks, the second write of a frame and the end of a callback.
LEMMA ErrorsRound ==
  ASSUME GuiInv, TypeOK', PlaceInv, TokenInv, ~closeOnEnd, NEW t \in Threads, Errors(t)
  PROVE  PlaceInv' /\ TokenInv' /\ NoGain
<1> USE DEF At
<1>1. TypeOK /\ proc = "running" /\ selected \in Nat
  BY DEF GuiInv, Errors, ErrorDialog, SocketWait, WriteName, Unlock, TypeOK, GuiTypeOK
<1>2. UNCHANGED <<semMain, hdr, windows, threads, srv, srvActive, inbox>>
  BY DEF Errors, ErrorDialog, SocketWait, WriteName, Unlock, OnlyGui, semVars, liVars,
         guiVars, netVars, srvVars
<1>3. /\ \A type \in {"LG_RQ_OK", "ST_GA", "QU_RE"} :
           Count(inbox', type) <= Count(inbox, type)
      /\ Count(outbox', "QU_RQ") <= Count(outbox, "QU_RQ")
  <2>1. Frm("NAME", selected) \in Frame /\ Frm("NAME", selected).type # "QU_RQ"
    BY <1>1 DEF Frm, Frame, FrameTypes
  <2>2. outbox' = outbox \/ \E next : Write(t, Frm("NAME", selected), next)
    BY DEF Errors, ErrorDialog, SocketWait, WriteName, Unlock, OnlyGui, netVars
  <2> QED BY <1>1, <1>2, <2>1, <2>2, QueuesKept, WritesNoRequest
<1>4. CASE ErrorDialog(t)
  <2>1. /\ pc[t] = "errDialog" /\ pc' = [pc EXCEPT ![t] = "errWait"] /\ cont' = cont
        /\ semSocket' = semSocket
    BY <1>4 DEF ErrorDialog, Continue, Goto, OnlyGui, semVars
  <2>2. /\ \A u \in Threads : pc'[u] = IF u = t THEN "errWait" ELSE pc[u]
        /\ \A u \in Threads : pc[u] \in InError <=> pc'[u] \in InError
    BY <1>1, <2>1 DEF TypeOK, CtlTypeOK, InError
  <2>3. PlaceInv'
    <3>1. MainPlaces'
      BY <1>2, <2>1, <2>2
      DEF PlaceInv, MainPlaces, InError, InLogin, Early, MainLabels, Threads
    <3>2. GuiPlaces'
      BY <1>2, <2>1, <2>2 DEF PlaceInv, GuiPlaces, InError, Threads
    <3>3. ListenerPlaces'
      <4>1. LoggedIn' <=> LoggedIn
        BY <1>2, <2>1, <2>2 DEF LoggedIn, InLogin, Early, Threads
      <4> QED BY <1>2, <2>1, <2>2, <4>1 DEF PlaceInv, ListenerPlaces, InError, Threads
    <3> QED BY <3>1, <3>2, <3>3 DEF PlaceInv
  <2>4. LoginTokens' <= LoginTokens /\ StartTokens' <= StartTokens
        /\ AskTokens' <= AskTokens /\ CloseTokens' <= CloseTokens
    <3>1. /\ pc'["main"] = "request" <=> pc["main"] = "request"
          /\ pc'["listener"] \in {"size", "case", "gui", "spawn", "post"}
               => pc'["listener"] = pc["listener"]
          /\ pc["listener"] \in {"size", "case", "gui", "spawn", "post"}
               => pc'["listener"] = pc["listener"]
      BY <2>1, <2>2 DEF Threads
    <3>2. LoginTokens' <= LoginTokens
      BY <1>1, <1>2, <1>3, <3>1, CountsTyped DEF LoginTokens, One
    <3>3. StartTokens' <= StartTokens
      BY <1>1, <1>2, <1>3, <3>1, CountsTyped DEF StartTokens, One
    <3>4. AskTokens' <= AskTokens
      BY <1>1, <1>2, <1>3, <3>1, CountsTyped DEF AskTokens, One
    <3>5. CloseTokens' <= CloseTokens
      BY <1>1, <1>2, <1>3, <3>1, CountsTyped DEF CloseTokens, One
    <3> QED BY <3>2, <3>3, <3>4, <3>5
  <2>5. Started' <=> Started
    BY <2>1, <2>2 DEF Started, InError, Threads
  <2>6. pc'["main"] \in InLogin <=> pc["main"] \in InLogin
    BY <2>1, <2>2 DEF InLogin, Early, Threads
  <2>7. NoGain
    BY <1>2, <2>4, <2>5 DEF NoGain
  <2> QED BY <1>1, <1>2, <2>1, <2>3, <2>4, <2>5, <2>6, <2>7, RoundSum, TokensKept
<1>5. CASE SocketWait(t)
  <2>1. /\ pc[t] = "errWait" /\ pc' = [pc EXCEPT ![t] = cont[t]] /\ cont' = cont
        /\ semSocket > 0 /\ semSocket' = semSocket - 1
    BY <1>5 DEF SocketWait, Continue, Goto
  <2>2. \A u \in Threads : pc'[u] = IF u = t THEN cont[t] ELSE pc[u]
    BY <1>1, <2>1 DEF TypeOK, CtlTypeOK
  <2>3. CASE t = "main"
    <3>1. cont["main"] \in {"waitStart", "waitEnd"} /\ pc["main"] = "errWait"
      BY <2>1, <2>3 DEF PlaceInv, MainPlaces, InError
    <3>2. LoggedIn /\ pc["main"] \notin InLogin /\ pc'["main"] \notin InLogin
      BY <2>2, <2>3, <3>1 DEF LoggedIn, InLogin, Early, Threads
    <3>3. /\ pc'["main"] = cont["main"] /\ pc'["listener"] = pc["listener"]
          /\ pc'["gui"] = pc["gui"]
      BY <2>2, <2>3 DEF Threads
    <3>4. pc["listener"] = "waitGui"
      BY <2>1, <3>2 DEF PlaceInv, ListenerPlaces
    <3>5. PlaceInv'
      <4>1. semSocket' <= 1
        BY <1>1, <2>1, CountsTyped DEF PlaceInv, ListenerPlaces
      <4>2. semSocket = 0 => FALSE
        BY <2>1
      <4> QED BY <1>2, <2>1, <3>1, <3>2, <3>3, <3>4, <4>1, <4>2
              DEF PlaceInv, MainPlaces, GuiPlaces, ListenerPlaces, InError, InLogin, Early,
                  MainLabels
    <3>6. LoginTokens' <= LoginTokens /\ StartTokens' <= StartTokens
      BY <1>1, <1>2, <3>3, CountsTyped DEF LoginTokens, StartTokens, One
    <3>7. AskTokens' <= AskTokens /\ CloseTokens' <= CloseTokens
      <4>1. AskTokens' <= AskTokens
        BY <1>1, <1>2, <1>3, <3>1, <3>3, CountsTyped DEF AskTokens, One
      <4>2. CloseTokens' <= CloseTokens
        BY <1>1, <1>2, <1>3, <3>1, <3>3, CountsTyped DEF CloseTokens, One
      <4> QED BY <4>1, <4>2
    <3>8. Started' <=> Started
      BY <2>1, <3>1, <3>3 DEF Started
    <3>9. NoGain
      BY <1>2, <3>7, <3>8 DEF NoGain
    <3> QED BY <1>1, <1>2, <3>2, <3>5, <3>6, <3>8, <3>9, RoundSum, TokensKept
  <2>4. CASE t = "listener"
    <3>1. pc["listener"] = "errWait"
      BY <2>1, <2>4
    <3>2. pc["main"] \in InLogin \cup {"createGui"} \/ semSocket = 0
      BY <3>1 DEF PlaceInv, ListenerPlaces, LoggedIn
    <3> QED BY <2>1, <3>1, <3>2 DEF PlaceInv, MainPlaces, InError
  <2>5. CASE t = "gui"
    <3>1. pc["gui"] = "errWait" /\ pc'["gui"] \in {"name", "unlock"}
      BY <2>1, <2>2, <2>5 DEF PlaceInv, GuiPlaces, InError
    <3>2. /\ pc'["main"] = pc["main"] /\ pc'["listener"] = pc["listener"]
      BY <2>2, <2>5 DEF Threads
    <3>3. GuiPlaces'
      BY <3>1 DEF GuiPlaces, InError
    <3> QED BY <1>2, <1>3, <2>1, <3>1, <3>2, <3>3, GuiKeeps
  <2> QED BY <2>3, <2>4, <2>5 DEF Threads
<1>6. CASE WriteName(t) \/ Unlock(t)
  <2>1. pc[t] \in {"name", "unlock"} /\ semSocket' = semSocket
    BY <1>6 DEF WriteName, Unlock, OnlyGui, semVars
  <2>2. t # "main"
    BY <2>1 DEF PlaceInv, MainPlaces, MainLabels, InError
  <2>3. CASE t = "listener"
    <3>1. \E next \in {"unlock", "type"} : ListenerTo(next)
      BY <1>1, <1>6, <2>3, ListenerMoves DEF WriteName, Unlock
    <3> QED BY <1>2, <1>3, <2>1, <2>3, <3>1, ListenerKeeps DEF semVars, InError
  <2>4. CASE t = "gui"
    <3>1. /\ pc'["main"] = pc["main"] /\ pc'["listener"] = pc["listener"]
          /\ cont'["main"] = cont["main"]
          /\ \/ pc'["gui"] \in {"unlock", "loop", "name"}
             \/ pc'["gui"] = "errDialog" /\ cont'["gui"] = "unlock"
      <4>1. CASE WriteName(t)
        <5>1. Write("gui", Frm("NAME", selected), "unlock")
          BY <2>4, <4>1 DEF WriteName
        <5> QED BY <1>1, <2>1, <2>4, <5>1, WriteEnds DEF Threads
      <4>2. CASE Unlock(t)
        BY <1>1, <2>4, <4>2 DEF Unlock, Continue, Goto, TypeOK, CtlTypeOK, Threads
      <4> QED BY <1>6, <4>1, <4>2
    <3>2. GuiPlaces'
      BY <3>1 DEF GuiPlaces, InError
    <3>3. pc'["gui"] \notin {"none", "init", "post"} /\ pc["gui"] # "none"
      BY <2>1, <2>4, <3>1
    <3> QED BY <1>2, <1>3, <2>1, <3>1, <3>2, <3>3, GuiKeeps
  <2> QED BY <2>2, <2>3, <2>4 DEF Threads
<1> QED BY <1>4, <1>5, <1>6 DEF Errors

-----------------------------------------------------------------------------
(* The question change threads and the server: they move no other thread.   *)

\* Where the threads are does not change when none of them moves.
LEMMA PlacesKept ==
  ASSUME PlaceInv, UNCHANGED <<pc, cont, semMain, semSocket, windows, hdr>>
  PROVE  PlaceInv' /\ (pc'["main"] \in InLogin <=> pc["main"] \in InLogin)
         /\ (Started' <=> Started)
  BY DEF PlaceInv, MainPlaces, GuiPlaces, ListenerPlaces, LoggedIn, Started

\* A question change thread asks for the question, or the round ends with it.
LEMMA QuestionThreadsRound ==
  ASSUME GuiInv, TypeOK', PlaceInv, TokenInv, QuestionThreads
  PROVE  PlaceInv' /\ TokenInv' /\ NoGain
<1>1. TypeOK
  BY DEF GuiInv
<1>2. UNCHANGED <<pc, cont, semMain, semSocket, windows, hdr, srv, srvActive, inbox>>
  BY DEF QuestionThreads, QuestionThreadWrites, QuestionThreadFails, End, ctlVars, semVars,
         liVars, guiVars, netVars, srvVars
<1>3. LoginTokens' <= LoginTokens /\ StartTokens' <= StartTokens
  BY <1>1, <1>2, CountsTyped DEF LoginTokens, StartTokens, One
<1>4. threads'.sleeping + Count(outbox', "QU_RQ") <= threads.sleeping + Count(outbox, "QU_RQ")
  <2>1. outbox \in Seq(Frame) /\ Frm("QU_RQ", 0) \in Frame /\ Frm("QU_RQ", 0).type = "QU_RQ"
    BY <1>1 DEF TypeOK, NetTypeOK, Frm, Frame, FrameTypes
  <2>2. Count(Append(outbox, Frm("QU_RQ", 0)), "QU_RQ") = Count(outbox, "QU_RQ") + 1
    BY <2>1, CountAppend DEF One
  <2>3. \/ threads'.sleeping = threads.sleeping /\ outbox' = outbox
        \/ /\ threads'.sleeping = threads.sleeping - 1
           /\ outbox' \in {outbox, Append(outbox, Frm("QU_RQ", 0))}
    <3>1. threads \in [sleeping : Nat, failing : Nat, waiting : Nat]
      BY <1>1 DEF TypeOK, ThreadsTypeOK
    <3>2. CASE QuestionThreadWrites
      BY <3>1, <3>2 DEF QuestionThreadWrites
    <3>3. CASE QuestionThreadFails
      BY <3>1, <3>3 DEF QuestionThreadFails, netVars
    <3> QED BY <3>2, <3>3 DEF QuestionThreads
  <2>4. PICK a \in Nat, b \in Nat : a = threads.sleeping /\ b = Count(outbox, "QU_RQ")
    BY <1>1, CountsTyped
  <2>5. CASE threads'.sleeping = threads.sleeping /\ outbox' = outbox
    BY <2>4, <2>5
  <2>6. CASE threads'.sleeping = threads.sleeping - 1 /\ outbox' = outbox
    BY <2>4, <2>6
  <2>7. CASE /\ threads'.sleeping = threads.sleeping - 1
             /\ outbox' = Append(outbox, Frm("QU_RQ", 0))
    <3>1. threads'.sleeping = a - 1 /\ Count(outbox', "QU_RQ") = b + 1
      BY <2>2, <2>4, <2>7
    <3> QED BY <2>4, <3>1
  <2> QED BY <2>3, <2>5, <2>6, <2>7
<1>5. PlaceInv' /\ (pc'["main"] \in InLogin <=> pc["main"] \in InLogin)
      /\ (Started' <=> Started)
  BY <1>2, PlacesKept
<1>6. NoGain
  <2>1. AskTokens' <= AskTokens
    BY <1>1, <1>2, <1>4, CountsTyped DEF AskTokens, One
  <2>2. CloseTokens' = CloseTokens
    BY <1>2 DEF CloseTokens
  <2> QED BY <1>1, <1>2, <1>5, <2>1, <2>2, RoundSum DEF NoGain
<1> QED BY <1>1, <1>2, <1>3, <1>5, <1>6, RoundSum, TokensKept

\* A step of the server that adds messages for which it gives its own tokens.
LEMMA ServerKeeps ==
  ASSUME TypeOK, TypeOK', PlaceInv, TokenInv,
         UNCHANGED <<pc, cont, semMain, semSocket, windows, hdr, threads>>,
         NEW more \in Seq(Message), inbox' = inbox \o more,
         One(srv' = "await") + Count(more, "LG_RQ_OK") <= One(srv = "await"),
         One(srv' \in {"await", "lobby"}) + Count(more, "ST_GA")
           <= One(srv \in {"await", "lobby"}),
         Count(outbox', "QU_RQ") + One(srvActive') + Count(more, "QU_RE")
           <= Count(outbox, "QU_RQ") + One(srvActive)
  PROVE  /\ PlaceInv' /\ TokenInv'
         /\ (Count(more, "QU_RE") = 0 /\ srvActive' = srvActive => NoGain)
<1>1. \A type : /\ Count(inbox', type) = Count(inbox, type) + Count(more, type)
                /\ Count(more, type) \in Nat
  <2>1. inbox \in Seq(Message)
    BY DEF TypeOK, NetTypeOK
  <2> QED BY SMTT(60), <2>1, CountConcat, CountNat
<1>2. LoginTokens' <= LoginTokens
  <2>1. PICK a \in Nat, b \in Nat, c \in Nat, d \in Nat, e \in Nat :
          /\ a = Count(inbox, "LG_RQ_OK") /\ b = Count(more, "LG_RQ_OK")
          /\ c = One(srv = "await") /\ d = One(srv' = "await")
          /\ e = One(pc["listener"] \in {"size", "case", "post"} /\ hdr.type = "LG_RQ_OK")
    BY <1>1, CountsTyped DEF One
  <2>2. Count(inbox', "LG_RQ_OK") = a + b
    BY <1>1, <2>1
  <2>3. LoginTokens = c + a + e /\ LoginTokens' = d + (a + b) + e
    BY <2>1, <2>2 DEF LoginTokens
  <2>4. d + b <= c
    BY <2>1
  <2> QED BY <2>3, <2>4
<1>3. StartTokens' <= StartTokens
  <2>1. PICK a \in Nat, b \in Nat, c \in Nat, d \in Nat, e \in Nat :
          /\ a = Count(inbox, "ST_GA") /\ b = Count(more, "ST_GA")
          /\ c = One(srv \in {"await", "lobby"}) /\ d = One(srv' \in {"await", "lobby"})
          /\ e = One(pc["listener"] \in {"size", "case", "gui", "post"} /\ hdr.type = "ST_GA")
    BY <1>1, CountsTyped DEF One
  <2>2. Count(inbox', "ST_GA") = a + b
    BY <1>1, <2>1
  <2>3. StartTokens = c + a + e /\ StartTokens' = d + (a + b) + e
    BY <2>1, <2>2 DEF StartTokens
  <2>4. d + b <= c
    BY <2>1
  <2> QED BY <2>3, <2>4
<1>4. RoundTokens' <= RoundTokens
  <2>1. PICK a \in Nat, b \in Nat, c \in Nat, d \in Nat, e \in Nat, f \in Nat :
          /\ a = Count(inbox, "QU_RE") /\ b = Count(more, "QU_RE")
          /\ c = One(srvActive) /\ d = One(srvActive')
          /\ e = Count(outbox, "QU_RQ") /\ f = Count(outbox', "QU_RQ")
    BY <1>1, CountsTyped DEF One
  <2>2. PICK m \in Nat, n \in Nat, k \in Nat :
          /\ m = threads.sleeping /\ n = One(pc["main"] = "request")
          /\ k = One(pc["listener"] \in {"size", "case", "gui", "spawn"} /\ hdr.type = "QU_RE")
    BY CountsTyped DEF One
  <2>3. Count(inbox', "QU_RE") = a + b
    BY <1>1, <2>1
  <2>4. RoundTokens = m + e + a + c + n + k /\ RoundTokens' = m + f + (a + b) + d + n + k
    BY <2>1, <2>2, <2>3 DEF RoundTokens
  <2>5. f + d + b <= e + c
    BY <2>1
  <2> QED BY <2>4, <2>5
<1>5. ASSUME Count(more, "QU_RE") = 0, srvActive' = srvActive
      PROVE  NoGain
  <2>1. PICK a \in Nat, b \in Nat, c \in Nat, d \in Nat, e \in Nat :
          /\ a = threads.sleeping /\ b = Count(outbox, "QU_RQ")
          /\ c = One(pc["main"] = "request") /\ d = Count(outbox', "QU_RQ")
          /\ e = One(srvActive)
    BY CountsTyped DEF One
  <2>2. d + e + 0 <= b + e
    BY <1>5, <2>1
  <2>3. AskTokens = a + b + c /\ AskTokens' = a + d + c
    BY <2>1 DEF AskTokens
  <2>4. AskTokens' <= AskTokens
    BY <2>2, <2>3
  <2>5. CloseTokens' = CloseTokens
    <3>1. Count(inbox', "QU_RE") = Count(inbox, "QU_RE")
      BY <1>1, <1>5, CountsTyped
    <3> QED BY <3>1 DEF CloseTokens
  <2>6. Started' <=> Started
    BY PlacesKept
  <2> QED BY <1>5, <2>4, <2>5, <2>6, RoundSum DEF NoGain
<1> QED BY <1>2, <1>3, <1>4, <1>5, PlacesKept, TokensKept

\* The catalogs the server lists and the players it tells of bring no token.
LEMMA CatalogsSent ==
  ASSUME TypeOK, ServerCatalogs
  PROVE  \E more \in Seq(Message) :
           inbox' = inbox \o more /\ \A i \in DOMAIN more : more[i].type \in {"CA_RP", "PL_LI"}
<1> DEFINE Told == {m \in Message : m.type \in {"CA_RP", "PL_LI"}}
           names == [c \in Catalog |-> Msg("CA_RP", c)]
           end == <<Empty("CA_RP")>>
           list == names \o end
<1>1. /\ \A c \in Nat : Msg("CA_RP", c) \in Told
      /\ Empty("CA_RP") \in Told /\ Msg("PL_LI", 0) \in Told
  BY DEF Msg, Empty, Message, ServerTypes
<1>2. list \in Seq(Told) /\ Len(list) = NumCatalogs + 1
  <2>1. names \in Seq(Told) /\ Len(names) = NumCatalogs
    BY <1>1, ClientAssumption DEF Catalog
  <2>2. end \in Seq(Told) /\ Len(end) = 1
    BY <1>1
  <2> HIDE DEF names, end, Told
  <2>3. names \o end \in Seq(Told) /\ Len(names \o end) = Len(names) + Len(end)
    BY <2>1, <2>2, ConcatProperties
  <2> QED BY <2>1, <2>2, <2>3
<1>3. ASSUME NEW i \in Catalog
      PROVE  SubSeq(list, 1, i) \o <<Msg("PL_LI", 0)>> \o SubSeq(list, i + 1, Len(list))
               \in Seq(Told)
  <2> HIDE DEF list, names, end, Told
  <2>1. <<Msg("PL_LI", 0)>> \in Seq(Told)
    BY <1>1
  <2>2. i \in 1 .. Len(list) /\ i + 1 \in 1 .. Len(list)
    BY <1>2, ClientAssumption DEF Catalog
  <2>3. \A j \in 1 .. Len(list) : list[j] \in Told
    BY <1>2, ElementOfSeq
  <2>4. SubSeq(list, 1, i) \in Seq(Told) /\ SubSeq(list, i + 1, Len(list)) \in Seq(Told)
    BY <2>2, <2>3, SubSeqProperties
  <2> QED BY <2>1, <2>4, ConcatProperties
<1>4. PICK more \in Seq(Told) : inbox' = inbox \o more
  BY <1>2, <1>3 DEF ServerCatalogs, Reply
<1>5. more \in Seq(Message) /\ \A i \in DOMAIN more : more[i].type \in {"CA_RP", "PL_LI"}
  <2>1. \A i \in 1 .. Len(more) : more[i] \in Told
    BY <1>4, ElementOfSeq
  <2>2. DOMAIN more = 1 .. Len(more) /\ Len(more) \in Nat
    BY <1>4, LenProperties
  <2> QED BY <2>1, <2>2, SeqDef
<1> QED BY <1>4, <1>5

\* What the server takes from the client's frames.
LEMMA FramesTaken ==
  ASSUME TypeOK
  PROVE  /\ outbox # <<>> =>
              /\ Count(Tail(outbox), "QU_RQ") \in Nat
              /\ Count(outbox, "QU_RQ")
                   = One(Head(outbox).type = "QU_RQ") + Count(Tail(outbox), "QU_RQ")
         /\ Len(outbox) > 1 =>
              Count(Tail(Tail(outbox)), "QU_RQ") <= Count(outbox, "QU_RQ")
<1>1. outbox \in Seq(Frame)
  BY DEF TypeOK, NetTypeOK
<1>2. ASSUME NEW queue \in Seq(Frame), queue # <<>>
      PROVE  /\ Tail(queue) \in Seq(Frame) /\ Count(Tail(queue), "QU_RQ") \in Nat
             /\ Count(queue, "QU_RQ") = One(Head(queue).type = "QU_RQ") + Count(Tail(queue), "QU_RQ")
             /\ Count(queue, "QU_RQ") \in Nat
  <2>1. Tail(queue) \in Seq(Frame)
    BY <1>2, HeadTailProperties
  <2>2. Count(Tail(queue), "QU_RQ") \in Nat /\ Count(queue, "QU_RQ") \in Nat
    BY <1>2, <2>1, CountNat
  <2> QED BY <1>2, <2>1, <2>2, CountTail
<1>3. ASSUME Len(outbox) > 1
      PROVE  Count(Tail(Tail(outbox)), "QU_RQ") <= Count(outbox, "QU_RQ")
  <2>1. outbox # <<>> /\ Tail(outbox) # <<>>
    <3>1. outbox # <<>>
      BY <1>1, <1>3, EmptySeq
    <3>2. Len(Tail(outbox)) = Len(outbox) - 1 /\ Len(outbox) \in Nat
      BY <1>1, <3>1, HeadTailProperties, LenProperties
    <3> QED BY <1>3, <3>1, <3>2, EmptySeq
  <2>2. PICK a \in Nat, b \in Nat, c \in Nat :
          /\ a = Count(outbox, "QU_RQ") /\ b = Count(Tail(outbox), "QU_RQ")
          /\ c = Count(Tail(Tail(outbox)), "QU_RQ")
    BY <1>1, <1>2, <2>1
  <2>3. PICK d \in Nat, e \in Nat :
          d = One(Head(outbox).type = "QU_RQ") /\ e = One(Head(Tail(outbox)).type = "QU_RQ")
    BY DEF One
  <2>4. a = d + b /\ b = e + c
    BY <1>1, <1>2, <2>1, <2>2, <2>3
  <2>5. c <= a
    BY <2>4
  <2> QED BY <2>2, <2>5
<1> QED BY <1>1, <1>2, <1>3

\* The server takes frames and sends messages, each for a token it gives away.
LEMMA ServerRound ==
  ASSUME GuiInv, TypeOK', PlaceInv, TokenInv, ServerReplies \/ ServerActs
  PROVE  /\ PlaceInv' /\ TokenInv'
         /\ (~ServerQuestion /\ ~(ServerAnswer /\ srvActive) /\ ~ServerTimeout => NoGain)
<1>1. TypeOK /\ Count(outbox, "QU_RQ") \in Nat
  BY CountsTyped DEF GuiInv
<1>2. UNCHANGED <<pc, cont, semMain, semSocket, windows, hdr, threads>>
  BY DEF ServerReplies, ServerActs, ServerLogin, ServerCatalogs, ServerCatalogChange,
         ServerStart, ServerQuestion, ServerAnswer, ServerTimeout, ServerGameOver,
         ServerUnasked, ServerFatal, ServerCloses, Sends, InServer, ctlVars, semVars,
         liVars, guiVars
<1>3. \A m, type : Count(<<m>>, type) = One(m.type = type) /\ Count(<<>>, type) = 0
  BY CountFew
<1>4. \A m \in Message : <<m>> \in Seq(Message) /\ Append(inbox, m) = inbox \o <<m>>
  BY <1>1, AppendIsConcat DEF TypeOK, NetTypeOK
<1>5. <<>> \in Seq(Message) /\ inbox \o <<>> = inbox
  BY <1>1, ConcatEmptySeq, EmptySeq DEF TypeOK, NetTypeOK
<1>6. /\ outbox # <<>> =>
           /\ Count(Tail(outbox), "QU_RQ") <= Count(outbox, "QU_RQ")
           /\ Head(outbox).type = "QU_RQ" =>
                Count(Tail(outbox), "QU_RQ") = Count(outbox, "QU_RQ") - 1
      /\ Len(outbox) > 1 => Count(Tail(Tail(outbox)), "QU_RQ") <= Count(outbox, "QU_RQ")
  BY <1>1, FramesTaken DEF One
<1>7. CASE ServerLogin
  <2>1. PICK id \in {0, 1} : Reply(<<Msg("LG_RQ_OK", id), Msg("PL_LI", 0)>>)
    BY <1>7 DEF ServerLogin
  <2> DEFINE more == <<Msg("LG_RQ_OK", id), Msg("PL_LI", 0)>>
  <2>2. /\ Msg("LG_RQ_OK", id) \in Message /\ Msg("PL_LI", 0) \in Message
        /\ Msg("LG_RQ_OK", id).type = "LG_RQ_OK" /\ Msg("PL_LI", 0).type = "PL_LI"
    BY DEF Msg, Message, ServerTypes
  <2>3. more \in Seq(Message) /\ more = Append(<<Msg("LG_RQ_OK", id)>>, Msg("PL_LI", 0))
        /\ <<Msg("LG_RQ_OK", id)>> \in Seq(Message)
    BY <2>2
  <2>4. ASSUME NEW type
        PROVE  Count(more, type)
                 = One(Msg("LG_RQ_OK", id).type = type) + One(Msg("PL_LI", 0).type = type)
    <3>1. PICK first : first = <<Msg("LG_RQ_OK", id)>>
      OBVIOUS
    <3>2. first \in Seq(Message) /\ more = Append(first, Msg("PL_LI", 0))
      BY <2>3, <3>1
    <3>3. Count(Append(first, Msg("PL_LI", 0)), type)
            = Count(first, type) + One(Msg("PL_LI", 0).type = type)
      BY <2>2, <3>2, CountAppend
    <3>4. Count(first, type) = One(Msg("LG_RQ_OK", id).type = type)
      BY <1>3, <3>1
    <3> QED BY <3>2, <3>3, <3>4
  <2> HIDE DEF more
  <2>5. /\ Count(more, "LG_RQ_OK") = 1 /\ Count(more, "ST_GA") = 0
        /\ Count(more, "QU_RE") = 0
    BY <2>2, <2>4 DEF One
  <2>6. /\ inbox' = inbox \o more /\ outbox # <<>> /\ outbox' = Tail(outbox)
        /\ srv = "await" /\ srv' = "lobby" /\ srvActive' = srvActive
    BY <1>7, <2>1 DEF ServerLogin, Reply, Receives, more
  <2>7. /\ One(srv' = "await") + Count(more, "LG_RQ_OK") <= One(srv = "await")
        /\ One(srv' \in {"await", "lobby"}) + Count(more, "ST_GA")
             <= One(srv \in {"await", "lobby"})
    BY <2>5, <2>6 DEF One
  <2>8. Count(outbox', "QU_RQ") + One(srvActive') + Count(more, "QU_RE")
          <= Count(outbox, "QU_RQ") + One(srvActive)
    BY <1>1, <1>6, <2>5, <2>6, CountsTyped DEF One
  <2> QED BY <1>1, <1>2, <2>3, <2>5, <2>6, <2>7, <2>8, ServerKeeps
<1>8. CASE ServerCatalogs
  <2>1. PICK more \in Seq(Message) :
          inbox' = inbox \o more /\ \A i \in DOMAIN more : more[i].type \in {"CA_RP", "PL_LI"}
    BY <1>1, <1>8, CatalogsSent
  <2>2. Count(more, "LG_RQ_OK") = 0 /\ Count(more, "ST_GA") = 0 /\ Count(more, "QU_RE") = 0
    BY <2>1, CountFew
  <2>3. /\ outbox # <<>> /\ outbox' = Tail(outbox) /\ srv' = srv /\ srvActive' = srvActive
    BY <1>8 DEF ServerCatalogs, Reply, Receives, srvVars
  <2>4. Count(outbox', "QU_RQ") + One(srvActive') + Count(more, "QU_RE")
          <= Count(outbox, "QU_RQ") + One(srvActive)
    BY <1>1, <1>6, <2>2, <2>3, CountsTyped DEF One
  <2>5. /\ One(srv' = "await") + Count(more, "LG_RQ_OK") <= One(srv = "await")
        /\ One(srv' \in {"await", "lobby"}) + Count(more, "ST_GA")
             <= One(srv \in {"await", "lobby"})
    BY <2>2, <2>3 DEF One
  <2> QED BY <1>1, <1>2, <2>1, <2>2, <2>3, <2>4, <2>5, ServerKeeps
<1>9. ASSUME NEW more \in Seq(Message), inbox' = inbox \o more,
             Count(more, "LG_RQ_OK") = 0, srv' = "await" => srv = "await",
             Count(more, "ST_GA") = 0 \/ (Count(more, "ST_GA") = 1 /\ srv = "lobby" /\ srv' = "game"),
             srv' = "lobby" => srv = "lobby",
             Count(outbox', "QU_RQ") + One(srvActive') + Count(more, "QU_RE")
               <= Count(outbox, "QU_RQ") + One(srvActive)
      PROVE  /\ PlaceInv' /\ TokenInv'
             /\ (Count(more, "QU_RE") = 0 /\ srvActive' = srvActive => NoGain)
  <2>1. One(srv' = "await") + Count(more, "LG_RQ_OK") <= One(srv = "await")
    BY <1>9 DEF One
  <2>2. One(srv' \in {"await", "lobby"}) + Count(more, "ST_GA")
          <= One(srv \in {"await", "lobby"})
    BY <1>9 DEF One
  <2> QED BY <1>1, <1>2, <1>9, <2>1, <2>2, ServerKeeps
<1>10. CASE ServerCatalogChange \/ ServerStart
  <2>1. PICK more : /\ inbox' = inbox \o more
                    /\ \/ more = <<>> /\ (srv' = "lobby" => srv = "lobby")
                       \/ \E arg \in Nat : more = <<Msg("CA_CH", arg)>> /\ srv' = srv
                       \/ /\ srv = "lobby" /\ srv' = "game"
                          /\ \E arg \in Nat : more = <<Msg("ST_GA", arg)>>
    <3>1. Len(outbox) > 1 /\ outbox[2].arg \in Nat
      <4>1. Len(outbox) > 1
        BY <1>10 DEF ServerCatalogChange, ServerStart, ReplyToName
      <4>2. outbox \in Seq(Frame) /\ 2 \in 1 .. Len(outbox)
        BY <1>1, <4>1, LenProperties DEF TypeOK, NetTypeOK
      <4>3. outbox[2] \in Frame
        BY <4>2, ElementOfSeq
      <4> QED BY <4>1, <4>3 DEF Frame
    <3>2. CASE ServerCatalogChange
      BY <3>1, <3>2 DEF ServerCatalogChange, ReplyToName
    <3>3. CASE ServerStart
      BY <3>1, <3>3 DEF ServerStart, ReplyToName
    <3> QED BY <1>10, <3>2, <3>3
  <2>2. /\ srvActive' = srvActive /\ Len(outbox) > 1 /\ outbox' = Tail(Tail(outbox))
        /\ srv' = "await" => srv = "await"
    BY <1>10 DEF ServerCatalogChange, ServerStart, ReplyToName
  <2>3. more = <<>> \/ \E m \in Message : more = <<m>> /\ m.type \in {"CA_CH", "ST_GA"}
    BY <2>1 DEF Msg, Message, ServerTypes
  <2>4. Count(more, "LG_RQ_OK") = 0 /\ Count(more, "QU_RE") = 0
    BY <1>3, <2>3 DEF One
  <2>5. \/ Count(more, "ST_GA") = 0
        \/ Count(more, "ST_GA") = 1 /\ srv = "lobby" /\ srv' = "game"
    BY <1>3, <2>1 DEF One, Msg
  <2>6. Count(outbox', "QU_RQ") + One(srvActive') + Count(more, "QU_RE")
          <= Count(outbox, "QU_RQ") + One(srvActive)
    BY <1>1, <1>6, <2>2, <2>4, CountsTyped DEF One
  <2>7. srv' = "lobby" => srv = "lobby"
    BY <2>1
  <2>8. more \in Seq(Message)
    BY <1>4, <1>5, <2>3
  <2> QED BY <1>9, <2>1, <2>2, <2>4, <2>5, <2>6, <2>7, <2>8
<1>11. CASE ServerQuestion
  <2>1. PICK m \in Message : inbox' = inbox \o <<m>> /\ m.type = "QU"
    <3>1. /\ Empty("QU") \in Message /\ Empty("QU").type = "QU"
          /\ Msg("QU", srvQ + 1) \in Message /\ Msg("QU", srvQ + 1).type = "QU"
      BY <1>1 DEF Empty, Msg, Message, ServerTypes, TypeOK, SrvTypeOK
    <3>2. inbox' = inbox \o <<Msg("QU", srvQ + 1)>> \/ inbox' = inbox \o <<Empty("QU")>>
      BY <1>11 DEF ServerQuestion, Reply
    <3> QED BY <3>1, <3>2
  <2>2. /\ outbox # <<>> /\ outbox' = Tail(outbox) /\ srv' \in {srv, "finished"}
        /\ Head(outbox).type = "QU_RQ"
    BY <1>11 DEF ServerQuestion, Reply, Receives
  <2>3. /\ Count(<<m>>, "LG_RQ_OK") = 0 /\ Count(<<m>>, "ST_GA") = 0
        /\ Count(<<m>>, "QU_RE") = 0
    BY <1>3, <2>1 DEF One
  <2>4. Count(outbox', "QU_RQ") = Count(outbox, "QU_RQ") - 1
    BY <1>6, <2>2
  <2>5. srvActive' = TRUE \/ srvActive' = srvActive
    BY <1>11 DEF ServerQuestion
  <2>6. Count(outbox', "QU_RQ") + One(srvActive') + Count(<<m>>, "QU_RE")
          <= Count(outbox, "QU_RQ") + One(srvActive)
    BY <1>1, <2>3, <2>4, <2>5 DEF One
  <2>7. srv' = "await" => srv = "await"
    BY <2>2
  <2>8. srv' = "lobby" => srv = "lobby"
    BY <2>2
  <2> QED BY <1>4, <1>9, <1>11, <2>1, <2>3, <2>6, <2>7, <2>8
<1>12. CASE ServerAnswer \/ ServerTimeout
  <2>1. Msg("QU_RE", 0) \in Message /\ Msg("QU_RE", 0).type = "QU_RE"
    BY DEF Msg, Message, ServerTypes
  <2>2. PICK more : /\ inbox' = inbox \o more
                    /\ more = <<>> \/ (more = <<Msg("QU_RE", 0)>> /\ srvActive)
    BY <1>4, <1>12, <2>1 DEF ServerAnswer, ServerTimeout, Reply, Sends
  <2>3. /\ srv' = srv /\ ~srvActive'
        /\ outbox' = outbox \/ (outbox # <<>> /\ outbox' = Tail(outbox))
    BY <1>12 DEF ServerAnswer, ServerTimeout, Reply, Receives, Sends
  <2>4. /\ Count(more, "LG_RQ_OK") = 0 /\ Count(more, "ST_GA") = 0
        /\ Count(more, "QU_RE") = 0 \/ (Count(more, "QU_RE") = 1 /\ srvActive)
    BY <1>3, <2>1, <2>2 DEF One
  <2>5. Count(outbox', "QU_RQ") <= Count(outbox, "QU_RQ") /\ Count(outbox', "QU_RQ") \in Nat
    <3>1. CASE outbox' = outbox
      BY <1>1, <3>1
    <3>2. CASE outbox # <<>> /\ outbox' = Tail(outbox)
      BY <1>1, <1>6, <3>2, FramesTaken
    <3> QED BY <2>3, <3>1, <3>2
  <2>6. Count(outbox', "QU_RQ") + One(srvActive') + Count(more, "QU_RE")
          <= Count(outbox, "QU_RQ") + One(srvActive)
    BY <1>1, <2>3, <2>4, <2>5 DEF One
  <2>7. srv' = "await" => srv = "await"
    BY <2>3
  <2>8. srv' = "lobby" => srv = "lobby"
    BY <2>3
  <2>9. more \in Seq(Message)
    BY <1>4, <1>5, <2>1, <2>2
  <2>10. ASSUME ~(ServerAnswer /\ srvActive), ~ServerTimeout
         PROVE  Count(more, "QU_RE") = 0 /\ srvActive' = srvActive
    <3>1. ServerAnswer /\ ~srvActive
      BY <1>12, <2>10
    <3>2. srvActive = FALSE
      BY <1>1, <3>1 DEF TypeOK, SrvTypeOK
    <3>3. srvActive' = FALSE
      BY <3>1 DEF ServerAnswer
    <3> QED BY <2>4, <3>2, <3>3
  <2> QED BY <1>9, <2>2, <2>4, <2>6, <2>7, <2>8, <2>9, <2>10
<1>13. CASE ServerUnasked \/ ServerGameOver \/ ServerFatal
  <2>1. PICK m \in Message :
          /\ Sends(m)
          /\ \/ m.type \in {"PL_LI", "ER_WA", "CA_CH", "GA_OV"} /\ srv' \in {srv, "over"}
             \/ srv = "lobby" /\ srv' = "game" /\ m.type = "ST_GA"
    <3>1. ASSUME NEW type \in ServerTypes, NEW arg \in Nat
          PROVE  /\ Msg(type, arg) \in Message /\ Msg(type, arg).type = type
                 /\ Empty(type) \in Message /\ Empty(type).type = type
      BY DEF Msg, Empty, Message
    <3>2. CASE ServerUnasked
      <4>1. CASE (Sends(Msg("PL_LI", 0)) \/ Sends(Msg("ER_WA", 0))) /\ srv' = srv
        BY <3>1, <4>1 DEF ServerTypes
      <4>2. CASE (\E c \in Catalog : Sends(Msg("CA_CH", c))) /\ srv' = srv
        BY <3>1, <4>2 DEF ServerTypes, Catalog
      <4>3. CASE srv = "lobby" /\ Sends(Empty("ST_GA")) /\ srv' = "game"
        BY <3>1, <4>3 DEF ServerTypes
      <4> QED BY <3>2, <4>1, <4>2, <4>3 DEF ServerUnasked
    <3>3. CASE ServerGameOver
      BY <3>1, <3>3 DEF ServerGameOver, ServerTypes
    <3>4. CASE ServerFatal
      BY <3>1, <3>4 DEF ServerFatal, ServerTypes
    <3> QED BY <1>13, <3>2, <3>3, <3>4
  <2>2. inbox' = inbox \o <<m>> /\ outbox' = outbox /\ srvActive' = srvActive
    BY <1>4, <1>13, <2>1 DEF Sends, ServerUnasked, ServerGameOver, ServerFatal
  <2>3. /\ Count(<<m>>, "LG_RQ_OK") = 0 /\ Count(<<m>>, "QU_RE") = 0
        /\ \/ Count(<<m>>, "ST_GA") = 0
           \/ Count(<<m>>, "ST_GA") = 1 /\ srv = "lobby" /\ srv' = "game"
    BY <1>3, <2>1 DEF One
  <2>4. Count(outbox', "QU_RQ") + One(srvActive') + Count(<<m>>, "QU_RE")
          <= Count(outbox, "QU_RQ") + One(srvActive)
    BY <1>1, <2>2, <2>3 DEF One
  <2>5. srv' = "await" => srv = "await"
    BY <2>1
  <2>6. srv' = "lobby" => srv = "lobby"
    BY <2>1
  <2> QED BY <1>4, <1>9, <2>2, <2>3, <2>4, <2>5, <2>6
<1>14. CASE ServerCloses
  <2>1. /\ inbox' = inbox \o <<>> /\ outbox' = outbox /\ srvActive' = srvActive /\ srv' = srv
    BY <1>5, <1>14 DEF ServerCloses, srvVars
  <2>2. Count(outbox', "QU_RQ") + One(srvActive') + Count(<<>>, "QU_RE")
          <= Count(outbox, "QU_RQ") + One(srvActive)
    BY <1>1, <1>3, <2>1 DEF One
  <2>3. srv' = "lobby" => srv = "lobby"
    BY <2>1
  <2>4. <<>> \in Seq(Message) /\ Count(<<>>, "LG_RQ_OK") = 0 /\ Count(<<>>, "ST_GA") = 0
        /\ Count(<<>>, "QU_RE") = 0
    BY <1>3
  <2>5. srv' = "await" => srv = "await"
    BY <2>1
  <2>6. /\ PlaceInv' /\ TokenInv'
        /\ (Count(<<>>, "QU_RE") = 0 /\ srvActive' = srvActive => NoGain)
    BY <1>9, <2>1, <2>2, <2>3, <2>4, <2>5
  <2> QED BY <1>5, <2>1, <2>4, <2>6
<1> QED BY <1>7, <1>8, <1>10, <1>11, <1>12, <1>13, <1>14 DEF ServerReplies, ServerActs

-----------------------------------------------------------------------------
(* The invariant holds.                                                    *)

\* No post, no request, no window: the process starts with all tokens at the server.
LEMMA RoundStarts == Init => RoundInv
<1> SUFFICES ASSUME Init
             PROVE  RoundInv
  OBVIOUS
<1>1. pc["main"] = "connect" /\ pc["listener"] = "none" /\ pc["gui"] = "none"
  BY DEF Init, Threads
<1>2. PlaceInv
  BY <1>1
  DEF Init, PlaceInv, MainPlaces, GuiPlaces, ListenerPlaces, LoggedIn, InLogin, Early, InError,
      MainLabels
<1>3. \A type : Count(inbox, type) = 0 /\ Count(outbox, type) = 0
  BY CountFew DEF Init
<1>4. LoginTokens = 1 /\ StartTokens = 1 /\ RoundTokens = 0 /\ semMain = 0
  BY <1>1, <1>3 DEF Init, LoginTokens, StartTokens, RoundTokens, One
<1>5. pc["main"] \in InLogin /\ ~Started
  BY <1>1 DEF InLogin, Early, Started
<1>6. LoginTokens + semMain <= 1 /\ StartTokens <= 1
  BY <1>4
<1> QED BY <1>2, <1>4, <1>5, <1>6, Zenon DEF RoundInv, TokenInv

\* Nobody takes back that a window was closed.
LEMMA ClosedForGood == closeOnEnd /\ [Next]_vars => closeOnEnd'
<1> SUFFICES ASSUME closeOnEnd, [Next]_vars
             PROVE  closeOnEnd'
  OBVIOUS
<1>1. CASE MainNext
  BY <1>1
  DEF MainNext, Connect, CreateListener, SendLogin, WaitLogin, CreateGui,
      SendCatalogRequest, WaitStart, SendQuestionRequest, WaitEnd, MainWrites, MainWaits,
      OnlyControl, flagVars
<1>2. CASE ListenerReads
  BY <1>2
  DEF ListenerReads, CallRead, ReadType, ReadSize, ReadRank, ReceiveLoginOk, ReceiveCatalog,
      ReceiveCatalogChange, ReceivePlayerList, ReceiveStartGame, ReceiveQuestion,
      ReceiveResult, ReceiveWarning, ReceiveUnknown, Severity, PostMain, WaitGui,
      SpawnQuestionThread, Receive, InThread, flagVars
<1>3. CASE ListenerShows
  BY <1>3
  DEF ListenerShows, ListenerAborts, SetMode, ShowCatalog, ShowSelection, ShowPlayers,
      ShowGame, ShowQuestion, EnableButtons, ShowResult, HideGame, ShowWarning, ShowEnd,
      OnlyGui, OnlyControl, flagVars
<1>4. CASE GuiStarts \/ GuiEnds \/ UserNext \/ UserConfirms
  BY <1>4
  DEF GuiStarts, GuiInit, GuiPost, GuiSetRuns, GuiEnds, GuiDestroy, GuiExit, UserNext,
      OnCatalogChanged, OnStartClicked, OnAnswerClicked, OnWindowClosed, Callback,
      UserConfirms, DismissDialog, OnlyGui, OnlyControl, flagVars
<1>5. CASE QuestionThreads \/ \E t \in Threads : Errors(t)
  BY <1>5
  DEF QuestionThreads, QuestionThreadWrites, QuestionThreadFails, Errors, ErrorDialog,
      SocketWait, WriteName, Unlock, OnlyGui, flagVars
<1>6. CASE ServerReplies \/ ServerActs
  BY <1>6
  DEF ServerReplies, ServerActs, ServerLogin, ServerCatalogs, ServerCatalogChange,
      ServerStart, ServerQuestion, ServerAnswer, ServerTimeout, ServerGameOver,
      ServerUnasked, ServerFatal, ServerCloses, Sends, InServer, flagVars
<1>7. CASE UNCHANGED vars
  BY <1>7 DEF vars, flagVars
<1> QED BY <1>1, <1>2, <1>3, <1>4, <1>5, <1>6, <1>7 DEF Next, Ended

\* The invariant holds: the tokens stay one each while the player plays.
LEMMA RoundHolds == Spec => []RoundInv
<1>1. GuiInv /\ TypeOK' /\ RoundInv /\ [Next]_vars => RoundInv'
  <2> SUFFICES ASSUME GuiInv, TypeOK', RoundInv, [Next]_vars, ~closeOnEnd'
               PROVE  PlaceInv' /\ TokenInv'
    BY DEF RoundInv
  <2>1. ~closeOnEnd /\ PlaceInv /\ TokenInv
    BY ClosedForGood DEF RoundInv
  <2>2. CASE MainNext
    BY <2>1, <2>2, MainStartsRound, MainWritesRound, MainWaitsRound DEF MainNext
  <2>3. CASE ListenerReads
    BY <2>1, <2>3, ListenerReadsRound, ReadTypeRound, PostMainRound, WaitGuiRound, SpawnRound
    DEF ListenerReads
  <2>4. CASE ListenerShows
    BY <2>1, <2>4, ListenerShowsRound
  <2>5. CASE GuiStarts \/ GuiEnds \/ UserNext \/ UserConfirms
    BY <2>1, <2>5, GuiRound
  <2>6. CASE QuestionThreads
    BY <2>1, <2>6, QuestionThreadsRound
  <2>7. CASE \E t \in Threads : Errors(t)
    BY <2>1, <2>7, ErrorsRound
  <2>8. CASE ServerReplies \/ ServerActs
    BY <2>1, <2>8, ServerRound
  <2>9. CASE UNCHANGED vars
    <3>1. UNCHANGED <<pc, cont, semMain, semSocket, windows, hdr, threads, srv, srvActive,
                      inbox, outbox>>
      BY <2>9 DEF vars, ctlVars, semVars, liVars, guiVars, netVars, srvVars
    <3>2. LoginTokens' = LoginTokens /\ StartTokens' = StartTokens /\ RoundTokens' = RoundTokens
      BY <3>1 DEF LoginTokens, StartTokens, RoundTokens
    <3>3. PlaceInv' /\ (pc'["main"] \in InLogin <=> pc["main"] \in InLogin)
          /\ (Started' <=> Started)
      BY <2>1, <3>1, PlacesKept
    <3> QED BY <2>1, <3>1, <3>2, <3>3, Zenon DEF TokenInv
  <2> QED BY <2>2, <2>3, <2>4, <2>5, <2>6, <2>7, <2>8, <2>9 DEF Next, Ended
<1> QED BY <1>1, RoundStarts, StartHolds, Typing, PTL DEF Spec

-----------------------------------------------------------------------------
(* The refinement: what each step does to the round.                        *)

RoundStep == [Round!Next]_(Round!vars)

\* A queue counts messages of a type if there is one.
LEMMA CountSome ==
  ASSUME NEW S, NEW queue \in Seq(S), NEW type
  PROVE  Count(queue, type) > 0 <=> \E n \in DOMAIN queue : queue[n].type = type
<1>1. IsFiniteSet(Places(queue, type)) /\ Count(queue, type) = Cardinality(Places(queue, type))
      /\ Count(queue, type) \in Nat
  BY CountNat
<1>2. Count(queue, type) = 0 <=> Places(queue, type) = {}
  BY <1>1, FS_EmptySet
<1>3. Count(queue, type) > 0 <=> Count(queue, type) # 0
  BY <1>1
<1> QED BY <1>2, <1>3 DEF Places

\* The tokens tell how far the round is.
LEMMA StateOfTokens ==
  ASSUME TypeOK, TypeOK'
  PROVE  /\ Asking <=> AskTokens > 0
         /\ Closing <=> CloseTokens > 0
         /\ Asking' <=> AskTokens' > 0
         /\ Closing' <=> CloseTokens' > 0
<1>1. /\ inbox \in Seq(Message) /\ outbox \in Seq(Frame)
      /\ inbox' \in Seq(Message) /\ outbox' \in Seq(Frame)
  BY DEF TypeOK, NetTypeOK
<1>2. /\ Count(outbox, "QU_RQ") > 0 <=> \E n \in DOMAIN outbox : outbox[n].type = "QU_RQ"
      /\ Count(inbox, "QU_RE") > 0 <=> \E n \in DOMAIN inbox : inbox[n].type = "QU_RE"
  BY <1>1, CountSome
<1>3. /\ Count(outbox', "QU_RQ") > 0 <=> \E n \in DOMAIN outbox' : outbox'[n].type = "QU_RQ"
      /\ Count(inbox', "QU_RE") > 0 <=> \E n \in DOMAIN inbox' : inbox'[n].type = "QU_RE"
  BY <1>1, CountSome
<1>4. Asking <=> AskTokens > 0
  BY <1>2, CountsTyped DEF Asking, AskTokens, One
<1>5. Closing <=> CloseTokens > 0
  BY <1>2, CountsTyped DEF Closing, CloseTokens, One
<1>6. Asking' <=> AskTokens' > 0
  BY <1>3, CountsTyped DEF Asking, AskTokens, One
<1>7. Closing' <=> CloseTokens' > 0
  BY <1>3, CountsTyped DEF Closing, CloseTokens, One
<1> QED BY <1>4, <1>5, <1>6, <1>7

\* One token at a time, and none before the game starts.
LEMMA TokensApart ==
  ASSUME TypeOK, TypeOK', TokenInv
  PROVE  /\ AskTokens > 0 => AskTokens = 1 /\ ~srvActive /\ CloseTokens = 0 /\ Started
         /\ srvActive => AskTokens = 0 /\ CloseTokens = 0 /\ Started
         /\ CloseTokens > 0 => CloseTokens = 1 /\ AskTokens = 0 /\ ~srvActive /\ Started
<1>1. RoundTokens <= 1 /\ (~Started => RoundTokens = 0)
  <2>1. RoundTokens = 0 => RoundTokens <= 1
    OBVIOUS
  <2> QED BY <2>1, Zenon DEF TokenInv
<1>2. PICK a \in Nat, b \in Nat, c \in Nat :
        a = AskTokens /\ b = CloseTokens /\ c = One(srvActive)
  BY RoundSum DEF One
<1>3. RoundTokens = a + c + b /\ a + c + b <= 1 /\ (~Started => a + c + b = 0)
  BY <1>1, <1>2, RoundSum
<1>4. srvActive \in BOOLEAN /\ (c = IF srvActive THEN 1 ELSE 0)
  BY <1>2 DEF One, TypeOK, SrvTypeOK
<1>5. /\ a > 0 => a = 1 /\ ~srvActive /\ b = 0 /\ Started
      /\ srvActive => a = 0 /\ b = 0 /\ Started
      /\ b > 0 => b = 1 /\ a = 0 /\ ~srvActive /\ Started
  <2>1. a > 0 => a = 1 /\ c = 0 /\ b = 0 /\ a + c + b # 0
    BY <1>3
  <2>2. b > 0 => b = 1 /\ c = 0 /\ a = 0 /\ a + c + b # 0
    BY <1>3
  <2>3. c = 1 => b = 0 /\ a = 0 /\ a + c + b # 0
    BY <1>3
  <2> QED BY <1>3, <1>4, <2>1, <2>2, <2>3
<1> QED BY <1>2, <1>5

\* A step that at most drops the round leaves it or finishes it.
LEMMA NoGainIsRound ==
  ASSUME TypeOK, TypeOK', TokenInv, ~closeOnEnd, ~closeOnEnd', NoGain, srvQ' = srvQ
  PROVE  RoundStep
<1>1. PICK a \in Nat, b \in Nat, c \in Nat, d \in Nat :
        /\ a = AskTokens /\ b = CloseTokens /\ c = AskTokens' /\ d = CloseTokens'
  BY RoundSum
<1>2. c <= a /\ d <= b /\ srvActive' = srvActive /\ (Started' <=> Started)
  BY <1>1 DEF NoGain
<1>3. /\ (Asking <=> a > 0) /\ (Closing <=> b > 0)
      /\ (Asking' <=> c > 0) /\ (Closing' <=> d > 0)
  BY <1>1, StateOfTokens
<1>4. /\ a > 0 => ~srvActive /\ b = 0 /\ Started
      /\ srvActive => a = 0 /\ b = 0
      /\ b > 0 => a = 0 /\ ~srvActive /\ Started
  BY <1>1, TokensApart
<1>5. (Asking' => Asking) /\ (Closing' => Closing) /\ ~(Asking /\ Closing)
  BY <1>2, <1>3, <1>4
<1>6. (Asking => ~srvActive /\ Started) /\ (Closing => ~srvActive /\ Started)
  BY <1>3, <1>4
<1>7. RoundState' = RoundState \/ (RoundState \in {"asking", "closing"} /\ RoundState' = "over")
  BY <1>2, <1>5, <1>6 DEF RoundState
<1> QED BY <1>7 DEF RoundStep, Round!Next, Round!vars, Round!Finish

\* Only the server opens a question, and the player can have left by then.
LEMMA OnlyServerOpens == [Next]_vars /\ ~ServerQuestion => srvQ' = srvQ
<1> SUFFICES ASSUME [Next]_vars, ~ServerQuestion
             PROVE  srvQ' = srvQ
  OBVIOUS
<1>1. CASE MainNext
  BY <1>1
  DEF MainNext, Connect, CreateListener, SendLogin, WaitLogin, CreateGui,
      SendCatalogRequest, WaitStart, SendQuestionRequest, WaitEnd, MainWrites, MainWaits,
      OnlyControl, srvVars
<1>2. CASE ListenerReads
  BY <1>2
  DEF ListenerReads, CallRead, ReadType, ReadSize, ReadRank, ReceiveLoginOk, ReceiveCatalog,
      ReceiveCatalogChange, ReceivePlayerList, ReceiveStartGame, ReceiveQuestion,
      ReceiveResult, ReceiveWarning, ReceiveUnknown, Severity, PostMain, WaitGui,
      SpawnQuestionThread, Receive, InThread, srvVars
<1>3. CASE ListenerShows
  BY <1>3
  DEF ListenerShows, ListenerAborts, SetMode, ShowCatalog, ShowSelection, ShowPlayers,
      ShowGame, ShowQuestion, EnableButtons, ShowResult, HideGame, ShowWarning, ShowEnd,
      OnlyGui, OnlyControl, srvVars
<1>4. CASE GuiStarts \/ GuiEnds \/ UserNext \/ UserConfirms
  BY <1>4
  DEF GuiStarts, GuiInit, GuiPost, GuiSetRuns, GuiEnds, GuiDestroy, GuiExit, UserNext,
      OnCatalogChanged, OnStartClicked, OnAnswerClicked, OnWindowClosed, Callback,
      UserConfirms, DismissDialog, OnlyGui, OnlyControl, srvVars
<1>5. CASE QuestionThreads \/ \E t \in Threads : Errors(t)
  BY <1>5
  DEF QuestionThreads, QuestionThreadWrites, QuestionThreadFails, Errors, ErrorDialog,
      SocketWait, WriteName, Unlock, OnlyGui, srvVars
<1>6. CASE ServerReplies \/ ServerActs
  BY <1>6
  DEF ServerReplies, ServerActs, ServerLogin, ServerCatalogs, ServerCatalogChange,
      ServerStart, ServerAnswer, ServerTimeout, ServerGameOver, ServerUnasked, ServerFatal,
      ServerCloses, Sends, srvVars
<1>7. CASE UNCHANGED vars
  BY <1>7 DEF vars, srvVars
<1> QED BY <1>1, <1>2, <1>3, <1>4, <1>5, <1>6, <1>7 DEF Next, Ended

\* main's second wait begins the game's rounds.
LEMMA BeginStep ==
  ASSUME TypeOK, TypeOK', TokenInv, ~closeOnEnd, ~closeOnEnd', WaitStart
  PROVE  RoundStep
<1>1. /\ pc["main"] = "waitStart" /\ pc'["main"] = "request"
      /\ UNCHANGED <<threads, inbox, outbox, srvActive, srvQ>>
  BY DEF WaitStart, MainWaits, At, Continue, Goto, netVars, srvVars, TypeOK, CtlTypeOK, Threads
<1>2. ~Started
  BY <1>1 DEF Started
<1>3. AskTokens = 0 /\ CloseTokens = 0 /\ ~srvActive
  BY <1>2, TokensApart, RoundSum
<1>4. RoundState = "before"
  BY <1>2, <1>3, StateOfTokens DEF RoundState
<1>5. RoundState' = "asking"
  BY <1>1 DEF RoundState, Asking
<1> QED BY <1>1, <1>4, <1>5 DEF RoundStep, Round!Next, Round!Begin

\* The listener, done with a result, starts the thread that asks for the next question.
LEMMA AskNextStep ==
  ASSUME GuiInv, TypeOK', PlaceInv, TokenInv, TokenInv', ~closeOnEnd, ~closeOnEnd',
         SpawnQuestionThread
  PROVE  RoundStep
<1>1. /\ TypeOK /\ pc["listener"] = "spawn" /\ hdr.type = "QU_RE"
      /\ pc'["main"] = pc["main"] /\ cont'["main"] = cont["main"] /\ pc'["listener"] = "type"
      /\ UNCHANGED <<inbox, srvActive, srvQ, hdr>>
  BY DEF GuiInv, SpawnQuestionThread, PlaceInv, ListenerPlaces, At, Continue, Goto, TypeOK,
         CtlTypeOK, Threads, liVars, netVars, srvVars
<1>2. Closing
  BY <1>1 DEF Closing
<1>3. AskTokens = 0 /\ CloseTokens = 1 /\ ~srvActive /\ Started /\ Started'
  <2>1. CloseTokens > 0
    BY <1>1, <1>2, StateOfTokens
  <2> QED BY <1>1, <2>1, TokensApart DEF Started
<1>4. ~Closing'
  <2>1. CloseTokens' = 0
    <3>1. CloseTokens = Count(inbox, "QU_RE") + 1 /\ CloseTokens' = Count(inbox, "QU_RE") + 0
      BY <1>1 DEF CloseTokens, One
    <3> QED BY <1>1, <1>3, <3>1, CountsTyped
  <2> QED BY <1>1, <2>1, StateOfTokens
<1>5. RoundState = "closing"
  <2>1. ~Asking
    BY <1>1, <1>3, StateOfTokens
  <2> QED BY <1>2, <1>3, <2>1 DEF RoundState
<1>6. RoundState' \in {"asking", "over"}
  BY <1>1, <1>3, <1>4 DEF RoundState
<1> QED BY <1>1, <1>5, <1>6 DEF RoundStep, Round!Next, Round!AskNext, Round!Finish

\* A question is opened for the one request there is, and leaves none.
LEMMA RequestTaken ==
  ASSUME TypeOK, TypeOK', TokenInv, ServerQuestion
  PROVE  /\ UNCHANGED <<pc, cont, hdr, threads>> /\ outbox # <<>> /\ outbox' = Tail(outbox)
         /\ Head(outbox).type = "QU_RQ"
         /\ \/ srvQ < NumQuestions /\ srvQ' = srvQ + 1 /\ srvActive' = TRUE
               /\ inbox' = inbox \o <<Msg("QU", srvQ + 1)>>
            \/ srvQ' = srvQ /\ srvActive' = srvActive /\ inbox' = inbox \o <<Empty("QU")>>
         /\ AskTokens = 1 /\ ~srvActive /\ CloseTokens = 0 /\ Started /\ AskTokens' = 0
<1>1. /\ UNCHANGED <<pc, cont, hdr, threads>> /\ outbox # <<>> /\ outbox' = Tail(outbox)
      /\ Head(outbox).type = "QU_RQ"
      /\ \/ srvQ < NumQuestions /\ srvQ' = srvQ + 1 /\ srvActive' = TRUE
            /\ inbox' = inbox \o <<Msg("QU", srvQ + 1)>>
         \/ srvQ' = srvQ /\ srvActive' = srvActive /\ inbox' = inbox \o <<Empty("QU")>>
  <2>1. /\ UNCHANGED <<pc, cont, hdr, threads>> /\ outbox # <<>>
        /\ Head(outbox).type = "QU_RQ"
    BY DEF ServerQuestion, Receives, InServer, ctlVars, liVars
  <2>2. CASE srvQ < NumQuestions
    BY <2>1, <2>2 DEF ServerQuestion, Reply
  <2>3. CASE ~(srvQ < NumQuestions)
    BY <2>1, <2>3 DEF ServerQuestion, Reply
  <2> QED BY <2>2, <2>3
<1>2. Count(outbox, "QU_RQ") = 1 + Count(outbox', "QU_RQ")
  BY <1>1, FramesTaken DEF One
<1>3. AskTokens = AskTokens' + 1
  <2>1. PICK a \in Nat, b \in Nat, c \in Nat, d \in Nat :
          /\ a = threads.sleeping /\ b = Count(outbox, "QU_RQ")
          /\ c = One(pc["main"] = "request") /\ d = Count(outbox', "QU_RQ")
    BY CountsTyped DEF One
  <2>2. b = 1 + d
    BY <1>2, <2>1
  <2>3. AskTokens = a + b + c /\ AskTokens' = a + d + c
    BY <1>1, <2>1 DEF AskTokens
  <2> QED BY <2>2, <2>3
<1>4. AskTokens = 1 /\ ~srvActive /\ CloseTokens = 0 /\ Started /\ AskTokens' = 0
  <2>1. AskTokens > 0
    BY <1>3, RoundSum
  <2>2. AskTokens = 1 /\ ~srvActive /\ CloseTokens = 0 /\ Started
    BY <2>1, TokensApart
  <2> QED BY <1>3, <2>2, RoundSum
<1> QED BY <1>1, <1>4

\* The server opens the question asked for, or says that none is left.
LEMMA OpenStep ==
  ASSUME TypeOK, TypeOK', TokenInv, TokenInv', ~closeOnEnd, ~closeOnEnd', ServerQuestion
  PROVE  RoundStep
<1>1. /\ UNCHANGED <<pc, cont, hdr, threads>>
      /\ \/ srvQ < NumQuestions /\ srvQ' = srvQ + 1 /\ srvActive' = TRUE
         \/ srvQ' = srvQ /\ srvActive' = srvActive
      /\ (inbox' = inbox \o <<Msg("QU", srvQ + 1)>> \/ inbox' = inbox \o <<Empty("QU")>>)
  BY RequestTaken
<1>2. AskTokens = 1 /\ ~srvActive /\ CloseTokens = 0 /\ Started /\ AskTokens' = 0
  BY RequestTaken
<1>3. CloseTokens' = 0
  <2>1. Count(inbox', "QU_RE") = Count(inbox, "QU_RE")
    <3>1. /\ Msg("QU", srvQ + 1) \in Message /\ Msg("QU", srvQ + 1).type # "QU_RE"
          /\ Empty("QU") \in Message /\ Empty("QU").type # "QU_RE" /\ inbox \in Seq(Message)
      BY DEF Msg, Empty, Message, ServerTypes, TypeOK, SrvTypeOK, NetTypeOK
    <3>2. ASSUME NEW m \in Message, m.type # "QU_RE", inbox' = inbox \o <<m>>
          PROVE  Count(inbox', "QU_RE") = Count(inbox, "QU_RE")
      <4>1. Count(Append(inbox, m), "QU_RE") = Count(inbox, "QU_RE") + One(m.type = "QU_RE")
        BY <3>1, CountAppend
      <4>2. inbox' = Append(inbox, m)
        BY <3>1, <3>2, AppendIsConcat
      <4>3. One(m.type = "QU_RE") = 0
        BY <3>2 DEF One
      <4> QED BY <4>1, <4>2, <4>3, CountsTyped
    <3> QED BY <1>1, <3>1, <3>2
  <2> QED BY <1>1, <1>2, <2>1 DEF CloseTokens
<1>4. RoundState = "asking"
  BY <1>2, StateOfTokens DEF RoundState
<1>5. ~Asking' /\ ~Closing' /\ Started'
  BY <1>1, <1>2, <1>3, StateOfTokens DEF Started
<1>6. CASE srvQ < NumQuestions /\ srvQ' = srvQ + 1 /\ srvActive' = TRUE
  <2>1. RoundState' = "open"
    BY <1>5, <1>6 DEF RoundState
  <2> QED BY <1>4, <1>6, <2>1 DEF RoundStep, Round!Next, Round!Open
<1>7. CASE srvQ' = srvQ /\ srvActive' = srvActive
  <2>1. RoundState' = "over"
    BY <1>2, <1>5, <1>7 DEF RoundState
  <2> QED BY <1>4, <1>7, <2>1 DEF RoundStep, Round!Next, Round!Finish
<1> QED BY <1>1, <1>6, <1>7

\* The answer, or the server's clock, closes the open question.
LEMMA CloseStep ==
  ASSUME TypeOK, TypeOK', TokenInv, ~closeOnEnd, ~closeOnEnd', srvQ' = srvQ,
         (ServerAnswer \/ ServerTimeout), srvActive
  PROVE  RoundStep
<1>1. /\ UNCHANGED <<pc, cont, hdr, threads>> /\ ~srvActive'
      /\ outbox' = outbox \/ (outbox # <<>> /\ outbox' = Tail(outbox))
  <2>1. CASE ServerAnswer
    BY <2>1 DEF ServerAnswer, Reply, Receives, InServer, ctlVars, liVars
  <2>2. CASE ServerTimeout
    BY <2>2 DEF ServerTimeout, Sends, InServer, ctlVars, liVars
  <2> QED BY <2>1, <2>2
<1>2. Count(inbox', "QU_RE") > 0
  <2>1. Msg("QU_RE", 0) \in Message /\ Msg("QU_RE", 0).type = "QU_RE" /\ inbox \in Seq(Message)
    BY DEF Msg, Message, ServerTypes, TypeOK, NetTypeOK
  <2>2. inbox' = Append(inbox, Msg("QU_RE", 0))
    <3>1. CASE ServerAnswer
      BY <2>1, <3>1, AppendIsConcat DEF ServerAnswer, Reply
    <3>2. CASE ServerTimeout
      BY <3>2 DEF ServerTimeout, Sends
    <3> QED BY <3>1, <3>2
  <2>3. Count(inbox', "QU_RE") = Count(inbox, "QU_RE") + 1
    BY <2>1, <2>2, CountAppend DEF One
  <2> QED BY <2>3, CountsTyped
<1>3. AskTokens = 0 /\ CloseTokens = 0 /\ Started
  BY TokensApart
<1>4. AskTokens' = 0
  <2>1. PICK a \in Nat, b \in Nat, c \in Nat, d \in Nat :
          /\ a = threads.sleeping /\ b = Count(outbox, "QU_RQ")
          /\ c = One(pc["main"] = "request") /\ d = Count(outbox', "QU_RQ")
    BY CountsTyped DEF One
  <2>2. d <= b
    <3>1. CASE outbox' = outbox
      BY <2>1, <3>1
    <3>2. CASE outbox # <<>> /\ outbox' = Tail(outbox)
      <4>1. b = One(Head(outbox).type = "QU_RQ") + d
        BY <2>1, <3>2, FramesTaken
      <4> QED BY <4>1 DEF One
    <3> QED BY <1>1, <3>1, <3>2
  <2>3. a + b + c = 0 /\ AskTokens' = a + d + c
    BY <1>1, <1>3, <2>1 DEF AskTokens
  <2> QED BY <2>2, <2>3
<1>5. CloseTokens' > 0
  BY <1>2, CountsTyped DEF CloseTokens, One
<1>6. RoundState = "open"
  BY <1>3, StateOfTokens DEF RoundState
<1>7. RoundState' = "closing"
  BY <1>1, <1>4, <1>5, StateOfTokens DEF RoundState
<1> QED BY <1>6, <1>7 DEF RoundStep, Round!Next, Round!Close

\* Once the player has left, only the number of the others' questions can go on.
LEMMA LeftStep ==
  ASSUME [Next]_vars, closeOnEnd', TypeOK
  PROVE  RoundStep
<1>1. RoundState' = "left"
  BY DEF RoundState
<1>2. CASE ServerQuestion
  <2>1. closeOnEnd' = closeOnEnd
    BY <1>2 DEF ServerQuestion, InServer, flagVars
  <2>2. RoundState = "left"
    BY <2>1 DEF RoundState
  <2>3. srvQ' = srvQ \/ (srvQ < NumQuestions /\ srvQ' = srvQ + 1)
    BY <1>2 DEF ServerQuestion
  <2> QED BY <1>1, <2>2, <2>3 DEF RoundStep, Round!Next, Round!vars, Round!PlayOn
<1>3. CASE ~ServerQuestion
  BY <1>1, <1>3, OnlyServerOpens DEF RoundStep, Round!Next, Round!Leave
<1> QED BY <1>2, <1>3

\* Every step of the client and the server is a step of the round or none.
LEMMA StepIsRound ==
  ASSUME GuiInv, TypeOK', RoundInv, RoundInv', [Next]_vars
  PROVE  RoundStep
<1>1. TypeOK
  BY DEF GuiInv
<1>2. CASE closeOnEnd'
  BY <1>1, <1>2, LeftStep
<1>3. CASE ~closeOnEnd'
  <2>1. ~closeOnEnd /\ PlaceInv /\ TokenInv /\ TokenInv'
    BY <1>3, ClosedForGood DEF RoundInv
  <2>2. NoGain /\ ~ServerQuestion => RoundStep
    BY <1>1, <1>3, <2>1, OnlyServerOpens, NoGainIsRound
  <2>3. CASE MainNext
    <3>1. ~ServerQuestion \/ RoundStep
      BY <1>1, <1>3, <2>1, OpenStep
    <3>2. CASE Connect \/ CreateListener \/ CreateGui
      BY <2>1, <2>2, <3>1, <3>2, MainStartsRound
    <3>3. CASE SendLogin \/ SendCatalogRequest \/ SendQuestionRequest
      BY <2>1, <2>2, <3>1, <3>3, MainWritesRound
    <3>4. CASE WaitStart
      BY <1>1, <1>3, <2>1, <3>4, BeginStep
    <3>5. CASE WaitLogin
      <4>1. /\ pc["main"] = "waitLogin" /\ pc'["main"] = "createGui"
            /\ pc'["listener"] = pc["listener"]
            /\ UNCHANGED <<hdr, threads, inbox, outbox, srvActive, cont>>
        BY <1>1, <3>5
        DEF WaitLogin, MainWaits, At, Continue, Goto, liVars, netVars, srvVars, TypeOK,
            CtlTypeOK, Threads
      <4>2. AskTokens' = AskTokens /\ CloseTokens' = CloseTokens
        BY <4>1 DEF AskTokens, CloseTokens, One
      <4>3. NoGain
        BY <1>1, <4>1, <4>2, RoundSum DEF NoGain, Started
      <4> QED BY <2>2, <3>1, <4>3
    <3>6. ~WaitEnd
      <4>1. WaitEnd => Started /\ semMain > 0
        BY DEF WaitEnd, At, Started
      <4>2. Started => semMain = 0
        BY <2>1, Zenon DEF TokenInv
      <4> QED BY <4>1, <4>2
    <3> QED BY <2>3, <3>2, <3>3, <3>4, <3>5, <3>6 DEF MainNext
  <2>4. CASE ServerQuestion
    BY <1>1, <1>3, <2>1, <2>4, OpenStep
  <2>5. CASE ListenerReads
    BY <1>3, <2>1, <2>2, <2>4, <2>5, ListenerReadsRound, ReadTypeRound, PostMainRound,
       WaitGuiRound, AskNextStep
    DEF ListenerReads
  <2>6. CASE ListenerShows
    BY <2>1, <2>2, <2>4, <2>6, ListenerShowsRound
  <2>7. CASE GuiStarts \/ GuiEnds \/ UserNext \/ UserConfirms
    BY <1>3, <2>1, <2>2, <2>4, <2>7, GuiRound
  <2>8. CASE QuestionThreads
    BY <2>1, <2>2, <2>4, <2>8, QuestionThreadsRound
  <2>9. CASE \E t \in Threads : Errors(t)
    BY <2>1, <2>2, <2>4, <2>9, ErrorsRound
  <2>10. CASE ServerReplies \/ ServerActs
    <3>1. CASE (ServerAnswer \/ ServerTimeout) /\ srvActive /\ ~ServerQuestion
      BY <1>1, <1>3, <2>1, <3>1, OnlyServerOpens, CloseStep
    <3>2. CASE ~ServerQuestion /\ ~(ServerAnswer /\ srvActive) /\ ~ServerTimeout
      BY <2>1, <2>2, <2>10, <3>2, ServerRound
    <3>3. ServerTimeout => srvActive
      BY DEF ServerTimeout
    <3> QED BY <2>4, <3>1, <3>2, <3>3
  <2>11. CASE UNCHANGED vars
    <3>1. UNCHANGED <<pc, cont, hdr, threads, inbox, outbox, srvActive, srvQ, closeOnEnd>>
      BY <2>11 DEF vars, ctlVars, flagVars, liVars, netVars, srvVars
    <3>2. RoundState' = RoundState
      BY <3>1 DEF RoundState, Asking, Closing, Started
    <3> QED BY <3>1, <3>2 DEF RoundStep, Round!vars
  <2> QED BY <2>3, <2>4, <2>5, <2>6, <2>7, <2>8, <2>9, <2>10, <2>11 DEF Next, Ended
<1> QED BY <1>2, <1>3

-----------------------------------------------------------------------------
(* The theorems.                                                            *)

\* At most one question is asked for, open or being wound up, for every number of
\* questions, change threads and queued messages, and whatever fault takes part of
\* a round away (main.c:166-172, li_qu_thread.c:16-41, 300-360).
THEOREM OneRound == Spec => []OneRoundAtATime
<1>1. RoundInv => OneRoundAtATime
  <2>1. TokenInv => RoundTokens <= 1
    <3>1. RoundTokens = 0 => RoundTokens <= 1
      OBVIOUS
    <3> QED BY <3>1, Zenon DEF TokenInv
  <2> QED BY <2>1 DEF RoundInv, RoundTokens, OneRoundAtATime
<1> QED BY <1>1, RoundHolds, PTL

\* Only main's return past its last wait ends the process that way.
LEMMA OnlyMainReturns ==
  ASSUME [Next]_vars, ~WaitEnd, proc # "returned"
  PROVE  proc' # "returned"
<1>1. ASSUME NEW t, NEW ret, NEW next, TestErrors(t, ret, next)
      PROVE  proc' # "returned"
  BY <1>1 DEF TestErrors, Continue, End
<1>2. ASSUME NEW t, NEW frame, NEW next, Write(t, frame, next)
      PROVE  proc' # "returned"
  BY <1>1, <1>2 DEF Write, Continue, End
<1>3. ASSUME NEW next, Read(next) \/ ReadPayload(next) \/ Continue("listener", next)
      PROVE  proc' # "returned"
  BY <1>1, <1>3 DEF Read, ReadPayload, Skip, Continue
<1>4. CASE MainNext
  BY <1>2, <1>4
  DEF MainNext, Connect, CreateListener, SendLogin, WaitLogin, CreateGui,
      SendCatalogRequest, WaitStart, SendQuestionRequest, MainWrites, MainWaits,
      Continue, End
<1>5. CASE ListenerReads
  BY <1>1, <1>3, <1>5
  DEF ListenerReads, CallRead, ReadType, ReadSize, ReadRank, ReceiveLoginOk, ReceiveCatalog,
      ReceiveCatalogChange, ReceivePlayerList, ReceiveStartGame, ReceiveQuestion,
      ReceiveResult, ReceiveWarning, ReceiveUnknown, Severity, PostMain, WaitGui,
      SpawnQuestionThread, Receive, Skip, Continue, End
<1>6. CASE ListenerShows
  BY <1>2, <1>6
  DEF ListenerShows, ListenerAborts, SetMode, ShowCatalog, ShowSelection, ShowPlayers,
      ShowGame, ShowQuestion, EnableButtons, ShowResult, HideGame, ShowWarning, ShowEnd,
      Continue, End
<1>7. CASE GuiStarts \/ GuiEnds \/ UserNext \/ UserConfirms
  BY <1>2, <1>7
  DEF GuiStarts, GuiInit, GuiPost, GuiSetRuns, GuiEnds, GuiDestroy, GuiExit, UserNext,
      OnCatalogChanged, OnStartClicked, OnAnswerClicked, OnWindowClosed, Callback,
      UserConfirms, DismissDialog, Continue, End, ctlVars
<1>8. CASE QuestionThreads \/ \E t \in Threads : Errors(t)
  BY <1>2, <1>8
  DEF QuestionThreads, QuestionThreadWrites, QuestionThreadFails, Errors, ErrorDialog,
      SocketWait, WriteName, Unlock, Continue, End, ctlVars
<1>9. CASE ServerReplies \/ ServerActs
  BY <1>9
  DEF ServerReplies, ServerActs, ServerLogin, ServerCatalogs, ServerCatalogChange,
      ServerStart, ServerQuestion, ServerAnswer, ServerTimeout, ServerGameOver,
      ServerUnasked, ServerFatal, ServerCloses, Sends, InServer, ctlVars
<1>10. CASE UNCHANGED vars
  BY <1>10 DEF vars, ctlVars
<1> QED BY <1>4, <1>5, <1>6, <1>7, <1>8, <1>9, <1>10 DEF Next, Ended

\* The post for the login and the post for the game are main's only ones: until the
\* player closes a window it stays in its last wait and the process goes on, however
\* many messages the server sends (main.c:160-190, li_qu_thread.c:60-83, 206-240).
THEOREM MainBlocked == Spec => []MainStaysBlocked
<1>1. Init => MainStaysBlocked
  BY DEF Init, MainStaysBlocked
<1>2. /\ RoundInv /\ MainStaysBlocked /\ [Next]_vars /\ TypeOK
      => MainStaysBlocked'
  <2> SUFFICES ASSUME RoundInv, MainStaysBlocked, [Next]_vars, TypeOK, ~closeOnEnd'
               PROVE  proc' # "returned"
    BY DEF MainStaysBlocked
  <2>1. ~closeOnEnd /\ TokenInv
    BY ClosedForGood DEF RoundInv
  <2>2. ~WaitEnd
    <3>1. WaitEnd => Started /\ semMain > 0
      BY DEF WaitEnd, At, Started
    <3>2. Started => semMain = 0
      BY <2>1, Zenon DEF TokenInv
    <3> QED BY <3>1, <3>2
  <2> QED BY <2>1, <2>2, OnlyMainReturns DEF MainStaysBlocked
<1> QED BY <1>1, <1>2, RoundHolds, Typing, PTL DEF Spec

\* The client's threads and the server carry the questions on as QuestionRound says,
\* for every number of questions, threads and queued messages: none is opened that
\* nobody asked for, none asked for before the last one's result was shown, and the
\* game begins once (main.c:160-190, li_qu_thread.c:16-41, 291-360).
THEOREM ClientIsRound == Spec => ImplementsRound
<1>1. Init => Round!Init
  <2> SUFFICES ASSUME Init
               PROVE  Round!Init
    OBVIOUS
  <2>1. /\ pc["main"] = "connect" /\ pc["listener"] = "none" /\ outbox = <<>> /\ inbox = <<>>
        /\ threads.sleeping = 0 /\ ~closeOnEnd /\ ~srvActive /\ srvQ = 0
    BY DEF Init, Threads
  <2>2. ~Asking /\ ~Closing /\ ~Started
    BY <2>1 DEF Asking, Closing, Started
  <2> QED BY <2>1, <2>2 DEF Round!Init, RoundState
<1>2. GuiInv /\ TypeOK' /\ RoundInv /\ RoundInv' /\ [Next]_vars => [Round!Next]_(Round!vars)
  BY StepIsRound DEF RoundStep
<1> QED BY <1>1, <1>2, RoundHolds, StartHolds, Typing, PTL DEF Spec, ImplementsRound, Round!Spec

=============================================================================
