----------------------------- MODULE EchoProofs -----------------------------
(***************************************************************************)
(* Proofs about EchoServer: what the threads can do to each other through  *)
(* the buffer they share, for any number of connections, addresses and     *)
(* bytes.                                                                  *)
(*                                                                         *)
(* ThreadInv places every thread in its copy, QueueInv keeps a connection  *)
(* out of the backlog once it has its thread; then BufferInv can say whose *)
(* bytes a copy has in front of it, and AloneInv which ones exactly when   *)
(* no other thread lives.                                                  *)
(***************************************************************************)
EXTENDS EchoServer, SequenceTheorems, TLAPS

Copying(c) == thread[c] \in {"in", "out"}

SocketInv ==
  /\ Len(sockets) = IF numsockets = 0 THEN 1 ELSE numsockets
  /\ numsockets = 0 => sockets[1] = -1
  /\ \A n \in 1 .. numsockets : sockets[n] \in 1 .. tried
ReadyInv == pc = "accept" => \A a \in ready : backlog[a] # <<>>
WaitsInv ==
  \A a \in Listening : \A m \in 1 .. Len(backlog[a]) :
    client[backlog[a][m]] # "none" /\ thread[backlog[a][m]] = "none"
OnceInv ==
  \A a, b \in Listening : \A m \in 1 .. Len(backlog[a]), l \in 1 .. Len(backlog[b]) :
    backlog[a][m] = backlog[b][l] => a = b /\ m = l
UnservedInv ==
  \A c \in Clients :
    /\ client[c] = "none" => thread[c] = "none" /\ wire[c] = <<>>
    /\ thread[c] = "none" => taken[c] = <<>> /\ echoed[c] = <<>> /\ met[c] = {}
ThreadInv ==
  \A c \in Clients :
    /\ Copying(c) => ret[c] \in 1 .. BufSize /\ k[c] \in 1 .. ret[c]
    /\ thread[c] = "in" => ret[c] - k[c] + 1 <= Len(wire[c])
WireInv == \A c \in Clients : \A n \in 1 .. Len(wire[c]) : wire[c][n].from = c

QueueInv == ReadyInv /\ WaitsInv /\ OnceInv
PlaceInv == TypeOK /\ SocketInv /\ QueueInv /\ UnservedInv /\ ThreadInv /\ WireInv

MetInv ==
  \A c, d \in Clients : c # d /\ Alive(c) /\ Alive(d) => d \in met[c]
BufferInv ==
  \A c \in Clients :
    /\ thread[c] = "in" => \A j \in 1 .. k[c] - 1 : buf[j].from \in {c} \cup met[c]
    /\ thread[c] = "out" => \A j \in 1 .. ret[c] : buf[j].from \in {c} \cup met[c]
Alone(c) ==
  /\ thread[c] = "in" =>
       /\ Len(taken[c]) = Len(echoed[c]) + k[c] - 1
       /\ \A j \in 1 .. k[c] - 1 : buf[j] = taken[c][Len(echoed[c]) + j]
  /\ thread[c] = "out" =>
       /\ Len(taken[c]) = Len(echoed[c]) + ret[c] - k[c] + 1
       /\ \A j \in k[c] .. ret[c] : buf[j] = taken[c][Len(taken[c]) - ret[c] + j]
AloneInv == \A c \in Clients : met[c] = {} => Exact(c) /\ Alone(c)

ShareInv == MetInv /\ BufferInv /\ OnlyMetData
IInv == PlaceInv /\ ShareInv /\ AloneInv

-----------------------------------------------------------------------------
(* Where everyone is.                                                      *)

LEMMA InitPlace == Init => PlaceInv
<1> SUFFICES ASSUME Init PROVE PlaceInv
  OBVIOUS
<1> USE EchoAssumption DEF Init
<1>1. TypeOK
  BY DEF TypeOK, Listening
<1>2. SocketInv
  BY DEF SocketInv
<1>3. QueueInv
  BY DEF QueueInv, ReadyInv, WaitsInv, OnceInv
<1>4. UnservedInv /\ ThreadInv /\ WireInv
  BY DEF UnservedInv, ThreadInv, WireInv, Copying
<1> QED BY <1>1, <1>2, <1>3, <1>4 DEF PlaceInv

MainSteps ==
  \/ NoAddress \/ Bind \/ EnterLoop \/ Select \/ SelectFails \/ AcceptCrashes
  \/ AcceptedAll

\* A bound socket is one of the addresses tried.
LEMMA BoundTried ==
  ASSUME TypeOK, SocketInv PROVE Bound \subseteq 1 .. tried /\ Bound \subseteq Listening
BY EchoAssumption DEF TypeOK, SocketInv, Bound, Listening

LEMMA BindSockets ==
  ASSUME PlaceInv, Bind PROVE /\ sockets' \in Seq(Listening \cup {-1})
                              /\ SocketInv'
                              /\ tried' \in 0 .. Addresses /\ numsockets' \in 0 .. tried'
<1> USE EchoAssumption DEF PlaceInv
<1>1. /\ tried \in Nat /\ tried < Addresses /\ tried' = tried + 1
      /\ numsockets \in 0 .. tried /\ sockets \in Seq(Listening \cup {-1})
      /\ numsockets <= Len(sockets) /\ tried + 1 \in Listening
  BY DEF Bind, TypeOK, SocketInv, Listening
<1>2. CASE UNCHANGED <<sockets, numsockets>>
  BY <1>1, <1>2 DEF SocketInv
<1>3. CASE /\ sockets' = SubSeq(sockets, 1, numsockets) \o <<tried + 1>>
           /\ numsockets' = numsockets + 1
  <2> DEFINE s == SubSeq(sockets, 1, numsockets)
  <2>1. /\ s \in Seq(Listening \cup {-1}) /\ Len(s) = numsockets
        /\ \A n \in 1 .. numsockets : s[n] = sockets[n]
    BY <1>1
  <2>2. <<tried + 1>> \in Seq(Listening \cup {-1})
    BY <1>1
  <2>3. /\ sockets' \in Seq(Listening \cup {-1}) /\ Len(sockets') = numsockets + 1
        /\ \A n \in 1 .. numsockets + 1 :
             sockets'[n] = IF n <= numsockets THEN s[n] ELSE tried + 1
    BY <1>1, <1>3, <2>1, <2>2
  <2>4. SocketInv'
    BY <1>1, <1>3, <2>1, <2>3 DEF SocketInv
  <2> QED BY <1>1, <1>3, <2>3, <2>4
<1> QED BY <1>2, <1>3 DEF Bind

LEMMA MainPlace == ASSUME PlaceInv, MainSteps PROVE PlaceInv'
<1> USE DEF PlaceInv
<1>1. UNCHANGED <<threadVars, clientVars>>
  BY DEF MainSteps, NoAddress, Bind, EnterLoop, Select,
     SelectFails, AcceptCrashes, AcceptedAll
<1>2. UnservedInv' /\ ThreadInv' /\ WireInv' /\ WaitsInv' /\ OnceInv'
  BY <1>1 DEF QueueInv, UnservedInv, ThreadInv, WireInv, WaitsInv, OnceInv, Copying,
     threadVars, clientVars
<1>3. ReadyInv'
  BY <1>1, BoundTried DEF MainSteps, NoAddress, Bind, EnterLoop, Select,
     SelectFails, AcceptCrashes, AcceptedAll,
     mainVars, clientVars, ReadyInv, QueueInv
<1>4. CASE Bind
  <2>1. TypeOK'
    BY <1>1, <1>4, BindSockets DEF Bind, TypeOK, threadVars, clientVars, Listening
  <2> QED BY <1>2, <1>3, <1>4, <2>1, BindSockets DEF QueueInv
<1>5. CASE NoAddress \/ EnterLoop \/ Select \/ SelectFails \/ AcceptCrashes \/ AcceptedAll
  <2>1. UNCHANGED <<tried, sockets, numsockets>>
    BY <1>5 DEF NoAddress, EnterLoop, Select,
       SelectFails, AcceptCrashes, AcceptedAll, mainVars
  <2>2. SocketInv'
    BY <2>1 DEF SocketInv
  <2>3. ready' \subseteq Listening
    BY <1>5, BoundTried DEF TypeOK, NoAddress, EnterLoop, Select,
       SelectFails, AcceptCrashes, AcceptedAll, mainVars
  <2>4. /\ proc' \in {"running", "exited", "killed"}
        /\ pc' \in {"bind", "select", "accept", "spin"}
    BY <1>5 DEF TypeOK, NoAddress, EnterLoop, Select,
       SelectFails, AcceptCrashes, AcceptedAll, mainVars
  <2>5. TypeOK'
    BY <1>1, <2>1, <2>3, <2>4 DEF TypeOK, threadVars, clientVars, Listening
  <2> QED BY <1>2, <1>3, <2>2, <2>5 DEF QueueInv
<1> QED BY <1>4, <1>5 DEF MainSteps

\* accept takes the first connection of a socket's backlog.
Takes(a) ==
  /\ ready' = ready \ {a} /\ backlog' = [backlog EXCEPT ![a] = Tail(@)]
  /\ \/ /\ thread' = [thread EXCEPT ![Head(backlog[a])] = "read"]
        /\ Meets(Head(backlog[a]))
     \/ /\ thread' = [thread EXCEPT ![Head(backlog[a])] = "leaked"]
        /\ UNCHANGED met
  /\ UNCHANGED <<proc, pc, tried, sockets, numsockets, ret, k, buf, taken, echoed,
                 client, wire>>

LEMMA AcceptCases ==
  ASSUME PlaceInv, Accept
  PROVE  \/ ready' \subseteq ready /\ UNCHANGED <<proc, pc, tried, sockets, numsockets, backlog, client, wire>> /\ UNCHANGED threadVars
         \/ \E a \in ready : Takes(a)
BY DEF Accept, Takes, threadVars

\* The connection an accept takes had no thread, and no place elsewhere.
LEMMA TakenOnce ==
  ASSUME PlaceInv, NEW a \in ready, pc = "accept"
  PROVE  LET c == Head(backlog[a])
         IN  /\ a \in Listening /\ c \in Clients /\ thread[c] = "none" /\ client[c] # "none"
             /\ Len(backlog[a]) # 0 /\ c = backlog[a][1]
             /\ taken[c] = <<>> /\ echoed[c] = <<>> /\ met[c] = {}
             /\ Tail(backlog[a]) \in Seq(Clients)
             /\ Len(Tail(backlog[a])) = Len(backlog[a]) - 1
             /\ \A m \in 1 .. Len(backlog[a]) - 1 : Tail(backlog[a])[m] = backlog[a][m + 1]
<1>1. a \in Listening /\ backlog[a] \in Seq(Clients) /\ backlog[a] # <<>>
  BY DEF PlaceInv, TypeOK, QueueInv, ReadyInv
<1>2. Len(backlog[a]) # 0 /\ Head(backlog[a]) = backlog[a][1] /\ backlog[a][1] \in Clients
  BY <1>1
<1>3. client[backlog[a][1]] # "none" /\ thread[backlog[a][1]] = "none"
  BY <1>1, <1>2 DEF PlaceInv, QueueInv, WaitsInv
<1> QED BY <1>1, <1>2, <1>3 DEF PlaceInv, UnservedInv

LEMMA AcceptPlace == ASSUME PlaceInv, Accept PROVE PlaceInv'
<1> USE DEF PlaceInv
<1>1. CASE ready' \subseteq ready /\ UNCHANGED <<proc, pc, tried, sockets, numsockets, backlog, client, wire>> /\ UNCHANGED threadVars
  BY <1>1 DEF TypeOK, SocketInv, QueueInv, ReadyInv, WaitsInv, OnceInv, UnservedInv, ThreadInv,
     WireInv, Copying, threadVars
<1>2. ASSUME NEW a \in ready, Takes(a) PROVE PlaceInv'
  <2> DEFINE c == Head(backlog[a])
  <2> USE <1>2 DEF Takes
  <2>1. pc = "accept"
    BY DEF Accept
  <2>2. /\ a \in Listening /\ c \in Clients /\ thread[c] = "none" /\ client[c] # "none"
        /\ Len(backlog[a]) # 0 /\ c = backlog[a][1]
        /\ taken[c] = <<>> /\ echoed[c] = <<>> /\ met[c] = {}
        /\ Tail(backlog[a]) \in Seq(Clients)
        /\ Len(Tail(backlog[a])) = Len(backlog[a]) - 1
        /\ \A m \in 1 .. Len(backlog[a]) - 1 : Tail(backlog[a])[m] = backlog[a][m + 1]
    BY <2>1, TakenOnce
  <2> HIDE DEF c
  <2>3. /\ thread' \in [Clients -> {"none", "read", "in", "out", "closed", "leaked"}]
        /\ thread'[c] \in {"read", "leaked"}
        /\ \A d \in Clients \ {c} : thread'[d] = thread[d]
    BY <2>2 DEF TypeOK, c
  <2>4. /\ backlog' \in [Listening -> Seq(Clients)]
        /\ backlog'[a] = Tail(backlog[a])
        /\ \A b \in Listening \ {a} : backlog'[b] = backlog[b]
    BY <2>2 DEF TypeOK
  <2>5. met' \in [Clients -> SUBSET Clients] /\ \A d \in Clients : thread[d] = "none" /\ d # c => met'[d] = met[d]
    <3>1. CASE UNCHANGED met
      BY <3>1 DEF TypeOK
    <3>2. CASE Meets(c)
      <4>1. \A d \in Clients : met'[d] = IF d = c THEN {e \in Clients \ {c} : Alive(e)}
                                       ELSE met[d] \cup {e \in {c} : Alive(d)}
        BY <3>2 DEF Meets
      <4>2. \A d \in Clients : thread[d] = "none" => ~Alive(d)
        BY DEF Alive
      <4>3. met' \in [Clients -> SUBSET Clients]
        BY <2>2, <3>2 DEF Meets, TypeOK
      <4> QED BY <4>1, <4>2, <4>3
    <3> QED BY <3>1, <3>2 DEF c
  <2> DEFINE from(x) == IF x = a THEN 1 ELSE 0
  <2>6. \A b \in Listening : \A m \in 1 .. Len(backlog'[b]) :
           /\ m + from(b) \in 1 .. Len(backlog[b])
           /\ backlog'[b][m] = backlog[b][m + from(b)] /\ backlog'[b][m] \in Clients
    <3> SUFFICES ASSUME NEW b \in Listening, NEW m \in 1 .. Len(backlog'[b])
                 PROVE  /\ m + from(b) \in 1 .. Len(backlog[b])
                        /\ backlog'[b][m] = backlog[b][m + from(b)]
                        /\ backlog'[b][m] \in Clients
      OBVIOUS
    <3>1. backlog'[b] \in Seq(Clients) /\ backlog[b] \in Seq(Clients)
      BY <2>4 DEF TypeOK
    <3>2. CASE b = a
      BY <3>1, <3>2, <2>2, <2>4
    <3>3. CASE b # a
      BY <3>1, <3>3, <2>4
    <3> QED BY <3>2, <3>3
  <2>7. TypeOK' /\ SocketInv'
    BY <2>3, <2>4, <2>5 DEF TypeOK, SocketInv, Listening
  <2>8. ReadyInv'
    BY <2>4 DEF QueueInv, ReadyInv, TypeOK
  <2>9. WaitsInv'
    <3> SUFFICES ASSUME NEW b \in Listening, NEW m \in 1 .. Len(backlog'[b])
                 PROVE  client[backlog'[b][m]] # "none" /\ thread'[backlog'[b][m]] = "none"
      BY DEF WaitsInv
    <3>1. /\ m + from(b) \in 1 .. Len(backlog[b]) /\ backlog'[b][m] = backlog[b][m + from(b)]
          /\ backlog'[b][m] \in Clients
      BY <2>6
    <3>2. client[backlog'[b][m]] # "none" /\ thread[backlog'[b][m]] = "none"
      BY <3>1 DEF QueueInv, WaitsInv
    <3>3. backlog'[b][m] # c
      <4>1. 1 \in 1 .. Len(backlog[a]) /\ backlog[a][1] = c
        BY <2>2 DEF TypeOK
      <4>2. backlog[b][m + from(b)] = backlog[a][1] => b = a /\ m + from(b) = 1
        BY <3>1, <4>1, <2>2 DEF QueueInv, OnceInv
      <4> QED BY <3>1, <4>1, <4>2
    <3> QED BY <3>1, <3>2, <3>3, <2>3
  <2>10. OnceInv'
    <3> SUFFICES ASSUME NEW b \in Listening, NEW e \in Listening,
                        NEW m \in 1 .. Len(backlog'[b]), NEW l \in 1 .. Len(backlog'[e]),
                        backlog'[b][m] = backlog'[e][l]
                 PROVE  b = e /\ m = l
      BY DEF OnceInv
    <3>1. /\ m + from(b) \in 1 .. Len(backlog[b]) /\ backlog'[b][m] = backlog[b][m + from(b)]
          /\ l + from(e) \in 1 .. Len(backlog[e]) /\ backlog'[e][l] = backlog[e][l + from(e)]
      BY <2>6
    <3>2. b = e /\ m + from(b) = l + from(e)
      BY <3>1 DEF QueueInv, OnceInv
    <3> QED BY <3>2
  <2>11. UnservedInv'
    BY <2>2, <2>3, <2>5 DEF UnservedInv
  <2>12. ThreadInv' /\ WireInv'
    BY <2>3 DEF ThreadInv, WireInv, Copying
  <2> QED BY <2>7, <2>8, <2>9, <2>10, <2>11, <2>12 DEF QueueInv
<1> QED BY <1>1, <1>2, AcceptCases

ThreadSteps(c) == ThreadRuns(c) \/ ThreadFails(c)

\* What a copy does to its own connection and to nobody else's.
LEMMA CopyInStep ==
  ASSUME PlaceInv, NEW c \in Clients, CopyIn(c)
  PROVE  /\ wire[c] \in Seq(Byte) /\ wire[c] # <<>> /\ Head(wire[c]) \in Byte
         /\ Head(wire[c]).from = c
         /\ k[c] \in 1 .. ret[c] /\ ret[c] \in 1 .. BufSize /\ k[c] \in 1 .. BufSize
         /\ buf' = [buf EXCEPT ![k[c]] = Head(wire[c])]
         /\ wire' = [wire EXCEPT ![c] = Tail(@)]
         /\ Len(Tail(wire[c])) = Len(wire[c]) - 1
         /\ taken' = [taken EXCEPT ![c] = Append(@, Head(wire[c]))]
<1>1. /\ wire[c] \in Seq(Byte) /\ k[c] \in 1 .. ret[c] /\ ret[c] \in 1 .. BufSize
      /\ ret[c] - k[c] + 1 <= Len(wire[c])
  BY DEF CopyIn, In, PlaceInv, TypeOK, ThreadInv, Copying
<1>2. Len(wire[c]) \in Nat /\ Len(wire[c]) >= 1
  BY <1>1, EchoAssumption
<1>3. wire[c] # <<>> /\ Head(wire[c]) = wire[c][1] /\ wire[c][1] \in Byte
  BY <1>1, <1>2
<1>4. wire[c][1].from = c
  BY <1>2 DEF PlaceInv, WireInv
<1> QED BY <1>1, <1>2, <1>3, <1>4, EchoAssumption DEF CopyIn

\* A step of a thread moves that thread only.
LEMMA ThreadMoves ==
  ASSUME TypeOK, NEW c \in Clients, ThreadSteps(c)
  PROVE  /\ UNCHANGED <<mainVars, backlog, client, met>>
         /\ thread[c] \in {"read", "in", "out"} /\ thread'[c] \in {"read", "in", "out", "closed"}
         /\ thread' \in [Clients -> {"none", "read", "in", "out", "closed", "leaked"}]
         /\ \A d \in Clients \ {c} : thread'[d] = thread[d]
         /\ proc' \in {"running", "exited", "killed"}
<1>1. /\ thread \in [Clients -> {"none", "read", "in", "out", "closed", "leaked"}]
      /\ proc \in {"running", "exited", "killed"}
  BY DEF TypeOK
<1>2. ASSUME UNCHANGED <<mainVars, backlog, client, met>>, UNCHANGED proc \/ proc' = "killed",
             thread[c] \in {"read", "in", "out"},
             \/ thread' = thread
             \/ \E place \in {"read", "in", "out", "closed"} : thread' = [thread EXCEPT ![c] = place]
      PROVE  /\ UNCHANGED <<mainVars, backlog, client, met>>
             /\ thread[c] \in {"read", "in", "out"}
             /\ thread'[c] \in {"read", "in", "out", "closed"}
             /\ thread' \in [Clients -> {"none", "read", "in", "out", "closed", "leaked"}]
             /\ \A d \in Clients \ {c} : thread'[d] = thread[d]
             /\ proc' \in {"running", "exited", "killed"}
  BY <1>1, <1>2
<1>3. CASE Read(c)
  BY <1>2, <1>3 DEF Read, In, clientVars
<1>4. CASE CopyIn(c)
  BY <1>2, <1>4 DEF CopyIn, In
<1>5. CASE CopyOut(c)
  BY <1>2, <1>5 DEF CopyOut, In, clientVars
<1>6. CASE ReadEnds(c)
  BY <1>2, <1>6 DEF ReadEnds, In, clientVars
<1>7. CASE WriteFails(c)
  BY <1>2, <1>7 DEF WriteFails, In, clientVars
<1>8. CASE ReadFails(c)
  BY <1>2, <1>8 DEF ReadFails, In, clientVars
<1> QED BY <1>3, <1>4, <1>5, <1>6, <1>7, <1>8 DEF ThreadSteps, ThreadRuns, ThreadFails

\* Its place in the copy and its bytes are its own too; only the buffer is not.
LEMMA ThreadTouches ==
  ASSUME TypeOK, NEW c \in Clients, ThreadSteps(c)
  PROVE  /\ buf' = buf \/ CopyIn(c)
         /\ \A d \in Clients \ {c} :
              /\ ret'[d] = ret[d] /\ k'[d] = k[d]
              /\ echoed'[d] = echoed[d] /\ taken'[d] = taken[d]
<1>1. /\ ret \in [Clients -> 0 .. BufSize] /\ k \in [Clients -> 0 .. BufSize]
      /\ echoed \in [Clients -> Seq(Byte \cup {NoByte})] /\ taken \in [Clients -> Seq(Byte)]
  BY DEF TypeOK
<1>2. CASE Read(c)
  BY <1>1, <1>2 DEF Read
<1>3. CASE CopyIn(c)
  BY <1>1, <1>3 DEF CopyIn
<1>4. CASE CopyOut(c)
  BY <1>1, <1>4 DEF CopyOut
<1>5. CASE ReadEnds(c) \/ WriteFails(c) \/ ReadFails(c)
  BY <1>5 DEF ReadEnds, WriteFails, ReadFails
<1> QED BY <1>2, <1>3, <1>4, <1>5 DEF ThreadSteps, ThreadRuns, ThreadFails

LEMMA ThreadPlace ==
  ASSUME PlaceInv, NEW c \in Clients, ThreadSteps(c) PROVE PlaceInv'
<1> USE EchoAssumption DEF PlaceInv
<1>1. /\ UNCHANGED <<mainVars, backlog, client, met>>
      /\ thread[c] \in {"read", "in", "out"} /\ thread'[c] \in {"read", "in", "out", "closed"}
      /\ thread' \in [Clients -> {"none", "read", "in", "out", "closed", "leaked"}]
      /\ \A d \in Clients \ {c} : thread'[d] = thread[d]
      /\ proc' \in {"running", "exited", "killed"}
  BY ThreadMoves
<1>2. SocketInv' /\ ReadyInv' /\ OnceInv'
  BY <1>1 DEF SocketInv, QueueInv, ReadyInv, OnceInv, mainVars
<1>3. WaitsInv'
  <2> SUFFICES ASSUME NEW a \in Listening, NEW m \in 1 .. Len(backlog[a])
               PROVE  client[backlog[a][m]] # "none" /\ thread'[backlog[a][m]] = "none"
    BY <1>1 DEF WaitsInv
  <2>1. /\ client[backlog[a][m]] # "none" /\ thread[backlog[a][m]] = "none"
    BY DEF QueueInv, WaitsInv
  <2>2. backlog[a] \in Seq(Clients)
    BY DEF TypeOK
  <2>3. backlog[a][m] \in Clients
    BY <2>2
  <2> QED BY <1>1, <2>1, <2>3
<1>4. /\ wire' \in [Clients -> Seq(Byte)] /\ taken' \in [Clients -> Seq(Byte)]
      /\ echoed' \in [Clients -> Seq(Byte \cup {NoByte})]
      /\ buf' \in [1 .. BufSize -> Byte \cup {NoByte}]
      /\ \A d \in Clients \ {c} : wire'[d] = wire[d] /\ taken'[d] = taken[d] /\ echoed'[d] = echoed[d]
  <2>1. CASE CopyIn(c)
    <3>1. Tail(wire[c]) \in Seq(Byte) /\ Append(taken[c], Head(wire[c])) \in Seq(Byte)
      BY SMTT(60), <2>1, CopyInStep DEF TypeOK
    <3>2. /\ wire \in [Clients -> Seq(Byte)] /\ taken \in [Clients -> Seq(Byte)]
          /\ echoed \in [Clients -> Seq(Byte \cup {NoByte})] /\ UNCHANGED echoed
          /\ buf \in [1 .. BufSize -> Byte \cup {NoByte}]
      BY <2>1 DEF CopyIn, TypeOK
    <3>3. /\ buf' = [buf EXCEPT ![k[c]] = Head(wire[c])] /\ Head(wire[c]) \in Byte
          /\ k[c] \in 1 .. BufSize
          /\ wire' = [wire EXCEPT ![c] = Tail(wire[c])]
          /\ taken' = [taken EXCEPT ![c] = Append(taken[c], Head(wire[c]))]
      BY <2>1, CopyInStep
    <3>4. buf' \in [1 .. BufSize -> Byte \cup {NoByte}]
      BY <3>2, <3>3
    <3> QED BY <3>1, <3>2, <3>3, <3>4
  <2>2. CASE CopyOut(c)
    <3>1. buf[k[c]] \in Byte \cup {NoByte}
      BY <2>2 DEF CopyOut, In, TypeOK, ThreadInv, Copying
    <3>2. Append(echoed[c], buf[k[c]]) \in Seq(Byte \cup {NoByte})
      BY <3>1 DEF TypeOK
    <3> QED BY <2>2, <3>2 DEF CopyOut, TypeOK, clientVars
  <2>3. CASE Read(c) \/ ReadEnds(c) \/ WriteFails(c) \/ ReadFails(c)
    BY <2>3 DEF Read, ReadEnds, WriteFails, ReadFails, TypeOK, clientVars
  <2> QED BY <2>1, <2>2, <2>3 DEF ThreadSteps, ThreadRuns, ThreadFails
<1>5. UnservedInv'
  <2>1. ASSUME NEW d \in Clients \ {c}
        PROVE  /\ client'[d] = "none" => thread'[d] = "none" /\ wire'[d] = <<>>
               /\ thread'[d] = "none" => taken'[d] = <<>> /\ echoed'[d] = <<>> /\ met'[d] = {}
    BY <1>1, <1>4 DEF UnservedInv
  <2>2. client'[c] # "none" /\ thread'[c] # "none"
    BY <1>1 DEF UnservedInv
  <2> QED BY <2>1, <2>2 DEF UnservedInv
<1>6. /\ ret' \in [Clients -> 0 .. BufSize] /\ k' \in [Clients -> 0 .. BufSize]
      /\ \A d \in Clients \ {c} : ret'[d] = ret[d] /\ k'[d] = k[d]
      /\ thread'[c] \in {"in", "out"} => ret'[c] \in 1 .. BufSize /\ k'[c] \in 1 .. ret'[c]
      /\ thread'[c] = "in" => ret'[c] - k'[c] + 1 <= Len(wire'[c])
  <2>1. CASE Read(c)
    <3>1. wire' = wire /\ Len(wire[c]) \in Nat
      BY <2>1 DEF Read, clientVars, TypeOK
    <3> QED BY <2>1, <3>1 DEF Read, TypeOK
  <2>2. CASE CopyIn(c)
    <3>1. Len(wire'[c]) = Len(wire[c]) - 1 /\ Len(wire[c]) \in Nat
      BY SMTT(60), <2>2, CopyInStep DEF TypeOK
    <3>2. /\ ret' = ret /\ k[c] \in 1 .. ret[c] /\ ret[c] \in 1 .. BufSize
          /\ ret[c] - k[c] + 1 <= Len(wire[c])
          /\ \/ k[c] < ret[c] /\ k' = [k EXCEPT ![c] = k[c] + 1] /\ thread' = thread
             \/ k' = [k EXCEPT ![c] = 1] /\ thread' = [thread EXCEPT ![c] = "out"]
      <4>1. k[c] \in 1 .. ret[c] /\ ret[c] \in 1 .. BufSize
        BY <2>2, CopyInStep
      <4>2. ret' = ret /\ thread[c] = "in"
        BY <2>2 DEF CopyIn, In
      <4>3. ret[c] - k[c] + 1 <= Len(wire[c])
        BY <4>2 DEF ThreadInv
      <4>4. \/ k[c] < ret[c] /\ k' = [k EXCEPT ![c] = k[c] + 1] /\ thread' = thread
            \/ k' = [k EXCEPT ![c] = 1] /\ thread' = [thread EXCEPT ![c] = "out"]
        BY <2>2 DEF CopyIn
      <4> QED BY <4>1, <4>2, <4>3, <4>4
    <3>3. /\ ret \in [Clients -> 0 .. BufSize] /\ k \in [Clients -> 0 .. BufSize]
          /\ thread \in [Clients -> {"none", "read", "in", "out", "closed", "leaked"}]
      BY DEF TypeOK
    <3>4. CASE k[c] < ret[c] /\ k' = [k EXCEPT ![c] = k[c] + 1] /\ thread' = thread
      BY <3>1, <3>2, <3>3, <3>4
    <3>5. CASE k' = [k EXCEPT ![c] = 1] /\ thread' = [thread EXCEPT ![c] = "out"]
      BY <3>1, <3>2, <3>3, <3>5
    <3> QED BY <3>2, <3>4, <3>5
  <2>3. CASE CopyOut(c)
    <3>1. /\ ret' = ret /\ k[c] \in 1 .. ret[c] /\ ret[c] \in 1 .. BufSize /\ thread[c] = "out"
          /\ \/ k[c] < ret[c] /\ k' = [k EXCEPT ![c] = k[c] + 1] /\ thread' = thread
             \/ k' = [k EXCEPT ![c] = 1] /\ thread' = [thread EXCEPT ![c] = "read"]
      BY <2>3 DEF CopyOut, In, ThreadInv, Copying
    <3>2. /\ ret \in [Clients -> 0 .. BufSize] /\ k \in [Clients -> 0 .. BufSize]
          /\ thread \in [Clients -> {"none", "read", "in", "out", "closed", "leaked"}]
      BY DEF TypeOK
    <3>3. CASE k[c] < ret[c] /\ k' = [k EXCEPT ![c] = k[c] + 1] /\ thread' = thread
      BY <3>1, <3>2, <3>3
    <3>4. CASE k' = [k EXCEPT ![c] = 1] /\ thread' = [thread EXCEPT ![c] = "read"]
      BY <3>1, <3>2, <3>4
    <3> QED BY <3>1, <3>3, <3>4
  <2>4. CASE WriteFails(c)
    BY <2>4 DEF WriteFails, In, TypeOK, ThreadInv, Copying
  <2>5. CASE ReadEnds(c) \/ ReadFails(c)
    BY <2>5 DEF ReadEnds, ReadFails, TypeOK
  <2> QED BY <2>1, <2>2, <2>3, <2>4, <2>5 DEF ThreadSteps, ThreadRuns, ThreadFails
<1>7. TypeOK'
  BY <1>1, <1>4, <1>6 DEF TypeOK, mainVars, Listening
<1>8. ThreadInv'
  BY <1>1, <1>4, <1>6 DEF ThreadInv, Copying
<1>9. WireInv'
  <2>1. CASE CopyIn(c)
    <3>1. \A n \in 1 .. Len(wire[c]) - 1 : Tail(wire[c])[n] = wire[c][n + 1]
      BY <2>1, CopyInStep
    <3>2. wire'[c] = Tail(wire[c]) /\ Len(wire'[c]) = Len(wire[c]) - 1 /\ Len(wire[c]) \in Nat
      <4>1. wire \in [Clients -> Seq(Byte)] /\ wire' = [wire EXCEPT ![c] = Tail(wire[c])]
        BY <2>1, CopyInStep DEF TypeOK
      <4>2. wire'[c] = Tail(wire[c]) /\ wire[c] \in Seq(Byte)
        BY <4>1
      <4> QED BY <2>1, <4>2, CopyInStep
    <3>3. \A n \in 1 .. Len(wire[c]) : wire[c][n].from = c
      BY DEF WireInv
    <3>4. \A n \in 1 .. Len(wire'[c]) : wire'[c][n].from = c
      BY <3>1, <3>2, <3>3
    <3> QED BY <1>4, <3>4 DEF WireInv
  <2>2. CASE Read(c) \/ CopyOut(c) \/ ReadEnds(c) \/ WriteFails(c) \/ ReadFails(c)
    BY <2>2 DEF Read, CopyOut, ReadEnds, WriteFails, ReadFails, WireInv, clientVars
  <2> QED BY <2>1, <2>2 DEF ThreadSteps, ThreadRuns, ThreadFails
<1> QED BY <1>2, <1>3, <1>5, <1>7, <1>8, <1>9 DEF QueueInv

ClientSteps(c) == Connect(c) \/ SendByte(c) \/ Leave(c)

\* A connection joins one backlog, and joins it once.
LEMMA ConnectPlace ==
  ASSUME PlaceInv, NEW c \in Clients, Connect(c) PROVE PlaceInv'
<1> USE DEF PlaceInv
<1>1. PICK a \in Bound : backlog' = [backlog EXCEPT ![a] = Append(@, c)]
  BY DEF Connect
<1>2. /\ a \in Listening /\ client[c] = "none" /\ thread[c] = "none"
      /\ UNCHANGED <<mainVars, threadVars, wire>>
      /\ client' = [client EXCEPT ![c] = "connected"]
  BY <1>1, BoundTried DEF Connect, UnservedInv
<1>3. /\ backlog \in [Listening -> Seq(Clients)] /\ backlog' \in [Listening -> Seq(Clients)]
      /\ backlog'[a] = Append(backlog[a], c)
      /\ \A b \in Listening \ {a} : backlog'[b] = backlog[b]
  BY <1>1, <1>2 DEF TypeOK
<1>4. \A b \in Listening : /\ Len(backlog[b]) \in Nat
                          /\ \A m \in 1 .. Len(backlog[b]) : backlog[b][m] \in Clients \ {c}
  <2> SUFFICES ASSUME NEW b \in Listening
               PROVE  /\ Len(backlog[b]) \in Nat
                      /\ \A m \in 1 .. Len(backlog[b]) : backlog[b][m] \in Clients \ {c}
    OBVIOUS
  <2>1. backlog[b] \in Seq(Clients)
    BY <1>3
  <2> QED BY <2>1, <1>2 DEF QueueInv, WaitsInv
<1>5. \A b \in Listening : \A m \in 1 .. Len(backlog'[b]) :
        \/ m \in 1 .. Len(backlog[b]) /\ backlog'[b][m] = backlog[b][m]
        \/ b = a /\ m = Len(backlog[a]) + 1 /\ backlog'[b][m] = c
  <2> SUFFICES ASSUME NEW b \in Listening, NEW m \in 1 .. Len(backlog'[b])
               PROVE  \/ m \in 1 .. Len(backlog[b]) /\ backlog'[b][m] = backlog[b][m]
                      \/ b = a /\ m = Len(backlog[a]) + 1 /\ backlog'[b][m] = c
    OBVIOUS
  <2>1. backlog[b] \in Seq(Clients)
    BY <1>3
  <2>2. CASE b = a
    BY <2>1, <2>2, <1>3
  <2>3. CASE b # a
    BY <2>3, <1>3
  <2> QED BY <2>2, <2>3
<1>6. TypeOK' /\ SocketInv'
  BY <1>2, <1>3 DEF TypeOK, SocketInv, mainVars, threadVars, Connect, Listening
<1>7. ReadyInv'
  <2> SUFFICES ASSUME pc = "accept", NEW b \in ready PROVE backlog'[b] # <<>>
    BY <1>2 DEF ReadyInv, mainVars
  <2>1. b \in Listening /\ backlog[b] # <<>>
    BY DEF QueueInv, ReadyInv, TypeOK
  <2>2. backlog[a] \in Seq(Clients)
    BY <1>2, <1>3
  <2> QED BY <1>3, <2>1, <2>2
<1>8. WaitsInv'
  <2> SUFFICES ASSUME NEW b \in Listening, NEW m \in 1 .. Len(backlog'[b])
               PROVE  client'[backlog'[b][m]] # "none" /\ thread[backlog'[b][m]] = "none"
    BY <1>2 DEF WaitsInv, threadVars
  <2>1. client \in [Clients -> {"none", "connected", "gone"}]
    BY DEF TypeOK
  <2>2. CASE m \in 1 .. Len(backlog[b]) /\ backlog'[b][m] = backlog[b][m]
    <3>1. /\ client[backlog[b][m]] # "none" /\ thread[backlog[b][m]] = "none"
          /\ backlog[b][m] \in Clients \ {c}
      BY <1>4, <2>2 DEF QueueInv, WaitsInv
    <3> QED BY <1>2, <2>1, <2>2, <3>1
  <2>3. CASE backlog'[b][m] = c
    BY <1>2, <2>1, <2>3
  <2> QED BY <1>5, <2>2, <2>3
<1>9. OnceInv'
  <2> SUFFICES ASSUME NEW b \in Listening, NEW d \in Listening,
                      NEW m \in 1 .. Len(backlog'[b]), NEW l \in 1 .. Len(backlog'[d]),
                      backlog'[b][m] = backlog'[d][l]
               PROVE  b = d /\ m = l
    BY DEF OnceInv
  <2>1. \/ m \in 1 .. Len(backlog[b]) /\ backlog'[b][m] = backlog[b][m] /\ backlog'[b][m] # c
        \/ b = a /\ m = Len(backlog[a]) + 1 /\ backlog'[b][m] = c
    BY <1>4, <1>5
  <2>2. \/ l \in 1 .. Len(backlog[d]) /\ backlog'[d][l] = backlog[d][l] /\ backlog'[d][l] # c
        \/ d = a /\ l = Len(backlog[a]) + 1 /\ backlog'[d][l] = c
    BY <1>4, <1>5
  <2>3. CASE backlog'[b][m] = c
    BY <2>1, <2>2, <2>3
  <2>4. CASE backlog'[b][m] # c
    <3>1. m \in 1 .. Len(backlog[b]) /\ l \in 1 .. Len(backlog[d]) /\ backlog[b][m] = backlog[d][l]
      BY <2>1, <2>2, <2>4
    <3> QED BY <3>1 DEF QueueInv, OnceInv
  <2> QED BY <2>3, <2>4
<1>10. UnservedInv' /\ ThreadInv' /\ WireInv'
  BY <1>2 DEF UnservedInv, ThreadInv, WireInv, Copying, threadVars, TypeOK
<1> QED BY <1>6, <1>7, <1>8, <1>9, <1>10 DEF QueueInv

LEMMA SentType == ASSUME TypeOK, NEW c \in Clients PROVE Sent(c) \in Nat
<1>1. taken[c] \in Seq(Byte) /\ wire[c] \in Seq(Byte)
  BY DEF TypeOK
<1>2. Len(taken[c]) \in Nat /\ Len(wire[c]) \in Nat
  BY <1>1
<1>3. \A a, b \in Nat : a + b \in Nat
  OBVIOUS
<1>4. Len(taken[c]) + Len(wire[c]) \in Nat
  BY <1>2, <1>3, Zenon
<1> QED BY <1>4 DEF Sent

LEMMA ClientPlace ==
  ASSUME PlaceInv, NEW c \in Clients, ClientSteps(c) PROVE PlaceInv'
<1> USE EchoAssumption DEF PlaceInv
<1>1. CASE SendByte(c)
  <2> DEFINE byte == [from |-> c, n |-> Sent(c) + 1]
  <2>1. wire[c] \in Seq(Byte) /\ taken[c] \in Seq(Byte)
    BY DEF TypeOK
  <2>2. byte \in Byte
    <3>1. Sent(c) \in Nat /\ Sent(c) < MaxBytes
      BY <1>1, SentType DEF SendByte
    <3>2. Sent(c) + 1 \in 1 .. MaxBytes
      BY <3>1
    <3> QED BY <3>2 DEF Byte
  <2>3. /\ wire' = [wire EXCEPT ![c] = Append(@, byte)]
        /\ UNCHANGED <<proc, mainVars, threadVars, backlog, client>>
        /\ client[c] = "connected"
    BY <1>1 DEF SendByte
  <2> HIDE DEF byte
  <2>4. /\ Append(wire[c], byte) \in Seq(Byte) /\ Len(Append(wire[c], byte)) = Len(wire[c]) + 1
        /\ \A n \in 1 .. Len(wire[c]) : Append(wire[c], byte)[n] = wire[c][n]
        /\ Append(wire[c], byte)[Len(wire[c]) + 1] = byte
    BY <2>1, <2>2
  <2>5. /\ wire' \in [Clients -> Seq(Byte)] /\ wire'[c] = Append(wire[c], byte)
        /\ \A d \in Clients \ {c} : wire'[d] = wire[d]
    BY <2>3, <2>4 DEF TypeOK
  <2>6. TypeOK' /\ SocketInv' /\ QueueInv'
    <3>1. TypeOK'
      BY <2>3, <2>5 DEF TypeOK, mainVars, threadVars, Listening
    <3>2. SocketInv' /\ ReadyInv'
      BY <2>3 DEF SocketInv, QueueInv, ReadyInv, mainVars
    <3>3. WaitsInv' /\ OnceInv'
      BY <2>3 DEF QueueInv, WaitsInv, OnceInv, threadVars
    <3> QED BY <3>1, <3>2, <3>3 DEF QueueInv
  <2>7. UnservedInv' /\ ThreadInv'
    <3>1. Len(wire[c]) \in Nat /\ ret \in [Clients -> 0 .. BufSize] /\ k \in [Clients -> 0 .. BufSize]
      BY <2>1 DEF TypeOK
    <3> QED BY <2>3, <2>4, <2>5, <3>1 DEF UnservedInv, ThreadInv, Copying, threadVars
  <2>8. WireInv'
    <3>1. byte.from = c
      BY DEF byte
    <3>2. \A n \in 1 .. Len(wire'[c]) : wire'[c][n].from = c
      BY <2>1, <2>4, <2>5, <3>1 DEF WireInv
    <3> QED BY <2>5, <3>2 DEF WireInv
  <2> QED BY <2>6, <2>7, <2>8
<1>2. CASE Leave(c)
  <2>1. /\ UNCHANGED <<proc, mainVars, threadVars, backlog, wire>>
        /\ client' = [client EXCEPT ![c] = "gone"] /\ client[c] = "connected"
        /\ client \in [Clients -> {"none", "connected", "gone"}]
        /\ \A d \in Clients : (client'[d] = "none") = (client[d] = "none")
    BY <1>2 DEF Leave, TypeOK
  <2>2. TypeOK' /\ SocketInv' /\ ReadyInv' /\ OnceInv'
    <3>1. TypeOK'
      BY <2>1 DEF TypeOK, mainVars, threadVars, Listening
    <3>2. SocketInv' /\ ReadyInv' /\ OnceInv'
      BY <2>1 DEF SocketInv, QueueInv, ReadyInv, OnceInv, mainVars
    <3> QED BY <3>1, <3>2
  <2>3. WaitsInv'
    <3> SUFFICES ASSUME NEW a \in Listening, NEW m \in 1 .. Len(backlog[a])
                 PROVE  client'[backlog[a][m]] # "none" /\ thread[backlog[a][m]] = "none"
      BY <2>1 DEF WaitsInv, threadVars
    <3>1. backlog[a] \in Seq(Clients)
      BY DEF TypeOK
    <3>2. /\ backlog[a][m] \in Clients
          /\ client[backlog[a][m]] # "none" /\ thread[backlog[a][m]] = "none"
      BY <3>1 DEF QueueInv, WaitsInv
    <3> QED BY <2>1, <3>2
  <2>4. UnservedInv' /\ ThreadInv' /\ WireInv'
    BY <2>1 DEF UnservedInv, ThreadInv, WireInv, Copying, threadVars
  <2> QED BY <2>2, <2>3, <2>4 DEF QueueInv
<1> QED BY <1>1, <1>2, ConnectPlace DEF ClientSteps

LEMMA PlaceStep == PlaceInv /\ [Next]_vars => PlaceInv'
<1> SUFFICES ASSUME PlaceInv, [Next]_vars PROVE PlaceInv'
  OBVIOUS
<1>1. CASE UNCHANGED vars
  BY <1>1 DEF vars, mainVars, threadVars, clientVars, PlaceInv, TypeOK, SocketInv, QueueInv,
     ReadyInv, WaitsInv, OnceInv, UnservedInv, ThreadInv, WireInv, Copying, Listening
<1>2. CASE MainSteps
  BY <1>2, MainPlace
<1>3. CASE Accept
  BY <1>3, AcceptPlace
<1>4. CASE \E c \in Clients : ThreadSteps(c)
  BY <1>4, ThreadPlace
<1>5. CASE \E c \in Clients : ClientSteps(c)
  BY <1>5, ClientPlace
<1> QED BY <1>1, <1>2, <1>3, <1>4, <1>5 DEF Next, MainRuns, MainSteps, ThreadSteps, ClientSteps

LEMMA PlaceInvariance == Spec => []PlaceInv
BY InitPlace, PlaceStep, PTL DEF Spec

\* Every variable keeps its type; a copy never leaves the buffer (socket.c:470-488).
THEOREM EchoTyping == Spec => []TypeOK
<1>1. PlaceInv => TypeOK
  BY DEF PlaceInv
<1> QED BY <1>1, PlaceInvariance, PTL

\* sockets[0] tells whether any address could be bound, and the accept loop
\* sees only bound sockets, whichever addresses fail (socket.c:524-605).
THEOREM OnlyBoundSockets == Spec => []SocketsValid
<1>1. PlaceInv => SocketsValid
  <2> SUFFICES ASSUME PlaceInv PROVE SocketsValid
    OBVIOUS
  <2>1. numsockets \in Nat /\ tried \in Nat /\ Bound \subseteq 1 .. tried
    BY BoundTried, EchoAssumption DEF PlaceInv, TypeOK
  <2>2. numsockets # 0 => sockets[1] \in 1 .. tried
    BY <2>1 DEF PlaceInv, SocketInv
  <2> QED BY <2>1, <2>2 DEF PlaceInv, SocketInv, SocketsValid
<1> QED BY <1>1, PlaceInvariance, PTL

-----------------------------------------------------------------------------
(* What the threads share.                                                 *)

LEMMA InitShare == Init => ShareInv /\ AloneInv
<1> SUFFICES ASSUME Init PROVE ShareInv /\ AloneInv
  OBVIOUS
<1>1. \A c \in Clients : thread[c] = "none" /\ echoed[c] = <<>>
  BY DEF Init
<1> QED BY <1>1 DEF ShareInv, MetInv, BufferInv, OnlyMetData, AloneInv, Alone, Exact, Alive

\* Only an accept adds to what a connection has met, and only threads use the buffer.
LEMMA StillShare ==
  ASSUME ShareInv, AloneInv, UNCHANGED threadVars PROVE ShareInv' /\ AloneInv'
<1> USE DEF threadVars
<1>1. MetInv' /\ OnlyMetData'
  BY DEF ShareInv, MetInv, OnlyMetData, Alive
<1>2. BufferInv'
  BY DEF ShareInv, BufferInv
<1>3. AloneInv'
  BY DEF AloneInv, Alone, Exact
<1> QED BY <1>1, <1>2, <1>3 DEF ShareInv

LEMMA AcceptShare ==
  ASSUME PlaceInv, ShareInv, AloneInv, Accept PROVE ShareInv' /\ AloneInv'
<1>1. ASSUME NEW a \in ready, Takes(a) PROVE ShareInv' /\ AloneInv'
  <2>1. PICK c \in Clients :
          /\ c = Head(backlog[a]) /\ thread[c] = "none"
          /\ taken[c] = <<>> /\ echoed[c] = <<>> /\ met[c] = {}
    BY TakenOnce DEF Accept
  <2>2. /\ UNCHANGED <<ret, k, buf, taken, echoed>>
        /\ thread \in [Clients -> {"none", "read", "in", "out", "closed", "leaked"}]
        /\ \/ thread' = [thread EXCEPT ![c] = "read"] /\ Meets(c)
           \/ thread' = [thread EXCEPT ![c] = "leaked"] /\ UNCHANGED met
    BY <1>1, <2>1 DEF Takes, PlaceInv, TypeOK
  <2>3. /\ thread'[c] \in {"read", "leaked"}
        /\ \A d \in Clients \ {c} : thread'[d] = thread[d]
    BY <2>1, <2>2
  <2>4. \A d \in Clients \ {c} : met[d] \subseteq met'[d]
    BY <2>2 DEF Meets
  <2>5. MetInv'
    <3>1. CASE thread'[c] = "leaked"
      <4>1. UNCHANGED met
        BY <2>1, <2>2, <3>1
      <4>2. \A d \in Clients : Alive(d)' => Alive(d) /\ d # c
        BY <2>3, <3>1 DEF Alive
      <4> QED BY <4>1, <4>2 DEF ShareInv, MetInv
    <3>2. CASE thread'[c] = "read"
      <4>1. met' = [d \in Clients |-> IF d = c THEN {e \in Clients \ {c} : Alive(e)}
                                     ELSE met[d] \cup {e \in {c} : Alive(d)}]
        BY <2>1, <2>2, <3>2 DEF Meets
      <4>2. \A d \in Clients \ {c} : Alive(d)' = Alive(d)
        BY <2>3 DEF Alive
      <4>3. \A d \in Clients \ {c} : Alive(d) => c \in met'[d] /\ d \in met'[c]
        BY <4>1, <2>1
      <4> QED BY <2>4, <4>2, <4>3 DEF ShareInv, MetInv
    <3> QED BY <2>3, <3>1, <3>2
  <2>6. BufferInv'
    BY <2>2, <2>3, <2>4 DEF ShareInv, BufferInv
  <2>7. OnlyMetData'
    BY <2>1, <2>2, <2>4 DEF ShareInv, OnlyMetData
  <2>8. AloneInv'
    <3>1. Exact(c)' /\ Alone(c)'
      <4>1. taken'[c] = <<>> /\ echoed'[c] = <<>> /\ DOMAIN <<>> = {}
        BY <2>1, <2>2
      <4> QED BY <2>3, <4>1 DEF Exact, Alone
    <3>2. ASSUME NEW d \in Clients \ {c}, met'[d] = {} PROVE Exact(d)' /\ Alone(d)'
      <4>1. Exact(d) /\ Alone(d)
        BY <2>4, <3>2 DEF AloneInv
      <4> QED BY <2>2, <2>3, <4>1 DEF Exact, Alone
    <3> QED BY <3>1, <3>2 DEF AloneInv
  <2> QED BY <2>5, <2>6, <2>7, <2>8 DEF ShareInv
<1> QED BY <1>1, AcceptCases, StillShare

\* A thread that fills the buffer is met by every other that uses it.
LEMMA ThreadShare ==
  ASSUME PlaceInv, ShareInv, NEW c \in Clients, ThreadSteps(c) PROVE ShareInv'
<1>1. /\ UNCHANGED met /\ thread[c] \in {"read", "in", "out"}
      /\ thread'[c] \in {"read", "in", "out", "closed"}
      /\ \A d \in Clients \ {c} : thread'[d] = thread[d] /\ ret'[d] = ret[d] /\ k'[d] = k[d]
      /\ \A d \in Clients \ {c} : echoed'[d] = echoed[d]
  BY ThreadMoves, ThreadTouches DEF PlaceInv
<1>2. MetInv'
  BY <1>1 DEF ShareInv, MetInv, Alive
<1>3. CASE CopyIn(c)
  <2>1. /\ UNCHANGED <<ret, echoed>> /\ thread[c] = "in"
        /\ buf' = [buf EXCEPT ![k[c]] = Head(wire[c])] /\ Head(wire[c]).from = c
        /\ k[c] \in 1 .. ret[c] /\ ret[c] \in 1 .. BufSize
        /\ buf \in [1 .. BufSize -> Byte \cup {NoByte}]
        /\ k \in [Clients -> 0 .. BufSize] /\ BufSize \in Nat
        /\ \/ k[c] < ret[c] /\ k'[c] = k[c] + 1 /\ thread'[c] = "in"
           \/ k[c] = ret[c] /\ thread'[c] = "out"
    <3>1. /\ k[c] \in 1 .. ret[c] /\ ret[c] \in 1 .. BufSize
          /\ buf' = [buf EXCEPT ![k[c]] = Head(wire[c])] /\ Head(wire[c]).from = c
      BY <1>3, CopyInStep
    <3>2. /\ buf \in [1 .. BufSize -> Byte \cup {NoByte}]
          /\ k \in [Clients -> 0 .. BufSize] /\ BufSize \in Nat
          /\ thread \in [Clients -> {"none", "read", "in", "out", "closed", "leaked"}]
      BY EchoAssumption DEF PlaceInv, TypeOK
    <3>3. \/ k[c] < ret[c] /\ k'[c] = k[c] + 1 /\ thread'[c] = "in"
          \/ k[c] = ret[c] /\ thread'[c] = "out"
      BY <1>3, <3>1, <3>2 DEF CopyIn, In
    <3> QED BY <1>3, <3>1, <3>2, <3>3 DEF CopyIn, In
  <2>2. \A j \in 1 .. BufSize : buf'[j].from = c \/ (buf'[j] = buf[j] /\ j # k[c])
    BY <2>1
  <2>3. \A d \in Clients \ {c} : thread[d] \in {"in", "out"} => c \in met[d]
    BY <1>1 DEF ShareInv, MetInv, Alive
  <2>4. \A d \in Clients \ {c} : Copying(d) => ret[d] \in 1 .. BufSize /\ k[d] \in 1 .. ret[d]
    BY DEF PlaceInv, ThreadInv
  <2>5. ASSUME NEW d \in Clients \ {c}
        PROVE  /\ thread'[d] = "in" => \A j \in 1 .. k'[d] - 1 : buf'[j].from \in {d} \cup met[d]
               /\ thread'[d] = "out" => \A j \in 1 .. ret'[d] : buf'[j].from \in {d} \cup met[d]
    <3>1. thread'[d] = thread[d] /\ ret'[d] = ret[d] /\ k'[d] = k[d]
      BY <1>1
    <3>2. ASSUME NEW j \in 1 .. BufSize, Copying(d), buf[j].from \in {d} \cup met[d]
          PROVE  buf'[j].from \in {d} \cup met[d]
      <4>1. c \in met[d]
        BY <2>3, <3>2 DEF Copying
      <4> QED BY <2>2, <3>2, <4>1
    <3>3. CASE thread[d] = "in"
      <4>1. Copying(d) /\ thread'[d] = "in"
        BY <3>1, <3>3 DEF Copying
      <4>2. \A j \in 1 .. k[d] - 1 : j \in 1 .. BufSize
        BY <2>1, <2>4, <4>1
      <4>3. \A j \in 1 .. k[d] - 1 : buf[j].from \in {d} \cup met[d]
        BY <3>3 DEF ShareInv, BufferInv
      <4>4. \A j \in 1 .. k[d] - 1 : buf'[j].from \in {d} \cup met[d]
        BY <3>2, <4>1, <4>2, <4>3
      <4> QED BY <3>1, <3>3, <4>4
    <3>4. CASE thread[d] = "out"
      <4>1. Copying(d) /\ thread'[d] = "out"
        BY <3>1, <3>4 DEF Copying
      <4>2. \A j \in 1 .. ret[d] : j \in 1 .. BufSize
        BY <2>1, <2>4, <4>1
      <4>3. \A j \in 1 .. ret[d] : buf[j].from \in {d} \cup met[d]
        BY <3>4 DEF ShareInv, BufferInv
      <4>4. \A j \in 1 .. ret[d] : buf'[j].from \in {d} \cup met[d]
        BY <3>2, <4>1, <4>2, <4>3
      <4> QED BY <3>1, <3>4, <4>4
    <3> QED BY <3>1, <3>3, <3>4
  <2>6. /\ thread'[c] = "in" => \A j \in 1 .. k'[c] - 1 : buf'[j].from \in {c} \cup met[c]
        /\ thread'[c] = "out" => \A j \in 1 .. ret'[c] : buf'[j].from \in {c} \cup met[c]
    BY <2>1, <2>2 DEF ShareInv, BufferInv
  <2>7. BufferInv'
    BY <1>1, <2>5, <2>6 DEF BufferInv
  <2>8. OnlyMetData'
    BY <1>1, <2>1 DEF ShareInv, OnlyMetData
  <2> QED BY <1>2, <2>7, <2>8 DEF ShareInv
<1>4. CASE CopyOut(c)
  <2>1. /\ UNCHANGED <<ret, buf>> /\ thread[c] = "out" /\ thread'[c] \in {"out", "read"}
        /\ echoed' = [echoed EXCEPT ![c] = Append(@, buf[k[c]])]
        /\ k[c] \in 1 .. ret[c]
    BY <1>4 DEF CopyOut, In, PlaceInv, TypeOK, ThreadInv, Copying
  <2>2. BufferInv'
    BY <1>1, <2>1 DEF ShareInv, BufferInv
  <2>3. buf[k[c]].from \in {c} \cup met[c]
    BY <2>1 DEF ShareInv, BufferInv
  <2>4. echoed \in [Clients -> Seq(Byte \cup {NoByte})] /\ echoed[c] \in Seq(Byte \cup {NoByte})
    BY DEF PlaceInv, TypeOK
  <2>5. \A n \in DOMAIN echoed'[c] : echoed'[c][n] = buf[k[c]]
                                    \/ (n \in DOMAIN echoed[c] /\ echoed'[c][n] = echoed[c][n])
    BY <2>1, <2>4
  <2>6. OnlyMetData'
    BY <1>1, <2>3, <2>5 DEF ShareInv, OnlyMetData
  <2> QED BY <1>2, <2>2, <2>6 DEF ShareInv
<1>5. CASE Read(c)
  <2>1. /\ UNCHANGED <<buf, echoed>> /\ thread'[c] = "in" /\ k'[c] = 1
    BY <1>5 DEF Read, PlaceInv, TypeOK
  <2>2. BufferInv'
    BY <1>1, <2>1 DEF ShareInv, BufferInv
  <2>3. OnlyMetData'
    BY <1>1, <2>1 DEF ShareInv, OnlyMetData
  <2> QED BY <1>2, <2>2, <2>3 DEF ShareInv
<1>6. CASE ReadEnds(c) \/ WriteFails(c) \/ ReadFails(c)
  <2>1. UNCHANGED <<ret, k, buf, echoed>> /\ \A d \in Clients : thread'[d] \in {thread[d], "closed"}
    BY <1>6 DEF ReadEnds, WriteFails, ReadFails, PlaceInv, TypeOK
  <2>2. BufferInv'
    BY <1>1, <2>1 DEF ShareInv, BufferInv
  <2>3. OnlyMetData'
    BY <1>1, <2>1 DEF ShareInv, OnlyMetData
  <2> QED BY <1>2, <2>2, <2>3 DEF ShareInv
<1> QED BY <1>3, <1>4, <1>5, <1>6 DEF ThreadSteps, ThreadRuns, ThreadFails

\* The copy of a thread that meets nobody carries what was read behind what was
\* written; a thread that is being disturbed has met the one that disturbs it.
LEMMA ThreadAlone ==
  ASSUME PlaceInv, ShareInv, AloneInv, NEW c \in Clients, ThreadSteps(c) PROVE AloneInv'
<1> DEFINE Bytes == Byte \cup {NoByte}
<1>1. /\ UNCHANGED met /\ thread[c] \in {"read", "in", "out"}
      /\ \A d \in Clients \ {c} :
           /\ thread'[d] = thread[d] /\ ret'[d] = ret[d] /\ k'[d] = k[d]
           /\ echoed'[d] = echoed[d] /\ taken'[d] = taken[d]
      /\ buf' = buf \/ CopyIn(c)
  BY ThreadMoves, ThreadTouches DEF PlaceInv
<1>2. ASSUME NEW d \in Clients \ {c}, met[d] = {} PROVE Exact(d)' /\ Alone(d)'
  <2>1. Exact(d) /\ Alone(d)
    BY <1>2 DEF AloneInv
  <2>2. CASE buf' = buf
    BY <1>1, <2>1, <2>2 DEF Exact, Alone
  <2>3. CASE CopyIn(c)
    <3>1. thread[d] \notin {"in", "out"}
      BY <1>1, <1>2 DEF ShareInv, MetInv, Alive
    <3> QED BY <1>1, <2>1, <3>1 DEF Exact, Alone
  <2> QED BY <1>1, <2>2, <2>3
<1>3. ASSUME met[c] = {} PROVE Exact(c)' /\ Alone(c)'
  <2>1. /\ taken[c] \in Seq(Byte) /\ echoed[c] \in Seq(Bytes)
        /\ Len(taken[c]) \in Nat /\ Len(echoed[c]) \in Nat /\ DOMAIN echoed[c] = 1 .. Len(echoed[c])
        /\ k[c] \in Nat /\ ret[c] \in Nat /\ BufSize \in Nat
        /\ ret \in [Clients -> 0 .. BufSize] /\ k \in [Clients -> 0 .. BufSize]
        /\ thread \in [Clients -> {"none", "read", "in", "out", "closed", "leaked"}]
        /\ buf \in [1 .. BufSize -> Bytes]
    <3>1. taken[c] \in Seq(Byte) /\ echoed[c] \in Seq(Bytes)
      BY DEF PlaceInv, TypeOK
    <3>2. Len(taken[c]) \in Nat /\ Len(echoed[c]) \in Nat /\ DOMAIN echoed[c] = 1 .. Len(echoed[c])
      BY <3>1
    <3> QED BY <3>1, <3>2, EchoAssumption DEF PlaceInv, TypeOK
  <2>2. /\ \A n \in 1 .. Len(echoed[c]) : n <= Len(taken[c]) /\ echoed[c][n] = taken[c][n]
        /\ thread[c] = "read" => Len(echoed[c]) = Len(taken[c])
        /\ Alone(c)
    BY <1>3, <2>1 DEF AloneInv, Exact
  <2>3. CASE Read(c)
    <3>1. /\ UNCHANGED <<buf, taken, echoed>> /\ thread'[c] = "in" /\ k'[c] = 1
          /\ Len(echoed[c]) = Len(taken[c])
      BY <2>1, <2>2, <2>3 DEF Read, In
    <3> QED BY <2>1, <2>2, <3>1 DEF Exact, Alone
  <2>4. CASE ReadEnds(c) \/ WriteFails(c) \/ ReadFails(c)
    <3>1. UNCHANGED <<ret, k, buf, taken, echoed>> /\ thread'[c] \in {thread[c], "closed"}
      BY <2>1, <2>4 DEF ReadEnds, WriteFails, ReadFails
    <3> QED BY <2>1, <2>2, <3>1 DEF Exact, Alone
  <2>5. CASE CopyIn(c)
    <3> DEFINE byte == Head(wire[c])
    <3>1. /\ UNCHANGED <<ret, echoed>> /\ thread[c] = "in"
          /\ buf' = [buf EXCEPT ![k[c]] = byte] /\ byte \in Byte
          /\ taken'[c] = Append(taken[c], byte)
          /\ k[c] \in 1 .. ret[c] /\ k[c] \in 1 .. BufSize
          /\ \/ k[c] < ret[c] /\ k'[c] = k[c] + 1 /\ thread'[c] = "in"
             \/ k[c] = ret[c] /\ k'[c] = 1 /\ thread'[c] = "out"
      <4>1. /\ k[c] \in 1 .. ret[c] /\ k[c] \in 1 .. BufSize /\ byte \in Byte
            /\ taken' = [taken EXCEPT ![c] = Append(@, byte)]
        BY <2>5, CopyInStep
      <4>2. taken'[c] = Append(taken[c], byte)
        BY <4>1 DEF PlaceInv, TypeOK
      <4>3. \/ k[c] < ret[c] /\ k'[c] = k[c] + 1 /\ thread'[c] = "in"
            \/ k[c] = ret[c] /\ k'[c] = 1 /\ thread'[c] = "out"
        BY <2>1, <2>5, <4>1 DEF CopyIn, In
      <4> QED BY <2>5, <4>1, <4>2, <4>3 DEF CopyIn, In
    <3> HIDE DEF byte
    <3>2. /\ Len(taken'[c]) = Len(taken[c]) + 1
          /\ \A n \in 1 .. Len(taken[c]) : taken'[c][n] = taken[c][n]
          /\ taken'[c][Len(taken[c]) + 1] = byte
      BY <2>1, <3>1
    <3>3. /\ Len(taken[c]) = Len(echoed[c]) + k[c] - 1
          /\ \A j \in 1 .. k[c] - 1 : buf[j] = taken[c][Len(echoed[c]) + j]
      BY <2>2, <3>1 DEF Alone
    <3>4. Exact(c)'
      <4>1. \A n \in 1 .. Len(echoed[c]) : n \in 1 .. Len(taken[c]) /\ n <= Len(taken[c]) + 1
        BY <2>1, <2>2
      <4>2. \A n \in 1 .. Len(echoed[c]) : n <= Len(taken'[c]) /\ echoed[c][n] = taken'[c][n]
        BY <2>2, <3>2, <4>1
      <4>3. thread'[c] # "read" /\ echoed' = echoed
        BY <3>1
      <4> QED BY <2>1, <4>2, <4>3 DEF Exact
    <3>5. \A j \in 1 .. k[c] : buf'[j] = taken'[c][Len(echoed[c]) + j]
      <4> SUFFICES ASSUME NEW j \in 1 .. k[c] PROVE buf'[j] = taken'[c][Len(echoed[c]) + j]
        OBVIOUS
      <4>1. CASE j = k[c]
        BY <2>1, <3>1, <3>2, <3>3, <4>1
      <4>2. CASE j \in 1 .. k[c] - 1
        <5>1. buf'[j] = buf[j] /\ Len(echoed[c]) + j \in 1 .. Len(taken[c])
          BY <2>1, <3>1, <3>3, <4>2
        <5> QED BY <3>2, <3>3, <4>2, <5>1
      <4> QED BY <2>1, <4>1, <4>2
    <3>6. Alone(c)'
      <4>1. CASE k[c] < ret[c] /\ k'[c] = k[c] + 1 /\ thread'[c] = "in"
        <5>1. Len(taken'[c]) = Len(echoed[c]) + k'[c] - 1 /\ k'[c] - 1 = k[c]
          <6>1. /\ k[c] \in Nat /\ Len(taken[c]) \in Nat /\ Len(echoed[c]) \in Nat
                /\ Len(taken'[c]) = Len(taken[c]) + 1
            BY <2>1, <3>2
          <6>2. Len(taken[c]) = Len(echoed[c]) + k[c] - 1
            BY <3>3
          <6> QED BY <4>1, <6>1, <6>2
        <5> QED BY <3>1, <3>5, <4>1, <5>1 DEF Alone
      <4>2. CASE k[c] = ret[c] /\ k'[c] = 1 /\ thread'[c] = "out"
        <5>1. Len(taken'[c]) = Len(echoed[c]) + ret[c] - k'[c] + 1
          <6>1. /\ k[c] \in Nat /\ Len(taken[c]) \in Nat /\ Len(echoed[c]) \in Nat
                /\ Len(taken'[c]) = Len(taken[c]) + 1
            BY <2>1, <3>2
          <6>2. Len(taken[c]) = Len(echoed[c]) + k[c] - 1
            BY <3>3
          <6> QED BY <4>2, <6>1, <6>2
        <5>2. Len(taken'[c]) - ret[c] = Len(echoed[c])
          BY SMTT(60), <2>1, <4>2, <5>1
        <5>3. \A j \in 1 .. ret[c] : buf'[j] = taken'[c][Len(taken'[c]) - ret[c] + j]
          BY <3>5, <4>2, <5>2
        <5> QED BY <3>1, <4>2, <5>1, <5>3 DEF Alone
      <4> QED BY <3>1, <4>1, <4>2
    <3> QED BY <3>4, <3>6
  <2>6. CASE CopyOut(c)
    <3> DEFINE byte == buf[k[c]]
    <3>1. /\ UNCHANGED <<ret, buf, taken>> /\ thread[c] = "out"
          /\ echoed'[c] = Append(echoed[c], byte)
          /\ k[c] \in 1 .. ret[c] /\ k[c] \in 1 .. BufSize /\ byte \in Bytes
          /\ \/ k[c] < ret[c] /\ k'[c] = k[c] + 1 /\ thread'[c] = "out"
             \/ k[c] = ret[c] /\ thread'[c] = "read"
      <4>1. /\ k[c] \in 1 .. ret[c] /\ ret[c] \in 1 .. BufSize
            /\ echoed' = [echoed EXCEPT ![c] = Append(@, byte)]
        BY <2>6 DEF CopyOut, In, PlaceInv, ThreadInv, Copying
      <4>2. echoed'[c] = Append(echoed[c], byte) /\ k[c] \in 1 .. BufSize /\ byte \in Bytes
        BY <2>1, <4>1 DEF PlaceInv, TypeOK
      <4>3. \/ k[c] < ret[c] /\ k'[c] = k[c] + 1 /\ thread'[c] = "out"
            \/ k[c] = ret[c] /\ thread'[c] = "read"
        BY <2>1, <2>6, <4>1 DEF CopyOut, In
      <4> QED BY <2>6, <4>1, <4>2, <4>3 DEF CopyOut, In
    <3> HIDE DEF byte
    <3>2. /\ Len(echoed'[c]) = Len(echoed[c]) + 1 /\ DOMAIN echoed'[c] = 1 .. Len(echoed[c]) + 1
          /\ \A n \in 1 .. Len(echoed[c]) : echoed'[c][n] = echoed[c][n]
          /\ echoed'[c][Len(echoed[c]) + 1] = byte
      BY <2>1, <3>1
    <3>3. /\ Len(taken[c]) = Len(echoed[c]) + ret[c] - k[c] + 1
          /\ \A j \in k[c] .. ret[c] : buf[j] = taken[c][Len(taken[c]) - ret[c] + j]
      BY <2>2, <3>1 DEF Alone
    <3>4. /\ Len(echoed[c]) + 1 <= Len(taken[c]) /\ byte = taken[c][Len(echoed[c]) + 1]
          /\ k[c] = ret[c] => Len(echoed[c]) + 1 = Len(taken[c])
      <4>1. PICK e, t, r, x \in Nat :
              e = Len(echoed[c]) /\ t = Len(taken[c]) /\ r = ret[c] /\ x = k[c]
        BY <2>1
      <4>2. t = e + r - x + 1 /\ x \in 1 .. r
        BY <3>1, <3>3, <4>1
      <4>3. x \in x .. r /\ t - r + x = e + 1 /\ e + 1 <= t /\ (x = r => e + 1 = t)
        <5>1. e \in Nat /\ t \in Nat /\ r \in Nat /\ x \in Nat
          BY <4>1
        <5>2. x <= r /\ t - r + x = e + 1
          BY <4>2, <5>1
        <5> QED BY <4>2, <5>1, <5>2
      <4>4. byte = taken[c][t - r + x]
        BY <3>3, <4>1, <4>3 DEF byte
      <4> QED BY <4>1, <4>3, <4>4
    <3>5. Exact(c)'
      <4>1. ASSUME NEW n \in 1 .. Len(echoed[c]) + 1
            PROVE  n <= Len(taken[c]) /\ echoed'[c][n] = taken[c][n]
        <5>1. CASE n = Len(echoed[c]) + 1
          BY <3>2, <3>4, <5>1
        <5>2. CASE n # Len(echoed[c]) + 1
          <6>1. n \in 1 .. Len(echoed[c])
            <7>1. Len(echoed[c]) \in Nat
              BY <2>1
            <7> QED BY <5>2, <7>1
          <6> QED BY <2>2, <3>2, <6>1
        <5> QED BY <5>1, <5>2
      <4>2. thread'[c] = "read" => k[c] = ret[c]
        BY <3>1
      <4> QED BY <3>1, <3>2, <3>4, <4>1, <4>2 DEF Exact
    <3>6. Alone(c)'
      <4>1. CASE thread'[c] = "read"
        BY <4>1 DEF Alone
      <4>2. CASE k[c] < ret[c] /\ k'[c] = k[c] + 1 /\ thread'[c] = "out"
        <5>1. Len(taken[c]) = Len(echoed'[c]) + ret[c] - k'[c] + 1
          <6>1. PICK e, t, r, x \in Nat :
                  e = Len(echoed[c]) /\ t = Len(taken[c]) /\ r = ret[c] /\ x = k[c]
            BY <2>1
          <6>2. t = e + r - x + 1
            BY <3>3, <6>1
          <6>3. t = e + 1 + r - (x + 1) + 1
            BY <6>2
          <6> QED BY <3>2, <4>2, <6>1, <6>3
        <5>2. \A j \in k'[c] .. ret[c] : j \in k[c] .. ret[c]
          BY <2>1, <4>2
        <5> QED BY <3>1, <3>3, <4>2, <5>1, <5>2 DEF Alone
      <4> QED BY <3>1, <4>1, <4>2
    <3> QED BY <3>5, <3>6
  <2> QED BY <2>3, <2>4, <2>5, <2>6 DEF ThreadSteps, ThreadRuns, ThreadFails
<1> QED BY <1>1, <1>2, <1>3 DEF AloneInv

LEMMA Invariance == Spec => []IInv
<1>1. IInv /\ [Next]_vars => IInv'
  <2> SUFFICES ASSUME IInv, [Next]_vars, PlaceInv' PROVE ShareInv' /\ AloneInv'
    BY PlaceStep DEF IInv
  <2>1. CASE UNCHANGED threadVars
    BY <2>1, StillShare DEF IInv
  <2>2. CASE Accept
    BY <2>2, AcceptShare DEF IInv
  <2>3. CASE \E c \in Clients : ThreadSteps(c)
    BY <2>3, ThreadShare, ThreadAlone DEF IInv
  <2>4. CASE MainSteps \/ (\E c \in Clients : ClientSteps(c)) \/ UNCHANGED vars
    <3>1. UNCHANGED threadVars
      BY <2>4 DEF MainSteps, NoAddress, Bind, EnterLoop, Select,
         SelectFails, AcceptCrashes, AcceptedAll,
         ClientSteps, Connect, SendByte, Leave, vars
    <3> QED BY <2>1, <3>1
  <2> QED BY <2>2, <2>3, <2>4 DEF Next, MainRuns, MainSteps, ThreadSteps, ClientSteps
<1> QED BY <1>1, InitPlace, InitShare, PTL DEF Spec, IInv

\* However the threads of any number of connections interleave, a client gets
\* only its own bytes and those of connections served at the same time
\* (socket.c:470-490).
THEOREM NoForeignData == Spec => []OnlyMetData
<1>1. IInv => OnlyMetData
  BY DEF IInv, ShareInv
<1> QED BY <1>1, Invariance, PTL

\* A connection that is served alone gets back exactly what it sent
\* (socket.c:466-490).
THEOREM AloneIsExact == Spec => []EchoesData
<1>1. IInv => EchoesData
  BY DEF IInv, AloneInv, EchoesData
<1> QED BY <1>1, Invariance, PTL

=============================================================================
