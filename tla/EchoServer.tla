----------------------------- MODULE EchoServer -----------------------------
(***************************************************************************)
(* The server of the repository (src/server/main.c with the server part of *)
(* src/common/socket.c): main binds one socket per address, the accept     *)
(* loop waits in select and starts one thread per connection, and a thread *)
(* returns what it reads.  All threads use one static buffer, so read and  *)
(* write copy it byte by byte here.  The clients and the network are the   *)
(* environment.                                                            *)
(***************************************************************************)
EXTENDS Integers, Sequences, FiniteSets

CONSTANTS
  Clients,      \* the connections a run may see
  Addresses,    \* addresses getaddrinfo returns
  BufSize,      \* size of buf (512 in the code)
  MaxBytes,     \* bound: bytes a client sends
  Faults        \* the failures the run allows

AllFaults == {"bind", "select", "accept", "memory", "thread", "io"}

ASSUME EchoAssumption ==
  /\ Addresses \in Nat /\ BufSize \in Nat \ {0} /\ MaxBytes \in Nat
  /\ Faults \subseteq AllFaults

Byte == [from : Clients, n : 1 .. MaxBytes]
NoByte == [from |-> "nobody", n |-> 0]
Listening == 1 .. Addresses          \* socket a is bound to address a

VARIABLES
  proc,         \* is the process alive
  pc,           \* main: bind, select, accept, spin
  tried,        \* addresses tried so far
  sockets,      \* sockets[0 .. numsockets - 1], sockets[0] is -1 before that
  numsockets,
  ready,        \* the sockets select reported and the loop has still to look at
  backlog,      \* connections no accept has taken yet, by socket
  thread,       \* by client: none, read, in, out, closed; leaked without a thread
  ret, k,       \* a thread's result of read, and the place of its copy
  buf,          \* the static buffer
  client,       \* none, connected, gone
  wire,         \* bytes sent and not yet read
  taken, echoed,\* history: bytes read from and written to a client
  met           \* history: the connections whose thread lived while one's own did

mainVars == <<pc, tried, sockets, numsockets, ready>>
threadVars == <<thread, ret, k, buf, taken, echoed, met>>
clientVars == <<backlog, client, wire>>
vars == <<proc, mainVars, threadVars, clientVars>>

Init ==
  /\ proc = "running" /\ pc = "bind" /\ tried = 0
  /\ sockets = <<-1>> /\ numsockets = 0 /\ ready = {}
  /\ backlog = [a \in Listening |-> <<>>]
  /\ thread = [c \in Clients |-> "none"]
  /\ ret = [c \in Clients |-> 0] /\ k = [c \in Clients |-> 0]
  /\ buf = [b \in 1 .. BufSize |-> NoByte]
  /\ client = [c \in Clients |-> "none"]
  /\ wire = [c \in Clients |-> <<>>]
  /\ taken = [c \in Clients |-> <<>>] /\ echoed = [c \in Clients |-> <<>>]
  /\ met = [c \in Clients |-> {}]

Bound == {sockets[n] : n \in 1 .. numsockets}

-----------------------------------------------------------------------------
(* main, connect_socket_server and accept_loop_server.                     *)

\* getaddrinfo fails: exit(1).
NoAddress ==
  /\ proc = "running" /\ pc = "bind" /\ tried = 0 /\ "bind" \in Faults
  /\ proc' = "exited"
  /\ UNCHANGED <<mainVars, threadVars, clientVars>>

\* mutant: a failed address is counted
BindCountsFailures ==
  /\ proc = "running" /\ pc = "bind" /\ tried < Addresses
  /\ tried' = tried + 1
  /\ \/ sockets' = SubSeq(sockets, 1, numsockets) \o <<tried + 1>>
     \/ "bind" \in Faults /\ UNCHANGED sockets
  /\ numsockets' = numsockets + 1
  /\ UNCHANGED <<proc, pc, ready, threadVars, clientVars>>
\* One address: socket, bind and listen, or close.
Bind ==
  /\ proc = "running" /\ pc = "bind" /\ tried < Addresses
  /\ tried' = tried + 1
  /\ \/ /\ sockets' = SubSeq(sockets, 1, numsockets) \o <<tried + 1>>
        /\ numsockets' = numsockets + 1
     \/ "bind" \in Faults /\ UNCHANGED <<sockets, numsockets>>
  /\ UNCHANGED <<proc, pc, ready, threadVars, clientVars>>

\* main goes on even with sockets[0] = -1; the accept loop returns then, and
\* main spins.
EnterLoop ==
  /\ proc = "running" /\ pc = "bind" /\ tried = Addresses
  /\ pc' = IF numsockets < 1 THEN "spin" ELSE "select"
  /\ UNCHANGED <<proc, tried, sockets, numsockets, ready, threadVars, clientVars>>

\* mutant: the loop over the sockets stops one too early
SelectOmitsLast ==
  /\ proc = "running" /\ pc = "select"
  /\ ready' = {a \in Bound \ {sockets[numsockets]} : backlog[a] # <<>>}
  /\ ready' # {} /\ pc' = "accept"
  /\ UNCHANGED <<proc, tried, sockets, numsockets, threadVars, clientVars>>
Select ==
  /\ proc = "running" /\ pc = "select"
  /\ ready' = {a \in Bound : backlog[a] # <<>>}
  /\ ready' # {} /\ pc' = "accept"
  /\ UNCHANGED <<proc, tried, sockets, numsockets, threadVars, clientVars>>

\* The accept loop returns, and main spins.
SelectFails ==
  /\ proc = "running" /\ pc = "select" /\ "select" \in Faults
  /\ pc' = "spin"
  /\ UNCHANGED <<proc, tried, sockets, numsockets, ready, threadVars, clientVars>>

Alive(c) == thread[c] \in {"read", "in", "out"}

\* history: the new thread of c meets those that are alive
Meets(c) ==
  met' = [d \in Clients |->
            IF d = c THEN {e \in Clients \ {c} : Alive(e)}
            ELSE met[d] \cup {e \in {c} : Alive(d)}]

\* The next ready socket in the order of the array: accept and pthread_create.
Accept ==
  /\ proc = "running" /\ pc = "accept" /\ ready # {}
  /\ \E a \in ready :
       /\ \A b \in ready : a <= b
       /\ ready' = ready \ {a}
       /\ \/ /\ backlog' = [backlog EXCEPT ![a] = Tail(@)]
             /\ \/ /\ thread' = [thread EXCEPT ![Head(backlog[a])] = "read"]
                   /\ Meets(Head(backlog[a]))
                \/ /\ "thread" \in Faults
                   /\ thread' = [thread EXCEPT ![Head(backlog[a])] = "leaked"]
                   /\ UNCHANGED met
          \/ "accept" \in Faults /\ UNCHANGED <<backlog, thread, met>>
  /\ UNCHANGED <<proc, pc, tried, sockets, numsockets, ret, k, buf, taken, echoed,
                 client, wire>>

\* malloc fails, and data->addrlen is written through NULL.
AcceptCrashes ==
  /\ proc = "running" /\ pc = "accept" /\ ready # {} /\ "memory" \in Faults
  /\ proc' = "killed"
  /\ UNCHANGED <<mainVars, threadVars, clientVars>>

AcceptedAll ==
  /\ proc = "running" /\ pc = "accept" /\ ready = {} /\ pc' = "select"
  /\ UNCHANGED <<proc, tried, sockets, numsockets, ready, threadVars, clientVars>>

-----------------------------------------------------------------------------
(* echo_thread and echo_loop.                                              *)

In(c, place) == proc = "running" /\ thread[c] = place

\* read returns n bytes; the copy into buf follows.
Read(c) ==
  /\ In(c, "read")
  /\ \E n \in 1 .. BufSize :
       /\ n <= Len(wire[c])
       /\ ret' = [ret EXCEPT ![c] = n]
  /\ thread' = [thread EXCEPT ![c] = "in"] /\ k' = [k EXCEPT ![c] = 1]
  /\ UNCHANGED <<proc, mainVars, buf, taken, echoed, met, clientVars>>

CopyIn(c) ==
  /\ In(c, "in")
  /\ buf' = [buf EXCEPT ![k[c]] = Head(wire[c])]
  /\ wire' = [wire EXCEPT ![c] = Tail(@)]
  /\ taken' = [taken EXCEPT ![c] = Append(@, Head(wire[c]))]
  /\ IF k[c] < ret[c]
     THEN k' = [k EXCEPT ![c] = @ + 1] /\ UNCHANGED thread
     ELSE k' = [k EXCEPT ![c] = 1] /\ thread' = [thread EXCEPT ![c] = "out"]
  /\ UNCHANGED <<proc, mainVars, ret, echoed, met, backlog, client>>

\* mutant: the whole buffer is written back
CopyOutWhole(c) ==
  /\ In(c, "out")
  /\ echoed' = [echoed EXCEPT ![c] = Append(@, buf[k[c]])]
  /\ IF k[c] < BufSize
     THEN k' = [k EXCEPT ![c] = @ + 1] /\ UNCHANGED thread
     ELSE k' = [k EXCEPT ![c] = 1] /\ thread' = [thread EXCEPT ![c] = "read"]
  /\ UNCHANGED <<proc, mainVars, ret, buf, taken, met, clientVars>>
\* mutant: one byte more than was read
CopyOutOverruns(c) ==
  /\ In(c, "out")
  /\ echoed' = [echoed EXCEPT ![c] = Append(@, buf[k[c]])]
  /\ IF k[c] <= ret[c]
     THEN k' = [k EXCEPT ![c] = @ + 1] /\ UNCHANGED thread
     ELSE k' = [k EXCEPT ![c] = 1] /\ thread' = [thread EXCEPT ![c] = "read"]
  /\ UNCHANGED <<proc, mainVars, ret, buf, taken, met, clientVars>>
\* write copies ret bytes out of buf.
CopyOut(c) ==
  /\ In(c, "out")
  /\ echoed' = [echoed EXCEPT ![c] = Append(@, buf[k[c]])]
  /\ IF k[c] < ret[c]
     THEN k' = [k EXCEPT ![c] = @ + 1] /\ UNCHANGED thread
     ELSE k' = [k EXCEPT ![c] = 1] /\ thread' = [thread EXCEPT ![c] = "read"]
  /\ UNCHANGED <<proc, mainVars, ret, buf, taken, met, clientVars>>

\* write fails, or stops short after k - 1 bytes, and the thread closes the socket;
\* SIGPIPE comes only if nothing could be written.
WriteFails(c) ==
  /\ In(c, "out")
  /\ \/ "io" \in Faults /\ thread' = [thread EXCEPT ![c] = "closed"] /\ UNCHANGED proc
     \/ k[c] = 1 /\ client[c] = "gone" /\ proc' = "killed" /\ UNCHANGED thread
  /\ UNCHANGED <<mainVars, ret, k, buf, taken, echoed, met, clientVars>>

\* mutant: the end of the stream is not told from data
ReadEndsNever(c) == FALSE /\ UNCHANGED vars
\* read returns 0: echo_thread closes the socket.
ReadEnds(c) ==
  /\ In(c, "read")
  /\ client[c] = "gone" /\ wire[c] = <<>>
  /\ thread' = [thread EXCEPT ![c] = "closed"]
  /\ UNCHANGED <<proc, mainVars, ret, k, buf, taken, echoed, met, clientVars>>

\* read returns less than 0.
ReadFails(c) ==
  /\ In(c, "read") /\ "io" \in Faults
  /\ thread' = [thread EXCEPT ![c] = "closed"]
  /\ UNCHANGED <<proc, mainVars, ret, k, buf, taken, echoed, met, clientVars>>

-----------------------------------------------------------------------------
(* The clients.                                                            *)

Connect(c) ==
  /\ client[c] = "none" /\ pc # "bind" /\ proc = "running"
  /\ \E a \in Bound : backlog' = [backlog EXCEPT ![a] = Append(@, c)]
  /\ client' = [client EXCEPT ![c] = "connected"]
  /\ UNCHANGED <<proc, mainVars, threadVars, wire>>

Sent(c) == Len(taken[c]) + Len(wire[c])

SendByte(c) ==
  /\ client[c] = "connected" /\ Sent(c) < MaxBytes /\ proc = "running"
  /\ wire' = [wire EXCEPT ![c] = Append(@, [from |-> c, n |-> Sent(c) + 1])]
  /\ UNCHANGED <<proc, mainVars, threadVars, backlog, client>>

Leave(c) ==
  /\ client[c] = "connected"
  /\ client' = [client EXCEPT ![c] = "gone"]
  /\ UNCHANGED <<proc, mainVars, threadVars, backlog, wire>>

MainRuns == Bind \/ EnterLoop \/ Select \/ Accept \/ AcceptedAll
ThreadRuns(c) == Read(c) \/ CopyIn(c) \/ CopyOut(c) \/ ReadEnds(c)
ThreadFails(c) == WriteFails(c) \/ ReadFails(c)
Next ==
  \/ MainRuns \/ NoAddress \/ SelectFails \/ AcceptCrashes
  \/ \E c \in Clients : ThreadRuns(c) \/ ThreadFails(c)
  \/ \E c \in Clients : Connect(c) \/ SendByte(c) \/ Leave(c)

Spec == Init /\ [][Next]_vars
\* The system schedules every thread of the server, and accept does not fail
\* for ever.
FairSpec ==
  /\ Spec /\ WF_vars(MainRuns) /\ SF_vars(Accept /\ backlog' # backlog)
  /\ \A c \in Clients : WF_vars(ThreadRuns(c))

-----------------------------------------------------------------------------

\* Every variable keeps its type.
TypeOK ==
  /\ proc \in {"running", "exited", "killed"}
  /\ pc \in {"bind", "select", "accept", "spin"}
  /\ tried \in 0 .. Addresses /\ numsockets \in 0 .. tried
  /\ sockets \in Seq(Listening \cup {-1}) /\ ready \subseteq Listening
  /\ backlog \in [Listening -> Seq(Clients)]
  /\ thread \in [Clients -> {"none", "read", "in", "out", "closed", "leaked"}]
  /\ ret \in [Clients -> 0 .. BufSize] /\ k \in [Clients -> 0 .. BufSize]
  /\ buf \in [1 .. BufSize -> Byte \cup {NoByte}]
  /\ client \in [Clients -> {"none", "connected", "gone"}]
  /\ wire \in [Clients -> Seq(Byte)]
  /\ taken \in [Clients -> Seq(Byte)] /\ echoed \in [Clients -> Seq(Byte \cup {NoByte})]
  /\ met \in [Clients -> SUBSET Clients]

\* sockets[0] is -1 exactly when no address could be bound, and the accept
\* loop only ever sees sockets that are bound (socket.c:524-530, 538-605).
SocketsValid ==
  /\ (sockets[1] = -1) = (numsockets = 0)
  /\ Bound \subseteq 1 .. tried

\* What the threads can do to each other through the buffer they share: a
\* client is sent its own bytes and those of connections whose thread was alive
\* together with its own, and never what an earlier connection left there or
\* what was in the buffer before (socket.c:470-490).
OnlyMetData ==
  \A c \in Clients : \A n \in DOMAIN echoed[c] : echoed[c][n].from \in {c} \cup met[c]

\* Nothing is left out or altered so far, and nothing is missing at the next read.
Exact(c) ==
  /\ \A n \in DOMAIN echoed[c] : n <= Len(taken[c]) /\ echoed[c][n] = taken[c][n]
  /\ thread[c] = "read" => Len(echoed[c]) = Len(taken[c])

\* A connection that met no other gets its bytes back as they were sent, whoever
\* used the buffer before or after it (socket.c:466-490); EchoClaims shows what
\* becomes of it with two at a time.
EchoesData == \A c \in Clients : met[c] = {} => Exact(c)

\* No connection waits in a backlog for ever, on whichever socket it came: it gets a
\* thread that reads it, or pthread_create fails for it and it is leaked
\* (socket.c:658-660), or the accept loop has returned, or the process has ended.
Served(c) == thread[c] \in {"read", "in", "out", "closed"}
ConnectionServed ==
  \A c \in Clients :
    client[c] = "connected"
      ~> \/ Served(c)
         \/ thread[c] = "leaked"
         \/ pc = "spin" \/ proc # "running"

\* When a client leaves, its thread ends and closes the socket, unless it never
\* got one or the whole server has ended (socket.c:478-481, 511-518, 659-661).
ThreadEnds ==
  \A c \in Clients :
    client[c] = "gone" /\ thread[c] \notin {"none", "leaked"}
      ~> (thread[c] = "closed" \/ proc # "running")

=============================================================================
