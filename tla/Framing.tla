-------------------------------- MODULE Framing --------------------------------
(***************************************************************************)
(* How the listener thread cuts the byte stream of the socket into         *)
(* messages and fields (src/client/common/li_qu_thread.c).  There is no    *)
(* loop around read: a call that gets fewer bytes than it asked for counts *)
(* as a success, and the rest of the field is taken for the next one.      *)
(* Module Client takes a message as a whole; this module says when that is *)
(* right.                                                                  *)
(*                                                                         *)
(* A byte is its place in the stream.  What the listener does with a       *)
(* header that does not begin a message is left open: it is lost.          *)
(***************************************************************************)
EXTENDS Integers, Sequences

CONSTANTS
  Width,         \* bytes of name, score, id, question, answer, time
  NumAnswers,    \* answers of a question (4 in the code)
  Messages,      \* the messages the server may send: type and size
  MaxMessages    \* bound: messages sent

Named == {"CA_RP", "CA_CH", "ST_GA"}
Types == Named \cup {"LG_RQ_OK", "PL_LI", "QU", "QU_RE", "GA_OV", "ER_WA"}
Fields == {"name", "score", "id", "question", "answer", "time"}

\* 37 bytes a player in the code; 770 bytes a question
EntrySize == Width.name + Width.score + Width.id
QuestionSize == Width.question + NumAnswers * Width.answer + Width.time

\* The sizes the server and the cases of the listener agree on.
Sizes(type) ==
  CASE type \in Named -> Nat
    [] type = "PL_LI" -> {n * EntrySize : n \in 0 .. 6}
    [] type = "QU" -> {0, QuestionSize}
    [] type = "QU_RE" -> {2}
    [] type \in {"LG_RQ_OK", "GA_OV"} -> {1}
    [] type = "ER_WA" -> Nat \ {0}

ASSUME FramingAssumption ==
  /\ Width \in [Fields -> Nat \ {0}] /\ NumAnswers \in Nat /\ MaxMessages \in Nat
  /\ \A m \in Messages : m.type \in Types /\ m.size \in Sizes(m.type)

TypeSize == 1
SizeSize == 2
HeaderSize == TypeSize + SizeSize

VARIABLES
  at,        \* type, size, payload: the next read; lost
  done,      \* reads of the message's payload that are done
  sent,      \* messages of the server and where they start
  wire,      \* bytes sent
  arrived,   \* bytes that have arrived
  pos,       \* bytes the listener has taken
  count,     \* history: messages the listener has begun
  short      \* history: where a read first came up short

vars == <<at, done, sent, wire, arrived, pos, count, short>>

Init ==
  /\ at = "type" /\ done = 0 /\ sent = <<>> /\ wire = 0
  /\ arrived = 0 /\ pos = 0 /\ count = 0 /\ short = "nowhere"

-----------------------------------------------------------------------------
(* The reads of a payload, as the listener's cases make them: the place in *)
(* the payload where each read ends.                                       *)

Bytes(n) == [k \in 1 .. n |-> k]
PlayerEntry == <<Width.name, Width.name + Width.score, EntrySize>>
Players(n) ==
  [k \in 1 .. 3 * n |-> ((k - 1) \div 3) * EntrySize + PlayerEntry[((k - 1) % 3) + 1]]

Answers == [k \in 1 .. NumAnswers + 1 |-> Width.question + (k - 1) * Width.answer]
\* mutant: the time is read with the size of its variable
QuestionReadsInt == Append(Answers, QuestionSize + Width.time)
QuestionReads == Append(Answers, QuestionSize)

\* mutant: the text is taken to be as long as the message
WarningReadsWhole(size) == Bytes(1 + size)
\* the byte of the kind, and one less than the size for the text
WarningReads(size) == Bytes(1 + (size - 1))

\* mutant: as many bytes as the struct has, with the header it begins with
ResultReadsHeader == Bytes(HeaderSize + 2)
ResultReads == Bytes(2)

\* mutant: one read for the name
NameReadsAtOnce(size) == IF size = 0 THEN <<>> ELSE <<size>>
NameReads(size) == Bytes(size)

ReadsOf(m) ==
  CASE m.type \in Named -> NameReads(m.size)
    [] m.type = "PL_LI" -> Players(m.size \div EntrySize)
    [] m.type = "QU" -> IF m.size = 0 THEN <<>> ELSE QuestionReads
    [] m.type = "QU_RE" -> ResultReads
    [] m.type = "LG_RQ_OK" -> <<m.size>>
    [] m.type = "GA_OV" -> <<1>>
    [] m.type = "ER_WA" -> WarningReads(m.size)

\* Where the n-th read ends.
Mark(m, n) == IF n = 0 THEN 0 ELSE ReadsOf(m)[n]

-----------------------------------------------------------------------------
(* One read call, and the listener's loop.                                 *)

\* read(sock, buf, n) blocks for the first byte and takes what is there.
Read(n, place) ==
  LET taken == IF n <= arrived - pos THEN n ELSE arrived - pos
  IN  /\ arrived > pos
      /\ pos' = pos + taken
      /\ short' = IF taken < n /\ short = "nowhere" THEN place ELSE short
      /\ UNCHANGED <<sent, wire, arrived>>

BeginsMessage == count < Len(sent) /\ pos = sent[count + 1].start
Current == sent[count]

ReadType ==
  /\ at = "type" /\ BeginsMessage /\ Read(TypeSize, "header")
  /\ at' = "size" /\ count' = count + 1 /\ done' = 0

\* a header that begins no message, or only a part of the size
Loses ==
  \/ /\ at = "type" /\ arrived > pos /\ ~BeginsMessage
     /\ at' = "lost" /\ UNCHANGED <<pos, short, sent, wire, arrived, count, done>>
  \/ /\ at = "size" /\ arrived = pos + 1 /\ Read(SizeSize, "header")
     /\ at' = "lost" /\ UNCHANGED <<count, done>>

\* mutant: the loop over the payload goes round once more (z <= size)
GoesOnceMore(n) ==
  /\ done' = n /\ at' = IF n > Len(ReadsOf(Current)) THEN "type" ELSE "payload"
  /\ UNCHANGED count
\* The case goes on to its next read, or, after the last, back to the type.
Goes(n) ==
  /\ done' = n /\ at' = IF n = Len(ReadsOf(Current)) THEN "type" ELSE "payload"
  /\ UNCHANGED count

ReadSize ==
  /\ at = "size" /\ arrived > pos + 1 /\ Read(SizeSize, "header")
  /\ Goes(0)

ReadField ==
  /\ at = "payload"
  /\ Read(Mark(Current, done + 1) - Mark(Current, done), Current.type)
  /\ Goes(done + 1)

-----------------------------------------------------------------------------
(* The server and the network.                                             *)

Send(m) ==
  /\ Len(sent) < MaxMessages
  /\ sent' = Append(sent, [type |-> m.type, size |-> m.size, start |-> wire])
  /\ wire' = wire + HeaderSize + m.size
  /\ UNCHANGED <<at, done, arrived, pos, count, short>>

\* A segment ends anywhere.
Arrive ==
  /\ arrived' \in arrived + 1 .. wire
  /\ UNCHANGED <<at, done, sent, wire, pos, count, short>>

Idle ==
  /\ at = "lost" \/ (pos = wire /\ Len(sent) = MaxMessages)
  /\ UNCHANGED vars

Listener == ReadType \/ Loses \/ ReadSize \/ ReadField
Next == Listener \/ (\E m \in Messages : Send(m)) \/ Arrive \/ Idle

Spec == Init /\ [][Next]_vars
\* The network delivers what was sent, and the listener thread is scheduled.
FairSpec == Spec /\ WF_vars(Listener) /\ WF_vars(Arrive)

-----------------------------------------------------------------------------

\* Every variable keeps its type, and they fit each other: the listener takes no byte
\* that has not arrived, and it is inside a payload only while the loop of the case
\* has a read of it left (li_qu_thread.c:124-128, 195-231, 270-293).
TypeOK ==
  /\ at \in {"type", "size", "payload", "lost"}
  /\ done \in Nat /\ (at = "payload" => done < Len(ReadsOf(Current)))
  /\ sent \in Seq([type : Types, size : Nat, start : Nat]) /\ count \in 0 .. Len(sent)
  /\ at \in {"size", "payload"} => count > 0
  /\ wire \in Nat /\ arrived \in 0 .. wire /\ pos \in 0 .. arrived
  /\ short \in Types \cup {"nowhere", "header"}

\* The end of the message under way, and the bytes its reads have still to take.
End == IF count = 0 THEN 0 ELSE Current.start + HeaderSize + Current.size
Left ==
  IF count = 0 THEN 0 ELSE Mark(Current, Len(ReadsOf(Current))) - Mark(Current, done)

\* The cases read exactly the payload the header announces, though most of
\* them ignore its size: while no read came up short the reads that are left
\* end where the message ends (li_qu_thread.c:88-440).
ReadsWholeMessage ==
  at \in {"payload", "type"} /\ short = "nowhere" => pos + Left = End

\* No read reaches into the next message, also after one came up short: a
\* field that is waited for is never one the server has not sent.
StaysInMessage == at \in {"payload", "type"} => pos + Left <= End

\* A short read is fatal, and nothing else is: the next header is taken from
\* inside a message if and only if some read before it was short.
LostByShortReads ==
  /\ at = "lost" => short # "nowhere"
  /\ at = "type" /\ short # "nowhere" => ~BeginsMessage

\* Names, results, ranks and warnings are read byte by byte and survive every
\* segmentation; only headers, player lists and questions do not.
OneByteFieldsSurvive == short \in {"nowhere", "header", "PL_LI", "QU"}

\* Every message sent is taken in, unless a read before it came up short.
MessagesTaken == \A n \in 1 .. MaxMessages : Len(sent) >= n ~> (count >= n \/ at = "lost")

=============================================================================
