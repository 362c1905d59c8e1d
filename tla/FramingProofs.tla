------------------------------ MODULE FramingProofs ------------------------------
(***************************************************************************)
(* Theorems about Framing: the reads of the listener stay in step with the *)
(* messages of the server until one comes up short, for every width of the *)
(* fields, every number of answers and every sequence of messages.         *)
(***************************************************************************)
EXTENDS Framing, SequenceTheorems, TLAPS

-----------------------------------------------------------------------------
(* The reads of a payload.                                                 *)

Valid(m) == m.type \in Types /\ m.size \in Sizes(m.type)

\* The reads follow each other and end at n.
Covers(ends, n) ==
  /\ ends \in Seq(Nat)
  /\ Len(ends) > 0 => ends[Len(ends)] = n
  /\ Len(ends) = 0 => n = 0
  /\ \A k \in 1 .. Len(ends) - 1 : ends[k] < ends[k + 1]
  /\ Len(ends) > 0 => ends[1] > 0

LEMMA WidthsAreNat ==
  /\ Width.name \in Nat \ {0} /\ Width.score \in Nat \ {0} /\ Width.id \in Nat \ {0}
  /\ Width.question \in Nat \ {0} /\ Width.answer \in Nat \ {0} /\ Width.time \in Nat \ {0}
  /\ EntrySize \in Nat \ {0} /\ NumAnswers \in Nat
BY FramingAssumption DEF FramingAssumption, Fields, EntrySize

LEMMA Multiples ==
  ASSUME NEW n \in Nat, NEW w \in Nat \ {0}
  PROVE  n * w \in Nat /\ (n + 1) * w = n * w + w /\ (n = 0 => n * w = 0)
OBVIOUS

LEMMA BytesCover == ASSUME NEW n \in Nat PROVE Covers(Bytes(n), n) /\ Len(Bytes(n)) = n
BY DEF Bytes, Covers

LEMMA PlayersCover ==
  ASSUME NEW n \in Nat PROVE Covers(Players(n), n * EntrySize)
<1> DEFINE E == EntrySize
           Col(k) == PlayerEntry[((k - 1) % 3) + 1]
           P(k) == ((k - 1) \div 3) * E + Col(k)
<1>1. /\ PlayerEntry[1] \in Nat /\ 0 < PlayerEntry[1] /\ PlayerEntry[1] < PlayerEntry[2]
      /\ PlayerEntry[2] \in Nat /\ PlayerEntry[2] < PlayerEntry[3] /\ PlayerEntry[3] = E
      /\ E \in Nat
  BY WidthsAreNat DEF PlayerEntry, EntrySize
<1>2. \A q \in Nat : q * E \in Nat /\ (q + 1) * E = q * E + E
  BY Multiples, WidthsAreNat
<1>3. \A k \in Nat \ {0} : \E q \in Nat :
        /\ (k - 1) \div 3 = q
        /\ \/ k = 3 * q + 1 /\ (k - 1) % 3 = 0 /\ k % 3 = 1 /\ k \div 3 = q
           \/ k = 3 * q + 2 /\ (k - 1) % 3 = 1 /\ k % 3 = 2 /\ k \div 3 = q
           \/ k = 3 * q + 3 /\ (k - 1) % 3 = 2 /\ k % 3 = 0 /\ k \div 3 = q + 1
  OBVIOUS
<1> HIDE DEF E
<1>4. ASSUME NEW k \in Nat \ {0} PROVE P(k) \in Nat /\ 0 < P(k) /\ P(k) < P(k + 1)
  <2>1. PICK q \in Nat :
        /\ (k - 1) \div 3 = q
        /\ \/ k = 3 * q + 1 /\ (k - 1) % 3 = 0 /\ k % 3 = 1 /\ k \div 3 = q
           \/ k = 3 * q + 2 /\ (k - 1) % 3 = 1 /\ k % 3 = 2 /\ k \div 3 = q
           \/ k = 3 * q + 3 /\ (k - 1) % 3 = 2 /\ k % 3 = 0 /\ k \div 3 = q + 1
    BY <1>3
  <2>2. (k + 1) - 1 = k
    OBVIOUS
  <2>3. q * E \in Nat /\ (q + 1) * E = q * E + E
    BY <1>2
  <2> QED BY <1>1, <2>1, <2>2, <2>3
<1>5. n # 0 => P(3 * n) = n * E
  <2>1. ASSUME n # 0 PROVE (3 * n - 1) \div 3 = n - 1 /\ (3 * n - 1) % 3 = 2
    BY <2>1
  <2>2. ASSUME n # 0 PROVE n * E = (n - 1) * E + E
    BY <1>2, <2>2
  <2> QED BY <1>1, <2>1, <2>2
<1>6. Players(n) = [k \in 1 .. 3 * n |-> P(k)]
  BY DEF Players, E
<1> HIDE DEF P
<1>7. /\ Players(n) \in Seq(Nat) /\ Len(Players(n)) = 3 * n
      /\ \A k \in 1 .. 3 * n : Players(n)[k] = P(k)
  <2>1. 3 * n \in Nat /\ \A k \in 1 .. 3 * n : P(k) \in Nat
    BY <1>4
  <2>2. Players(n) \in [1 .. 3 * n -> Nat] /\ \A k \in 1 .. 3 * n : Players(n)[k] = P(k)
    BY <1>6, <2>1, Zenon
  <2>3. \A l \in Nat : \A f \in [1 .. l -> Nat] : f \in Seq(Nat) /\ Len(f) = l
    OBVIOUS
  <2> QED BY <2>1, <2>2, <2>3, Zenon
<1>8. n = 0 => n * E = 0
  BY Multiples, WidthsAreNat DEF E
<1>9. Len(Players(n)) > 0 => Players(n)[Len(Players(n))] = n * E /\ Players(n)[1] > 0
  BY <1>4, <1>5, <1>7
<1>10. \A k \in 1 .. Len(Players(n)) - 1 : Players(n)[k] < Players(n)[k + 1]
  BY <1>4, <1>7
<1> QED BY <1>7, <1>8, <1>9, <1>10 DEF Covers, E

LEMMA QuestionCovers == Covers(QuestionReads, QuestionSize) /\ QuestionSize \in Nat
<1> DEFINE A(k) == Width.question + (k - 1) * Width.answer
<1>1. \A k \in Nat : /\ k * Width.answer \in Nat
                     /\ (k + 1) * Width.answer = k * Width.answer + Width.answer
  BY Multiples, WidthsAreNat
<1>2. ASSUME NEW k \in Nat \ {0} PROVE A(k) \in Nat /\ 0 < A(k) /\ A(k) < A(k + 1)
  <2>1. k - 1 \in Nat /\ (k - 1) + 1 = k /\ (k + 1) - 1 = k
    OBVIOUS
  <2>2. /\ (k - 1) * Width.answer \in Nat
        /\ k * Width.answer = (k - 1) * Width.answer + Width.answer
    BY <1>1, <2>1
  <2> QED BY <2>1, <2>2, WidthsAreNat
<1>3. QuestionSize \in Nat /\ A(NumAnswers + 1) < QuestionSize
  <2>1. (NumAnswers + 1) - 1 = NumAnswers /\ NumAnswers * Width.answer \in Nat
    <3>1. NumAnswers \in Nat
      BY WidthsAreNat
    <3>2. (NumAnswers + 1) - 1 = NumAnswers
      BY <3>1
    <3> QED BY <1>1, <3>1, <3>2, Zenon
  <2> QED BY <2>1, WidthsAreNat DEF QuestionSize
<1>4. /\ Answers \in Seq(Nat) /\ Len(Answers) = NumAnswers + 1
      /\ \A k \in 1 .. NumAnswers + 1 : Answers[k] = A(k)
  BY <1>2, WidthsAreNat DEF Answers
<1>5. /\ QuestionReads \in Seq(Nat) /\ Len(QuestionReads) = NumAnswers + 2
      /\ \A k \in 1 .. NumAnswers + 1 : QuestionReads[k] = A(k)
      /\ QuestionReads[NumAnswers + 2] = QuestionSize
  BY SMTT(60), <1>3, <1>4, WidthsAreNat DEF QuestionReads
<1> HIDE DEF A
<1>6. /\ QuestionReads[Len(QuestionReads)] = QuestionSize /\ Len(QuestionReads) > 0
      /\ QuestionReads[1] > 0
  BY <1>2, <1>5, WidthsAreNat
<1>7. ASSUME NEW k \in 1 .. Len(QuestionReads) - 1
      PROVE  QuestionReads[k] < QuestionReads[k + 1]
  <2>1. CASE k = NumAnswers + 1
    BY <1>3, <1>5, <2>1, WidthsAreNat
  <2>2. CASE k < NumAnswers + 1
    BY <1>2, <1>5, <2>2, WidthsAreNat
  <2> QED BY <1>5, <2>1, <2>2, WidthsAreNat
<1> QED BY <1>3, <1>5, <1>6, <1>7 DEF Covers

\* The cases read as many bytes as the header announces: most of them without a look at
\* the size, as the server sends no other, and the player list by its number of entries.
LEMMA CasesCover ==
  ASSUME NEW m, Valid(m) PROVE Covers(ReadsOf(m), m.size)
<1>1. CASE m.type \in Named
  <2>1. m.size \in Nat /\ ReadsOf(m) = Bytes(m.size)
    BY <1>1 DEF Valid, Sizes, ReadsOf, NameReads, Named
  <2> QED BY <2>1, BytesCover
<1>2. CASE m.type = "PL_LI"
  <2>1. PICK n \in 0 .. 6 : m.size = n * EntrySize
    BY <1>2 DEF Valid, Sizes, Named
  <2>2. m.size \div EntrySize = n
    BY <2>1, WidthsAreNat
  <2> QED BY <1>2, <2>1, <2>2, PlayersCover DEF ReadsOf, Named
<1>3. CASE m.type = "QU"
  <2>1. m.size \in {0, QuestionSize} /\ ReadsOf(m) = IF m.size = 0 THEN <<>> ELSE QuestionReads
    BY <1>3 DEF Valid, Sizes, ReadsOf, Named
  <2>2. Covers(<<>>, 0)
    BY DEF Covers
  <2> QED BY <2>1, <2>2, QuestionCovers
<1>4. CASE m.type = "QU_RE"
  BY <1>4, BytesCover DEF Valid, Sizes, ReadsOf, ResultReads, Named
<1>5. CASE m.type \in {"LG_RQ_OK", "GA_OV"}
  <2>1. m.size = 1 /\ ReadsOf(m) = <<1>>
    BY <1>5 DEF Valid, Sizes, ReadsOf, Named
  <2> QED BY <2>1 DEF Covers
<1>6. CASE m.type = "ER_WA"
  <2>1. m.size \in Nat \ {0} /\ ReadsOf(m) = Bytes(1 + (m.size - 1))
    BY <1>6 DEF Valid, Sizes, ReadsOf, WarningReads, Named
  <2>2. 1 + (m.size - 1) = m.size
    BY <2>1
  <2> QED BY <2>1, <2>2, BytesCover
<1> QED BY <1>1, <1>2, <1>3, <1>4, <1>5, <1>6 DEF Valid, Types

-----------------------------------------------------------------------------
(* The invariant.  The messages lie end to end in the stream; as long as no *)
(* read came up short the listener is where they say it is, and from then   *)
(* on it is behind.                                                         *)

Start(n) == IF n <= Len(sent) THEN sent[n].start ELSE wire

Stream ==
  /\ Start(1) = 0
  /\ \A n \in 1 .. Len(sent) :
       /\ Valid(sent[n])
       /\ Start(n + 1) = sent[n].start + HeaderSize + sent[n].size

\* The listener is at the place it should be at, or before it after a short read.
Keeps(place, due) == IF short = "nowhere" THEN place = due ELSE place < due

Place ==
  /\ at = "type" => Keeps(pos, Start(count + 1))
  /\ at = "type" /\ count > 0 => done = Len(ReadsOf(Current))
  /\ at = "size" => pos = Current.start + 1 /\ short = "nowhere" /\ done = 0
  /\ at = "payload" => Keeps(pos + (Current.size - Mark(Current, done)), End)
  /\ at = "lost" => short # "nowhere"

FramingInv == TypeOK /\ Stream /\ Place /\ OneByteFieldsSurvive

SentMessage == [type : Types, size : Nat, start : Nat]

LEMMA SentMessages ==
  ASSUME TypeOK
  PROVE  /\ sent \in Seq(SentMessage) /\ Len(sent) \in Nat
         /\ \A n \in 1 .. Len(sent) : sent[n] \in SentMessage
<1>1. sent \in Seq(SentMessage)
  BY DEF TypeOK, SentMessage
<1> QED BY <1>1, ElementOfSeq, LenProperties

LEMMA CurrentMessage ==
  ASSUME TypeOK, Stream, count > 0
  PROVE  /\ Valid(Current) /\ Current.start \in Nat /\ Current.size \in Nat
         /\ End = Start(count + 1) /\ End = Current.start + HeaderSize + Current.size
         /\ End \in Nat /\ Current.type \in Types
<1>1. count \in 1 .. Len(sent)
  BY SentMessages DEF TypeOK
<1>2. sent[count] \in SentMessage
  BY <1>1, SentMessages
<1> QED BY <1>1, <1>2 DEF Stream, Current, End, HeaderSize, TypeSize, SizeSize, SentMessage

\* The marks of a valid message lie between 0 and its size, in order.
LEMMA MarksRise ==
  ASSUME NEW m, Valid(m), NEW n \in 0 .. Len(ReadsOf(m))
  PROVE  /\ Mark(m, n) \in Nat
         /\ n = Len(ReadsOf(m)) => Mark(m, n) = m.size
         /\ n < Len(ReadsOf(m)) => Mark(m, n) < Mark(m, n + 1) /\ Mark(m, n + 1) \in Nat
<1>1. Covers(ReadsOf(m), m.size)
  BY CasesCover
<1>2. CASE n = 0
  BY <1>1, <1>2 DEF Covers, Mark
<1>3. CASE n > 0
  BY <1>1, <1>3 DEF Covers, Mark
<1> QED BY <1>2, <1>3

\* Only a player list, a question and a login read more than one byte at once, and the
\* login's field has one.
LEMMA OneByte ==
  ASSUME NEW m, Valid(m), m.type \notin {"PL_LI", "QU"}, NEW n \in 0 .. Len(ReadsOf(m)) - 1
  PROVE  Mark(m, n + 1) - Mark(m, n) = 1
<1>1. CASE \E l \in Nat : ReadsOf(m) = Bytes(l)
  BY <1>1 DEF Bytes, Mark
<1>2. CASE ReadsOf(m) = <<1>>
  BY <1>2 DEF Mark
<1>3. CASE m.type \in Named
  BY <1>1, <1>3 DEF Valid, Sizes, ReadsOf, NameReads, Named
<1>4. CASE m.type \in {"LG_RQ_OK", "GA_OV"}
  BY <1>2, <1>4 DEF Valid, Sizes, ReadsOf, Named
<1>5. CASE m.type = "QU_RE"
  BY <1>1, <1>5 DEF Valid, Sizes, ReadsOf, ResultReads, Named
<1>6. CASE m.type = "ER_WA"
  <2>1. m.size \in Nat \ {0} /\ ReadsOf(m) = Bytes(1 + (m.size - 1))
    BY <1>6 DEF Valid, Sizes, ReadsOf, WarningReads, Named
  <2>2. 1 + (m.size - 1) \in Nat
    BY <2>1
  <2> QED BY <1>1, <2>1, <2>2
<1> QED BY <1>3, <1>4, <1>5, <1>6 DEF Valid, Types

\* What a read takes.
LEMMA ReadTakes ==
  ASSUME TypeOK, NEW n \in Nat \ {0}, NEW place, Read(n, place)
  PROVE  \E taken \in 1 .. n :
           /\ pos' = pos + taken /\ pos' <= arrived /\ pos' \in Nat
           /\ taken = n => short' = short
           /\ taken < n => short' = (IF short = "nowhere" THEN place ELSE short)
           /\ n = 1 => taken = 1
           /\ arrived >= pos + n => taken = n
           /\ UNCHANGED <<sent, wire, arrived>>
<1> DEFINE t == IF n <= arrived - pos THEN n ELSE arrived - pos
<1>1. arrived \in Nat /\ pos \in 0 .. arrived
  BY DEF TypeOK
<1>2. arrived > pos /\ t \in 1 .. n /\ pos' = pos + t
  BY <1>1 DEF Read
<1>3. short' = IF t < n /\ short = "nowhere" THEN place ELSE short
  BY DEF Read
<1> QED BY <1>1, <1>2, <1>3 DEF Read

\* A message begins where the listener is only if no read came up short.
LEMMA Behind ==
  ASSUME FramingInv, at = "type"
  PROVE  /\ BeginsMessage => short = "nowhere"
         /\ arrived > pos /\ ~BeginsMessage => short # "nowhere"
<1>1. /\ count \in 0 .. Len(sent) /\ wire \in Nat /\ arrived \in 0 .. wire
      /\ pos \in 0 .. arrived
  BY DEF FramingInv, TypeOK
<1>2. Keeps(pos, Start(count + 1))
  BY DEF FramingInv, Place
<1>3. CASE count < Len(sent)
  <2>1. count + 1 \in 1 .. Len(sent)
    BY <1>1, <1>3, SentMessages DEF FramingInv
  <2>2. Start(count + 1) = sent[count + 1].start /\ sent[count + 1].start \in Nat
    BY <2>1, SentMessages DEF FramingInv, Start, SentMessage
  <2> QED BY <1>1, <1>2, <1>3, <2>2 DEF BeginsMessage, Keeps
<1>4. CASE count = Len(sent)
  <2>1. Start(count + 1) = wire
    BY <1>1, <1>4 DEF Start, FramingInv, TypeOK
  <2> QED BY <1>1, <1>2, <1>4, <2>1 DEF BeginsMessage, Keeps
<1> QED BY <1>1, <1>3, <1>4

-----------------------------------------------------------------------------
(* The steps.                                                              *)

\* The listener's steps leave the stream alone.
LEMMA StreamKept ==
  ASSUME Stream, UNCHANGED <<sent, wire>>
  PROVE  Stream'
BY DEF Stream, Start

LEMMA TypeStep == FramingInv /\ ReadType => FramingInv'
<1> SUFFICES ASSUME FramingInv, ReadType PROVE FramingInv'
  OBVIOUS
<1>1. TypeOK /\ Stream /\ Place /\ short = "nowhere" /\ BeginsMessage
  BY Behind DEF FramingInv, ReadType
<1>2. pos' = pos + 1 /\ pos' <= arrived /\ short' = short /\ UNCHANGED <<sent, wire, arrived>>
  BY <1>1, ReadTakes DEF ReadType, TypeSize
<1>3. count' = count + 1 /\ count + 1 \in 1 .. Len(sent) /\ count' \in 0 .. Len(sent)
  BY <1>1, SentMessages DEF ReadType, BeginsMessage, TypeOK
<1>4. TypeOK'
  BY <1>1, <1>2, <1>3 DEF ReadType, TypeOK
<1>5. Place'
  BY <1>1, <1>2, <1>3 DEF ReadType, Place, Current, BeginsMessage
<1> QED BY <1>1, <1>2, <1>4, <1>5, StreamKept DEF FramingInv, OneByteFieldsSurvive

LEMMA LosesStep == FramingInv /\ Loses => FramingInv'
<1> SUFFICES ASSUME FramingInv, Loses PROVE FramingInv'
  OBVIOUS
<1>1. TypeOK /\ Stream /\ OneByteFieldsSurvive
  BY DEF FramingInv
<1>2. CASE at = "type" /\ arrived > pos /\ ~BeginsMessage
           /\ at' = "lost" /\ UNCHANGED <<pos, short, sent, wire, arrived, count, done>>
  <2>1. short # "nowhere"
    BY <1>2, Behind
  <2>2. TypeOK' /\ Place'
    BY <1>1, <1>2, <2>1 DEF TypeOK, Place
  <2> QED BY <1>1, <1>2, <2>2, StreamKept DEF FramingInv, OneByteFieldsSurvive
<1>3. CASE at = "size" /\ arrived = pos + 1 /\ Read(SizeSize, "header")
           /\ at' = "lost" /\ UNCHANGED <<count, done>>
  <2>1. short = "nowhere" /\ SizeSize = 2
    BY <1>3 DEF FramingInv, Place, SizeSize
  <2>2. pos' <= arrived /\ pos' \in Nat /\ short' = "header" /\ UNCHANGED <<sent, wire, arrived>>
    BY <1>1, <1>3, <2>1, ReadTakes DEF TypeOK
  <2>3. TypeOK' /\ Place'
    BY <1>1, <1>3, <2>2 DEF TypeOK, Place
  <2> QED BY <1>1, <2>2, <2>3, StreamKept DEF FramingInv, OneByteFieldsSurvive
<1> QED BY <1>2, <1>3 DEF Loses

\* Where the listener is after the header or after a field.
LEMMA GoesOn ==
  ASSUME FramingInv, count > 0, UNCHANGED <<sent, wire, arrived>>,
         NEW n \in 0 .. Len(ReadsOf(Current)), Goes(n), pos' \in 0 .. arrived,
         short' \in {"nowhere", "header", "PL_LI", "QU"},
         IF short' = "nowhere" THEN pos' + (Current.size - Mark(Current, n)) = End
                               ELSE pos' + (Current.size - Mark(Current, n)) < End
  PROVE  FramingInv'
<1>1. TypeOK /\ Stream
  BY DEF FramingInv
<1>2. Current' = Current /\ End' = End /\ count' = count /\ done' = n
  BY DEF Goes, Current, End
<1>3. Covers(ReadsOf(Current), Current.size) /\ Len(ReadsOf(Current)) \in Nat
  BY <1>1, CurrentMessage, CasesCover, LenProperties DEF Covers
<1>4. Stream' /\ Start(count + 1)' = Start(count + 1)
  BY <1>1, <1>2, StreamKept DEF Start
<1>5. short' \in Types \cup {"nowhere", "header"}
  BY DEF Types
<1>6. CASE n = Len(ReadsOf(Current))
  <2>1. Mark(Current, n) = Current.size /\ End = Start(count + 1) /\ Current.size \in Nat
    BY <1>1, <1>3, <1>6, CurrentMessage, MarksRise
  <2>2. at' = "type"
    BY <1>6 DEF Goes
  <2>3. TypeOK'
    BY <1>1, <1>2, <1>3, <1>5, <1>6, <2>2 DEF TypeOK
  <2>4. Keeps(pos, Start(count + 1))'
    <3>1. pos' \in Nat /\ End \in Nat
      BY <1>1, CurrentMessage DEF TypeOK
    <3> QED BY <1>4, <2>1, <3>1 DEF Keeps
  <2>5. Place'
    BY <1>2, <1>6, <2>2, <2>4 DEF Place
  <2> QED BY <1>4, <2>3, <2>5 DEF FramingInv, OneByteFieldsSurvive
<1>7. CASE n < Len(ReadsOf(Current))
  <2>1. at' = "payload"
    BY <1>3, <1>7 DEF Goes
  <2>2. TypeOK'
    BY <1>1, <1>2, <1>3, <1>5, <1>7, <2>1 DEF TypeOK
  <2>3. Mark(Current, done)' = Mark(Current, n)
    BY <1>2 DEF Mark
  <2>4. Place'
    BY <1>2, <2>1, <2>3 DEF Place, Keeps
  <2> QED BY <1>4, <2>2, <2>4 DEF FramingInv, OneByteFieldsSurvive
<1> QED BY <1>3, <1>6, <1>7

LEMMA SizeStep == FramingInv /\ ReadSize => FramingInv'
<1> SUFFICES ASSUME FramingInv, ReadSize PROVE FramingInv'
  OBVIOUS
<1>1. /\ TypeOK /\ Stream /\ count > 0 /\ pos = Current.start + 1 /\ short = "nowhere"
      /\ SizeSize = 2 /\ HeaderSize = 3
  BY DEF FramingInv, Place, TypeOK, ReadSize, SizeSize, HeaderSize, TypeSize
<1>2. /\ pos' = pos + 2 /\ pos' <= arrived /\ short' = "nowhere"
      /\ UNCHANGED <<sent, wire, arrived>>
  <2>1. arrived >= pos + 2
    BY DEF ReadSize, FramingInv, TypeOK
  <2> QED BY <1>1, <2>1, ReadTakes DEF ReadSize
<1>3. pos' \in 0 .. arrived
  BY SMTT(60), <1>1, <1>2 DEF TypeOK
<1>4. Mark(Current, 0) = 0 /\ 0 \in 0 .. Len(ReadsOf(Current)) /\ Goes(0)
  BY <1>1, CurrentMessage, CasesCover, LenProperties DEF Covers, Mark, ReadSize
<1>5. pos' + (Current.size - Mark(Current, 0)) = End
  BY SMTT(60), <1>1, <1>2, <1>4, CurrentMessage
<1> QED BY <1>1, <1>2, <1>3, <1>4, <1>5, GoesOn

LEMMA FieldStep == FramingInv /\ ReadField => FramingInv'
<1> SUFFICES ASSUME FramingInv, ReadField PROVE FramingInv'
  OBVIOUS
<1> DEFINE n == Mark(Current, done + 1) - Mark(Current, done)
<1>1. /\ TypeOK /\ Stream /\ count > 0 /\ done < Len(ReadsOf(Current)) /\ done \in Nat
      /\ Valid(Current) /\ Current.size \in Nat /\ End \in Nat /\ pos \in Nat
      /\ short \in {"nowhere", "header", "PL_LI", "QU"}
  BY CurrentMessage DEF FramingInv, TypeOK, ReadField, OneByteFieldsSurvive
<1>2. Len(ReadsOf(Current)) \in Nat
  BY <1>1, CasesCover, LenProperties DEF Covers
<1>3. Keeps(pos + (Current.size - Mark(Current, done)), End)
  BY DEF FramingInv, Place, ReadField
<1>4. /\ Mark(Current, done) \in Nat /\ Mark(Current, done + 1) \in Nat /\ n \in Nat \ {0}
      /\ Current.type \notin {"PL_LI", "QU"} => n = 1
  BY <1>1, <1>2, MarksRise, OneByte
<1> HIDE DEF n
<1>5. PICK taken \in 1 .. n :
           /\ pos' = pos + taken /\ pos' <= arrived /\ pos' \in Nat
           /\ taken = n => short' = short
           /\ taken < n => short' = (IF short = "nowhere" THEN Current.type ELSE short)
           /\ n = 1 => taken = 1
           /\ UNCHANGED <<sent, wire, arrived>>
  BY <1>1, <1>4, ReadTakes DEF ReadField, n
<1>6. short' \in {"nowhere", "header", "PL_LI", "QU"}
  BY <1>1, <1>4, <1>5
<1>7. IF short' = "nowhere" THEN pos' + (Current.size - Mark(Current, done + 1)) = End
                            ELSE pos' + (Current.size - Mark(Current, done + 1)) < End
  <2>1. CASE taken = n
    BY <1>1, <1>3, <1>4, <1>5, <2>1 DEF Keeps, n
  <2>2. CASE taken < n
    <3>1. short' # "nowhere"
      BY <1>1, <1>4, <1>5, <2>2
    <3>2. pos + (Current.size - Mark(Current, done)) <= End
      BY <1>1, <1>3, <1>4 DEF Keeps
    <3> QED BY SMTT(60), <1>1, <1>4, <1>5, <2>2, <3>1, <3>2 DEF n
  <2> QED BY <1>4, <1>5, <2>1, <2>2
<1>8. done + 1 \in 0 .. Len(ReadsOf(Current)) /\ pos' \in 0 .. arrived /\ Goes(done + 1)
  BY <1>1, <1>2, <1>5 DEF ReadField, TypeOK
<1> QED BY <1>1, <1>5, <1>6, <1>7, <1>8, GoesOn

\* Sizes are natural numbers.
LEMMA ValidSize == ASSUME NEW m, Valid(m) PROVE m.size \in Nat
<1>1. QuestionSize \in Nat
  BY QuestionCovers
<1>2. \A n \in 0 .. 6 : n * EntrySize \in Nat
  BY Multiples, WidthsAreNat
<1> QED BY <1>1, <1>2 DEF Valid, Types, Sizes, Named

\* A message is put at the end of the stream.
LEMMA SendStep ==
  ASSUME FramingInv, NEW m \in Messages, Send(m) PROVE FramingInv'
<1> DEFINE new == [type |-> m.type, size |-> m.size, start |-> wire]
<1>1. TypeOK /\ Stream /\ Place /\ sent \in Seq(SentMessage) /\ Len(sent) \in Nat
  BY SentMessages DEF FramingInv
<1>2. Valid(m) /\ m.size \in Nat /\ m.type \in Types
  <2>1. Valid(m)
    BY FramingAssumption DEF FramingAssumption, Valid
  <2> QED BY <2>1, ValidSize DEF Valid
<1>3. /\ sent' = Append(sent, new) /\ wire' = wire + HeaderSize + m.size
      /\ UNCHANGED <<at, done, arrived, pos, count, short>> /\ new \in SentMessage
      /\ wire \in Nat /\ wire' \in Nat /\ wire <= wire' /\ HeaderSize = 3
  BY SMTT(60), <1>1, <1>2 DEF Send, SentMessage, TypeOK, HeaderSize, TypeSize, SizeSize
<1>4. Valid(new)
  BY <1>2 DEF Valid
<1>5. new.start = wire /\ new.size = m.size
  OBVIOUS
<1> HIDE DEF new
<1>6. /\ sent' \in Seq(SentMessage) /\ Len(sent') = Len(sent) + 1
      /\ \A n \in 1 .. Len(sent) : sent'[n] = sent[n]
      /\ sent'[Len(sent) + 1] = new
  BY <1>1, <1>3, AppendProperties
<1>7. \A n \in 1 .. Len(sent) + 1 : Start(n)' = Start(n)
  BY <1>1, <1>3, <1>5, <1>6 DEF Start
<1>8. \A n \in Nat : n > Len(sent) + 1 => Start(n)' = wire'
  BY <1>1, <1>6 DEF Start
<1>9. Stream'
  <2>1. Start(1)' = 0
    BY <1>1, <1>7 DEF Stream
  <2>2. ASSUME NEW n \in 1 .. Len(sent)
        PROVE  /\ Valid(sent'[n])
               /\ Start(n + 1)' = sent'[n].start + HeaderSize + sent'[n].size
    BY <1>1, <1>6, <1>7, <2>2 DEF Stream
  <2>3. /\ Valid(new) /\ new.start + HeaderSize + new.size = wire'
        /\ \A n \in Nat : n = Len(sent) + 1 => Start(n + 1)' = wire'
    BY <1>1, <1>3, <1>4, <1>5, <1>8
  <2>4. ASSUME NEW n \in 1 .. Len(sent')
        PROVE  /\ Valid(sent'[n])
               /\ Start(n + 1)' = sent'[n].start + HeaderSize + sent'[n].size
    <3>1. CASE n = Len(sent) + 1
      BY <1>6, <2>3, <3>1
    <3>2. CASE n # Len(sent) + 1
      BY <1>1, <1>6, <2>2, <3>2
    <3> QED BY <3>1, <3>2
  <2> QED BY <2>1, <2>4 DEF Stream, Valid
<1>10. TypeOK' /\ count \in 0 .. Len(sent)
  <2>1. count \in 0 .. Len(sent) /\ count \in 0 .. Len(sent')
    BY <1>1, <1>6 DEF TypeOK
  <2>2. count > 0 => sent'[count] = sent[count]
    BY <1>6, <2>1
  <2>3. count > 0 => Current' = Current
    BY <1>3, <2>2 DEF Current
  <2> QED BY SMTT(60), <1>1, <1>3, <1>6, <2>1, <2>3 DEF TypeOK, SentMessage
<1>11. Place'
  <2>1. count > 0 => Current' = Current /\ End' = End
    BY <1>1, <1>3, <1>6, <1>10 DEF Current, End
  <2>2. Start(count + 1)' = Start(count + 1)
    BY <1>1, <1>3, <1>7, <1>10 DEF Start
  <2>3. at \in {"size", "payload"} => count > 0
    BY <1>1 DEF TypeOK
  <2> QED BY <1>1, <1>3, <2>1, <2>2, <2>3 DEF Place, Keeps, Mark
<1> QED BY <1>3, <1>9, <1>10, <1>11 DEF FramingInv, OneByteFieldsSurvive

LEMMA OtherStep == FramingInv /\ (Arrive \/ Idle \/ UNCHANGED vars) => FramingInv'
<1> SUFFICES ASSUME FramingInv, Arrive \/ Idle \/ UNCHANGED vars PROVE FramingInv'
  OBVIOUS
<1>1. UNCHANGED <<at, done, sent, wire, pos, count, short>> /\ arrived' \in arrived .. wire
  BY DEF Arrive, Idle, vars, FramingInv, TypeOK
<1>2. TypeOK'
  BY <1>1 DEF FramingInv, TypeOK, Current
<1>3. Place'
  BY <1>1 DEF FramingInv, Place, Keeps, Start, End, Current, Mark
<1> QED BY <1>1, <1>2, <1>3, StreamKept DEF FramingInv, OneByteFieldsSurvive

LEMMA FramingStarts == Init => FramingInv
<1> SUFFICES ASSUME Init PROVE FramingInv
  OBVIOUS
<1>1. /\ at = "type" /\ done = 0 /\ sent = <<>> /\ wire = 0 /\ arrived = 0 /\ pos = 0
      /\ count = 0 /\ short = "nowhere" /\ sent \in Seq(SentMessage) /\ Len(sent) = 0
  BY EmptySeq DEF Init
<1>2. TypeOK
  BY <1>1 DEF TypeOK, SentMessage
<1>3. Stream /\ Place
  BY <1>1 DEF Stream, Place, Start, Keeps
<1> QED BY <1>1, <1>2, <1>3 DEF FramingInv, OneByteFieldsSurvive

LEMMA FramingHolds == Spec => []FramingInv
<1>1. FramingInv /\ [Next]_vars => FramingInv'
  BY TypeStep, LosesStep, SizeStep, FieldStep, SendStep, OtherStep DEF Next, Listener
<1> QED BY <1>1, FramingStarts, PTL DEF Spec

-----------------------------------------------------------------------------
(* The theorems.                                                           *)

\* Every variable keeps its type; in particular the listener takes no byte that has not
\* arrived, and an unfinished payload has a read to come (li_qu_thread.c:73-440).
THEOREM TypeCorrect == Spec => []TypeOK
<1>1. FramingInv => TypeOK
  BY DEF FramingInv
<1> QED BY <1>1, FramingHolds, PTL

\* The bytes that the reads of the message under way have still to take.
LEMMA LeftOver ==
  ASSUME FramingInv, at \in {"payload", "type"}
  PROVE  /\ pos + Left \in Int /\ End \in Nat
         /\ IF short = "nowhere" THEN pos + Left = End ELSE pos + Left < End
<1>1. TypeOK /\ Stream /\ Place /\ pos \in Nat /\ count \in Nat
  BY DEF FramingInv, TypeOK
<1>2. CASE count = 0
  <2>1. at = "type" /\ Start(1) = 0 /\ count + 1 = 1
    BY <1>1, <1>2 DEF TypeOK, Stream
  <2> QED BY <1>1, <1>2, <2>1 DEF Place, Keeps, Left, End
<1>3. CASE count > 0
  <2>1. /\ Valid(Current) /\ Current.size \in Nat /\ End = Start(count + 1) /\ End \in Nat
    BY <1>1, <1>3, CurrentMessage
  <2>2. Len(ReadsOf(Current)) \in Nat
    BY <2>1, CasesCover, LenProperties DEF Covers
  <2>3. Mark(Current, Len(ReadsOf(Current))) = Current.size
    BY <2>1, <2>2, MarksRise
  <2>4. Left = Current.size - Mark(Current, done)
    BY <1>1, <1>3, <2>3 DEF Left
  <2>5. CASE at = "payload"
    <3>1. Mark(Current, done) \in Nat
      BY <1>1, <2>1, <2>2, <2>5, MarksRise DEF TypeOK
    <3> QED BY <1>1, <2>1, <2>4, <2>5, <3>1 DEF Place, Keeps
  <2>6. CASE at = "type"
    <3>1. Left = 0
      BY <1>1, <1>3, <2>1, <2>3, <2>4, <2>6 DEF Place
    <3> QED BY <1>1, <2>1, <2>6, <3>1 DEF Place, Keeps
  <2> QED BY <2>5, <2>6
<1> QED BY <1>1, <1>2, <1>3

\* As long as no read came up short, the cases of the listener read exactly the payload
\* that the header announces, though most of them ignore its size: for every width of the
\* fields and every sequence of messages (li_qu_thread.c:88-440).
THEOREM WholeMessagesRead == Spec => []ReadsWholeMessage
<1>1. FramingInv => ReadsWholeMessage
  BY LeftOver DEF ReadsWholeMessage
<1> QED BY <1>1, FramingHolds, PTL

\* However the network cuts the stream, no case waits for a byte of a later message: a
\* short read leaves the listener behind, never ahead (li_qu_thread.c:76-440).
THEOREM NeverReadsAhead == Spec => []StaysInMessage
<1>1. FramingInv => StaysInMessage
  BY LeftOver DEF StaysInMessage
<1> QED BY <1>1, FramingHolds, PTL

\* The listener loses its place exactly by a short read: it never does without one, and
\* never finds the next header again after one (li_qu_thread.c:76-86).
THEOREM LostOnlyByShortReads == Spec => []LostByShortReads
<1>1. FramingInv => LostByShortReads
  BY Behind DEF LostByShortReads, FramingInv, Place
<1> QED BY <1>1, FramingHolds, PTL

\* Only a header, a player list and a question can be cut: the other cases read byte by
\* byte, whatever the lengths of names and texts (li_qu_thread.c:124-128, 318-325, 386-399).
THEOREM ByteFieldsSurvive == Spec => []OneByteFieldsSurvive
<1>1. FramingInv => OneByteFieldsSurvive
  BY DEF FramingInv
<1> QED BY <1>1, FramingHolds, PTL

=============================================================================
