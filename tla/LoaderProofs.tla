---------------------------- MODULE LoaderProofs ----------------------------
(***************************************************************************)
(* Proofs about Loader: the shared memory a LOADED reply announces holds   *)
(* the whole catalog, and nobody but the server changes it afterwards.     *)
(*                                                                         *)
(* IInv says how far moveToShmem has come: what is still on the stack is   *)
(* the head of the file, what was popped stands where order sends it, and  *)
(* order and answerOrder are permutations however often mix has swapped.   *)
(* What a LOAD leaves behind needs to know in addition what it is about to *)
(* reply (ResultInv), where the stack is empty (DrainInv) and whose the    *)
(* shared memory is (OrphanInv); one answer for each command is inductive  *)
(* on top of these (Balanced).                                             *)
(*                                                                         *)
(* Under IInv the quiz read out of the shared memory is the published      *)
(* file, so a step of the refinement of QuizStore needs to be followed in  *)
(* pc, stdin, stdout and published only.                                   *)
(***************************************************************************)
EXTENDS LoaderStore, SequenceTheorems, FiniteSetTheorems, TLAPS

Permutations(S) ==
  {f \in [S -> S] : /\ \A a, b \in S : f[a] = f[b] => a = b
                    /\ \A b \in S : \E a \in S : f[a] = b}

numQuestions == Len(parsed)
Filling == {"fill", "mixAnswers"}
Creating == {"truncate", "map"} \cup Filling

StackInv ==
  /\ pc \in {"parse", "mix"} \cup Creating =>
       \A j \in 1 .. Len(stack) : stack[j] = [question |-> j, correct |-> parsed[j]]
  /\ pc \in {"parse", "mix", "truncate", "map"} => Len(stack) = numQuestions
CountInv ==
  /\ pc = "fill" => i \in 0 .. numQuestions /\ Len(stack) = numQuestions - i
  /\ pc = "mixAnswers" =>
       /\ i \in 0 .. numQuestions - 1 /\ Len(stack) = numQuestions - i - 1
       /\ current = [question |-> numQuestions - i, correct |-> parsed[numQuestions - i]]
OrderInv ==
  /\ pc \in {"mix"} \cup Creating => order \in Permutations(0 .. numQuestions - 1)
  /\ pc = "mixAnswers" => answerOrder \in Permutations(Answers)
SlotInv ==
  /\ pc \in {"map"} \cup Filling => DOMAIN shmem = 0 .. numQuestions - 1
  /\ pc \in Filling =>
       \A j \in 0 .. i - 1 : /\ shmem[order[j]].question = numQuestions - j
                             /\ Holds(shmem[order[j]], parsed)
OwnerInv ==
  pc \in Creating \/ (pc = "reply" /\ reply.type = "LOADED") => exists /\ published = <<>>

WorkInv == StackInv /\ CountInv /\ OrderInv /\ SlotInv
IInv == TypeOK /\ WorkInv /\ OwnerInv /\ QuizReady

ResultInv ==
  /\ pc \in {"mix"} \cup Creating => parsed # <<>>
  /\ pc = "reply" =>
       \/ reply = [type |-> "LOADED", size |-> Len(parsed)] /\ parsed # <<>>
       \/ \E e \in Errors : reply = Err(e)

DrainInv == pc \in {"read", "browse", "blank"} \cup Gone => stack = <<>>
OrphanInv ==
  exists /\ published = <<>> /\ kills = 0 =>
    pc \in Creating \cup Gone \/ (pc = "reply" /\ reply.type = "LOADED")

-----------------------------------------------------------------------------
(* mix and writeQuestionToShmem.                                           *)

\* mix: a pass leaves a permutation a permutation (load.c:36-46).
LEMMA SwapPermutes ==
  ASSUME NEW S, NEW f \in Permutations(S), NEW a \in S, NEW b \in S
  PROVE  Swap(f, a, b) \in Permutations(S)
<1> DEFINE g == Swap(f, a, b)
<1>1. f \in [S -> S]
  BY DEF Permutations
<1>2. g = [x \in S |-> IF x = b THEN f[a] ELSE IF x = a THEN f[b] ELSE f[x]]
  BY <1>1 DEF Swap
<1>3. g \in [S -> S]
  BY <1>1, <1>2
<1>4. \A x, y \in S : g[x] = g[y] => x = y
  BY <1>2 DEF Permutations
<1>5. \A y \in S : \E x \in S : g[x] = y
  <2> SUFFICES ASSUME NEW y \in S PROVE \E x \in S : g[x] = y
    OBVIOUS
  <2>1. PICK z \in S : f[z] = y
    BY DEF Permutations
  <2>2. CASE z = a
    BY <2>1, <2>2, <1>2
  <2>3. CASE z = b
    BY <2>1, <2>3, <1>2
  <2>4. CASE z # a /\ z # b
    BY <2>1, <2>4, <1>2
  <2> QED BY <2>2, <2>3, <2>4
<1> QED BY <1>3, <1>4, <1>5 DEF Permutations

\* The arrays mix starts from are permutations (load.c:67-68, 91-92).
LEMMA SequencePermutes ==
  ASSUME NEW size \in Nat
  PROVE  Sequence(size) \in Permutations(0 .. size - 1)
BY DEF Sequence, Permutations

\* An answer's text ends up where the order sends it (load.c:98-99).
LEMMA TextPlaced ==
  ASSUME NEW ord \in Permutations(Answers), NEW a \in Answers
  PROVE  Text(ord, ord[a]) = a + 1
<1> DEFINE P(t) == /\ t # 0 => ord[t - 1] = ord[a]
                   /\ \A b \in Answers : ord[b] = ord[a] => b + 1 <= t
<1>1. a \in 0 .. NUM_ANSWERS - 1 /\ NUM_ANSWERS \in Nat
  BY LoaderAssumption DEF Answers
<1>2. a + 1 \in Texts /\ P(a + 1)
  BY <1>1 DEF Permutations, Texts, Answers
<1>3. ASSUME NEW t \in Texts, P(t) PROVE t = a + 1
  <2>1. a + 1 <= t
    BY <1>3
  <2>2. t \in 0 .. NUM_ANSWERS /\ t # 0
    BY <2>1, <1>1 DEF Texts
  <2>3. t - 1 \in Answers /\ ord[t - 1] = ord[a]
    BY <2>2, <1>1, <1>3 DEF Answers
  <2>4. t - 1 = a
    BY <2>3 DEF Permutations
  <2> QED BY <2>2, <2>4, <1>1
<1>4. Text(ord, ord[a]) = CHOOSE t \in Texts : P(t)
  BY DEF Text
<1> HIDE DEF P
<1> QED BY <1>2, <1>3, <1>4

\* A mixed question has all answers and its right one marked (load.c:98-102).
LEMMA MixedRight ==
  ASSUME NEW ord \in Permutations(Answers), NEW item \in Item,
         NEW file, file[item.question] = item.correct
  PROVE  /\ Mixed(item, ord) \in Question
         /\ Mixed(item, ord).question = item.question
         /\ Holds(Mixed(item, ord), file)
<1> DEFINE m == Mixed(item, ord)
<1>1. NUM_ANSWERS \in Nat /\ ord \in [Answers -> Answers] /\ item.correct \in Answers
        /\ item.question \in Nat
  BY LoaderAssumption DEF Permutations, Item
<1>2. /\ m.question = item.question /\ m.correct = ord[item.correct]
      /\ m.answers = [b \in Answers |-> Text(ord, b)]
  BY DEF Mixed
<1>3. \A a \in Answers : m.answers[ord[a]] = a + 1
  BY <1>1, <1>2, TextPlaced
<1>4. \A b \in Answers : m.answers[b] \in Texts
  <2> SUFFICES ASSUME NEW b \in Answers PROVE m.answers[b] \in Texts
    OBVIOUS
  <2>1. PICK a \in Answers : ord[a] = b
    BY DEF Permutations
  <2>2. m.answers[b] = a + 1
    BY <2>1, <1>3
  <2> QED BY <2>2, <1>1 DEF Answers, Texts
<1>5. m.answers \in [Answers -> Texts]
  BY <1>2, <1>4
<1>6. m \in Question
  <2>1. m = [question |-> m.question, answers |-> m.answers, correct |-> m.correct]
    BY DEF Mixed
  <2>2. m.correct \in Answers
    BY <1>1, <1>2
  <2> QED BY <2>1, <2>2, <1>1, <1>2, <1>5 DEF Question
<1>7. m.answers[m.correct] = file[m.question] + 1
  BY <1>1, <1>2, <1>3
<1>8. \A t \in Texts \ {0} : \E a \in Answers : m.answers[a] = t
  <2> SUFFICES ASSUME NEW t \in Texts \ {0} PROVE \E a \in Answers : m.answers[a] = t
    OBVIOUS
  <2>1. t - 1 \in Answers /\ t = (t - 1) + 1
    BY <1>1 DEF Texts, Answers
  <2>2. ord[t - 1] \in Answers
    BY <2>1, <1>1
  <2> QED BY <2>1, <2>2, <1>3
<1> HIDE DEF m
<1> QED BY <1>2, <1>6, <1>7, <1>8 DEF Holds, m

-----------------------------------------------------------------------------
(* Types.                                                                  *)

\* A write appends one reply, or ends the loader (SIGPIPE).
LEMMA WriteTyped ==
  ASSUME PipeTypeOK, NEW r \in Replies, NEW next \in Labels, Write(r, next)
  PROVE  /\ pc' \in Labels
         /\ stdout' \in Seq(Replies) /\ answered' \in Nat
<1> USE DEF PipeTypeOK, Write
<1>1. CASE stdoutOpen
  <2>1. stdout' = Append(stdout, r) /\ stdout \in Seq(Replies)
    BY <1>1
  <2>2. stdout' \in Seq(Replies)
    BY <2>1, AppendProperties
  <2> QED BY <1>1, <2>2
<1>2. CASE ~stdoutOpen
  BY <1>2 DEF Labels
<1> QED BY <1>1, <1>2

\* What a step leaves unchanged keeps its type.
LEMMA Kept ==
  ASSUME TypeOK
  PROVE  /\ UNCHANGED dirVars => BrowseTypeOK'
         /\ UNCHANGED <<stack, parsed, current>> => StackTypeOK'
         /\ UNCHANGED <<mixVars, i>> => MixTypeOK'
         /\ UNCHANGED shmVars => ShmTypeOK'
         /\ UNCHANGED <<pipeVars, envVars, reply>> => PipeTypeOK'
  BY DEF TypeOK, BrowseTypeOK, StackTypeOK, MixTypeOK, ShmTypeOK, PipeTypeOK,
         dirVars, mixVars, shmVars, pipeVars, envVars

\* Taking a command leaves commands in the pipe.
LEMMA NextCommandTyped ==
  ASSUME PipeTypeOK, NEW c, NextCommand(c)
  PROVE  stdin' \in Seq(Commands)
  BY DEF PipeTypeOK, NextCommand

\* The errors and the count a LOAD may answer.
LEMMA ReplyTyped ==
  /\ \A e \in Errors : Err(e) \in Replies
  /\ \A n \in Nat : [type |-> "LOADED", size |-> n] \in Replies
  /\ [type |-> "blank", size |-> 0] \in Replies
  /\ \A f \in Catalogs : [type |-> "name", file |-> f] \in Replies
  BY DEF Err, Replies, Errors

\* load returns: its locals have their initial values again.
LEMMA LocalsEndTyped ==
  ASSUME LocalsEnd
  PROVE  /\ MixTypeOK' /\ reply' \in Replies
         /\ stack' = <<>> => StackTypeOK'
<1>1. reply' \in Replies
  BY ReplyTyped DEF LocalsEnd, Errors
<1>2. MixTypeOK'
  BY DEF LocalsEnd, MixTypeOK
<1>3. NoItem \in Item
  BY LoaderAssumption DEF NoItem, Item, Answers
<1>4. stack' = <<>> => StackTypeOK'
  BY <1>3 DEF LocalsEnd, StackTypeOK
<1> QED BY <1>1, <1>2, <1>4

\* BROWSE and the other commands keep the types.
LEMMA CommandsTyped ==
  ASSUME TypeOK,
         \/ ReadBrowse \/ BrowseEntry \/ BrowseEnd \/ WriteBlank \/ ReadOther \/ ReadEnd
  PROVE  TypeOK'
<1>1. CASE ReadBrowse
  <2>1. stdin' \in Seq(Commands)
    BY <1>1, NextCommandTyped DEF ReadBrowse, TypeOK
  <2>2. BrowseTypeOK' /\ pc' \in Labels
    BY <1>1, LoaderAssumption DEF ReadBrowse, TypeOK, BrowseTypeOK, Labels
  <2> QED BY <1>1, <2>1, <2>2, Kept DEF ReadBrowse, TypeOK, PipeTypeOK, envVars, mixVars,
             fillVars
<1>2. CASE BrowseEntry
  <2>1. PICK f \in Catalogs \ shown : /\ Write([type |-> "name", file |-> f], "browse")
                                      /\ shown' = shown \cup {f}
    BY <1>2 DEF BrowseEntry
  <2>2. pc' \in Labels /\ stdout' \in Seq(Replies) /\ answered' \in Nat
    BY <2>1, ReplyTyped, WriteTyped DEF TypeOK, Labels
  <2>3. BrowseTypeOK'
    BY <1>2, <2>1 DEF BrowseEntry, TypeOK, BrowseTypeOK
  <2> QED BY <1>2, <2>2, <2>3, Kept DEF BrowseEntry, TypeOK, PipeTypeOK, envVars, mixVars,
             fillVars
<1>3. CASE BrowseEnd
  BY <1>3, Kept DEF BrowseEnd, TypeOK, Labels, fillVars, mixVars, envVars, pipeVars
<1>4. CASE WriteBlank
  <2>1. pc' \in Labels /\ stdout' \in Seq(Replies) /\ answered' \in Nat
    BY <1>4, ReplyTyped, WriteTyped DEF WriteBlank, TypeOK, Labels
  <2>2. BrowseTypeOK'
    BY <1>4 DEF WriteBlank, TypeOK, BrowseTypeOK
  <2> QED BY <1>4, <2>1, <2>2, Kept DEF WriteBlank, TypeOK, PipeTypeOK, envVars, mixVars,
             fillVars
<1>5. CASE ReadOther
  <2>1. stdin' \in Seq(Commands)
    BY <1>5, NextCommandTyped DEF ReadOther, TypeOK
  <2> QED BY <1>5, <2>1, Kept DEF ReadOther, TypeOK, PipeTypeOK, envVars, mixVars, fillVars
<1>6. CASE ReadEnd
  BY <1>6, Kept DEF ReadEnd, TypeOK, Labels, fillVars, mixVars, envVars, pipeVars
<1> QED BY <1>1, <1>2, <1>3, <1>4, <1>5, <1>6

\* Reading and parsing a catalog keeps the types.
LEMMA ParsingTyped ==
  ASSUME TypeOK, ReadLoadRefused \/ ReadLoad \/ ParseQuestion \/ ParseFails \/ ParseEnd
  PROVE  TypeOK'
<1>1. CASE ReadLoadRefused
  <2>1. stdin' \in Seq(Commands) /\ reply' \in Replies
    BY <1>1, NextCommandTyped, ReplyTyped DEF ReadLoadRefused, TypeOK, Finish, Errors
  <2> QED BY <1>1, <2>1, Kept DEF ReadLoadRefused, Finish, TypeOK, PipeTypeOK, envVars,
             mixVars, fillVars, Labels
<1>2. CASE ReadLoad
  <2>1. stdin' \in Seq(Commands) /\ reply' \in Replies
    BY <1>2, NextCommandTyped, ReplyTyped DEF ReadLoad, TypeOK, PipeTypeOK, Finish, Errors
  <2>2. StackTypeOK' /\ pc' \in Labels
    BY <1>2 DEF ReadLoad, Finish, TypeOK, StackTypeOK, Labels, fillVars
  <2> QED BY <1>2, <2>1, <2>2, Kept DEF ReadLoad, TypeOK, PipeTypeOK, envVars, mixVars,
             fillVars
<1>3. CASE ParseQuestion
  <2>1. PICK c \in Answers :
          /\ stack' = Append(stack, [question |-> Len(stack) + 1, correct |-> c])
          /\ parsed' = Append(parsed, c)
    BY <1>3 DEF ParseQuestion
  <2>2. Len(stack) \in Nat
    BY DEF TypeOK, StackTypeOK
  <2>3. [question |-> Len(stack) + 1, correct |-> c] \in Item
    BY <2>2 DEF Item
  <2>4. StackTypeOK'
    BY <1>3, <2>1, <2>3 DEF ParseQuestion, TypeOK, StackTypeOK, fillVars
  <2> QED BY <1>3, <2>4, Kept DEF ParseQuestion, TypeOK, fillVars
<1>4. CASE ParseFails
  <2>1. reply' \in Replies /\ pc' \in Labels
    BY <1>4, ReplyTyped DEF ParseFails, Finish, Errors, Labels
  <2>2. StackTypeOK'
    BY <1>4 DEF ParseFails, TypeOK, StackTypeOK, fillVars
  <2> QED BY <1>4, <2>1, <2>2, Kept DEF ParseFails, TypeOK, PipeTypeOK, envVars, pipeVars,
             fillVars
<1>5. CASE ParseEnd
  <2>1. reply' \in Replies /\ pc' \in Labels
    BY <1>5, ReplyTyped DEF ParseEnd, Finish, Errors, Labels, TypeOK, PipeTypeOK
  <2>2. Len(stack) \in Nat
    BY DEF TypeOK, StackTypeOK
  <2>3. MixTypeOK'
    BY <1>5, <2>2 DEF ParseEnd, TypeOK, MixTypeOK, Sequence, Passes, fillVars, mixVars
  <2> QED BY <1>5, <2>1, <2>3, Kept DEF ParseEnd, TypeOK, PipeTypeOK, envVars, pipeVars,
             fillVars
<1> QED BY <1>1, <1>2, <1>3, <1>4, <1>5

\* A shared memory of size 0 is an array of questions, and no file is one too.
LEMMA EmptyTyped ==
  /\ <<>> \in [DOMAIN <<>> -> Question]
  /\ <<>> \in Seq(Answers)
<1>1. <<>> \in Seq(Question) /\ <<>> \in Seq(Answers)
  BY EmptySeq
<1>2. <<>> \in [1 .. Len(<<>>) -> Question] /\ DOMAIN <<>> = 1 .. Len(<<>>)
  BY <1>1, LenProperties
<1> QED BY <1>1, <1>2

\* A swap of two places keeps an array over its index set.
LEMMA SwapTyped ==
  ASSUME NEW S, NEW f \in [S -> S], NEW a \in S, NEW b \in S
  PROVE  Swap(f, a, b) \in [S -> S]
  BY DEF Swap

\* Creating, mixing and filling the shared memory keeps the types.
LEMMA FillingTyped ==
  ASSUME TypeOK, WorkInv,
         \/ MixOrder \/ ShmOpen \/ Truncate \/ Map \/ Pop \/ MixAnswers \/ WriteQuestion
         \/ Filled \/ WriteReply
  PROVE  TypeOK'
<1>1. CASE MixOrder
  <2>1. PICK a, b \in DOMAIN order : order' = Swap(order, a, b)
    BY <1>1 DEF MixOrder
  <2>2. order \in [DOMAIN order -> DOMAIN order]
    BY DEF TypeOK, MixTypeOK
  <2>3. order' \in [DOMAIN order -> DOMAIN order]
    BY <2>1, <2>2, SwapTyped
  <2>4. passesLeft' \in Nat
    BY <1>1 DEF MixOrder, TypeOK, MixTypeOK
  <2>5. MixTypeOK'
    BY <1>1, <2>3, <2>4 DEF MixOrder, TypeOK, MixTypeOK, fillVars
  <2> QED BY <1>1, <2>5, Kept DEF MixOrder, TypeOK, fillVars
<1>2. CASE ShmOpen
  <2>1. reply' \in Replies /\ pc' \in Labels
    BY <1>2, ReplyTyped DEF ShmOpen, Finish, Errors, Labels, TypeOK, PipeTypeOK
  <2>2. ShmTypeOK'
    BY <1>2, EmptyTyped DEF ShmOpen, TypeOK, ShmTypeOK, shmVars
  <2> QED BY <1>2, <2>1, <2>2, Kept DEF ShmOpen, TypeOK, PipeTypeOK, envVars, pipeVars,
             fillVars, mixVars
<1>3. CASE Truncate
  <2>1. reply' \in Replies /\ pc' \in Labels
    BY <1>3, ReplyTyped DEF Truncate, Finish, Errors, Labels, TypeOK, PipeTypeOK
  <2>2. Blank \in Question
    BY LoaderAssumption DEF Blank, Question, Answers, Texts
  <2>3. ASSUME shmem' = [n \in 0 .. Len(stack) - 1 |-> Blank], UNCHANGED exists
        PROVE  ShmTypeOK'
    <3>1. shmem' \in [DOMAIN shmem' -> Question]
      BY <2>2, <2>3
    <3> QED BY <1>3, <2>3, <3>1 DEF Truncate, TypeOK, ShmTypeOK
  <2>4. ASSUME Unlinked PROVE ShmTypeOK'
    BY <1>3, <2>4, EmptyTyped DEF Truncate, Unlinked, TypeOK, ShmTypeOK
  <2>5. ShmTypeOK'
    BY <1>3, <2>3, <2>4 DEF Truncate
  <2> QED BY <1>3, <2>1, <2>5, Kept DEF Truncate, TypeOK, PipeTypeOK, envVars, pipeVars,
             fillVars, mixVars
<1>4. CASE Map
  <2>1. reply' \in Replies /\ pc' \in Labels
    BY <1>4, ReplyTyped DEF Map, Finish, Errors, Labels, TypeOK, PipeTypeOK
  <2>2. ASSUME Unlinked PROVE ShmTypeOK'
    BY <1>4, <2>2, EmptyTyped DEF Map, Unlinked, TypeOK, ShmTypeOK
  <2>3. ShmTypeOK'
    BY <1>4, <2>2 DEF Map, TypeOK, ShmTypeOK
  <2>4. i' \in Nat
    BY <1>4 DEF Map, TypeOK, MixTypeOK
  <2>5. MixTypeOK'
    BY <1>4, <2>4 DEF Map, TypeOK, MixTypeOK, mixVars
  <2> QED BY <1>4, <2>1, <2>3, <2>5, Kept DEF Map, TypeOK, PipeTypeOK, envVars, pipeVars
<1>5. CASE Pop
  <2>1. stack \in Seq(Item) /\ stack # <<>>
    BY <1>5 DEF Pop, TypeOK, StackTypeOK
  <2>2. Len(stack) \in Nat \ {0}
    BY <2>1, EmptySeq, LenProperties
  <2>3. stack[Len(stack)] \in Item
    BY <2>1, <2>2
  <2>4. SubSeq(stack, 1, Len(stack) - 1) \in Seq(Item)
    BY <2>1, <2>2
  <2>5. StackTypeOK'
    BY <1>5, <2>3, <2>4 DEF Pop, TypeOK, StackTypeOK
  <2>6. MixTypeOK'
    BY SMTT(60), <1>5, LoaderAssumption DEF Pop, TypeOK, MixTypeOK, Sequence, Passes, Answers
  <2> QED BY <1>5, <2>5, <2>6, Kept DEF Pop, TypeOK, PipeTypeOK, envVars, pipeVars, Labels
<1>6. CASE MixAnswers
  <2>1. PICK a, b \in Answers : answerOrder' = Swap(answerOrder, a, b)
    BY <1>6 DEF MixAnswers
  <2>2. answerOrder \in [Answers -> Answers]
    BY <1>6 DEF MixAnswers, WorkInv, OrderInv, Permutations
  <2>3. answerOrder' \in [Answers -> Answers]
    BY <2>1, <2>2, SwapTyped
  <2>4. MixTypeOK'
    BY <1>6, <2>3 DEF MixAnswers, TypeOK, MixTypeOK, fillVars
  <2> QED BY <1>6, <2>4, Kept DEF MixAnswers, TypeOK, fillVars
<1>7. CASE WriteQuestion
  <2>1. answerOrder \in Permutations(Answers) /\ current \in Item
    BY <1>7 DEF WriteQuestion, WorkInv, OrderInv, TypeOK, StackTypeOK
  <2>2. [x \in {current.question} |-> current.correct][current.question] = current.correct
    OBVIOUS
  <2>3. Mixed(current, answerOrder) \in Question
    BY <2>1, <2>2, MixedRight
  <2>4. ShmTypeOK'
    BY <1>7, <2>3 DEF WriteQuestion, TypeOK, ShmTypeOK
  <2>5. MixTypeOK'
    BY <1>7 DEF WriteQuestion, TypeOK, MixTypeOK
  <2> QED BY <1>7, <2>4, <2>5, Kept DEF WriteQuestion, TypeOK, Labels
<1>8. CASE Filled
  <2>1. i \in Nat
    BY DEF TypeOK, MixTypeOK
  <2>2. reply' \in Replies /\ pc' \in Labels
    BY <1>8, <2>1, ReplyTyped DEF Filled, Finish, Labels
  <2> QED BY <1>8, <2>2, Kept DEF Filled, TypeOK, PipeTypeOK, envVars, pipeVars, fillVars,
             mixVars
<1>9. CASE WriteReply
  <2>1. reply \in Replies
    BY DEF TypeOK, PipeTypeOK
  <2>2. pc' \in Labels /\ stdout' \in Seq(Replies) /\ answered' \in Nat
    BY <1>9, <2>1, WriteTyped DEF WriteReply, TypeOK, Labels
  <2>3. MixTypeOK' /\ reply' \in Replies /\ StackTypeOK'
    BY <1>9, LocalsEndTyped DEF WriteReply
  <2>4. ShmTypeOK'
    BY <1>9 DEF WriteReply, TypeOK, ShmTypeOK, StackTypeOK
  <2> QED BY <1>9, <2>2, <2>3, <2>4, Kept DEF WriteReply, TypeOK, PipeTypeOK, envVars
<1> QED BY <1>1, <1>2, <1>3, <1>4, <1>5, <1>6, <1>7, <1>8, <1>9

\* The server and what kills a loader keep the types.
LEMMA EnvironmentTyped ==
  ASSUME TypeOK, Environment \/ Stopped
  PROVE  TypeOK'
<1>1. CASE Send
  <2>1. stdin' \in Seq(Commands) /\ asked' \in Nat
    BY <1>1 DEF Send, TypeOK, PipeTypeOK
  <2> QED BY <1>1, <2>1, Kept DEF Send, TypeOK, PipeTypeOK, mixVars, fillVars
<1>2. CASE Receive
  <2>1. stdout' \in Seq(Replies)
    BY <1>2 DEF Receive, TypeOK, PipeTypeOK
  <2> QED BY <1>2, <2>1, Kept DEF Receive, TypeOK, PipeTypeOK, mixVars, fillVars, envVars
<1>3. CASE ClosePipe
  BY <1>3, Kept DEF ClosePipe, TypeOK, PipeTypeOK, mixVars, fillVars, envVars
<1>4. CASE Unlink
  <2>1. ShmTypeOK'
    BY <1>4, EmptyTyped DEF Unlink, Unlinked, ShmTypeOK
  <2> QED BY <1>4, <2>1, Kept DEF Unlink, TypeOK, mixVars, fillVars
<1>5. CASE Kill
  <2>1. MixTypeOK' /\ reply' \in Replies /\ StackTypeOK'
    BY <1>5, LocalsEndTyped DEF Kill
  <2>2. BrowseTypeOK' /\ pc' \in Labels
    BY <1>5 DEF Kill, TypeOK, BrowseTypeOK, Labels
  <2> QED BY <1>5, <2>1, <2>2, Kept DEF Kill, TypeOK, PipeTypeOK, pipeVars, envVars
<1>6. CASE Restart
  <2>1. BrowseTypeOK' /\ pc' \in Labels
    BY <1>6, LoaderAssumption DEF Restart, BrowseTypeOK, Labels
  <2>2. PipeTypeOK'
    BY <1>6 DEF Restart, TypeOK, PipeTypeOK
  <2> QED BY <1>6, <2>1, <2>2, Kept DEF Restart, TypeOK, mixVars, fillVars
<1>7. CASE Stopped
  BY <1>7, Kept DEF Stopped, vars, TypeOK, mixVars, fillVars
<1> QED BY <1>1, <1>2, <1>3, <1>4, <1>5, <1>6, <1>7 DEF Environment

\* Every step keeps the types.
LEMMA NextTyped ==
  ASSUME TypeOK, WorkInv, [Next]_vars
  PROVE  TypeOK'
<1>1. CASE LoaderStep
  BY <1>1, CommandsTyped, ParsingTyped, FillingTyped DEF LoaderStep
<1>2. CASE Environment \/ Stopped
  BY <1>2, EnvironmentTyped
<1>3. CASE UNCHANGED vars
  BY <1>3, Kept DEF vars, TypeOK, mixVars, fillVars
<1> QED BY <1>1, <1>2, <1>3 DEF Next

-----------------------------------------------------------------------------
(* The steps of moveToShmem, and every other step.                         *)

Rest == WorkInv /\ OwnerInv /\ QuizReady

\* Outside load, and on its way out with an error, only the published quiz
\* matters, and a step that leaves the shared memory alone leaves it ready.
LEMMA AwayRest ==
  ASSUME QuizReady, pc' \notin {"parse", "mix"} \cup Creating, UNCHANGED shmVars,
         pc' = "reply" => reply'.type # "LOADED"
  PROVE  Rest'
<1>1. WorkInv' /\ OwnerInv'
  BY DEF WorkInv, StackInv, CountInv, OrderInv, SlotInv, OwnerInv, Creating, Filling
<1>2. UNCHANGED exists /\ UNCHANGED shmem /\ UNCHANGED published
  BY DEF shmVars
<1>3. QuizReady'
  BY <1>2 DEF QuizReady, ReadyFor
<1> QED BY <1>1, <1>3 DEF Rest

\* A step that moves neither load nor the shared memory keeps everything.
LEMMA StayRest ==
  ASSUME Rest, UNCHANGED <<pc, stack, order, answerOrder, fillVars, reply, shmVars, parsed>>
  PROVE  Rest'
<1>1. /\ UNCHANGED pc /\ UNCHANGED stack /\ UNCHANGED order /\ UNCHANGED answerOrder
      /\ UNCHANGED i /\ UNCHANGED current /\ UNCHANGED reply /\ UNCHANGED parsed
      /\ UNCHANGED exists /\ UNCHANGED shmem /\ UNCHANGED published
  BY DEF fillVars, shmVars
<1>2. WorkInv'
  BY <1>1 DEF Rest, WorkInv, StackInv, CountInv, OrderInv, SlotInv, numQuestions
<1>3. OwnerInv' /\ QuizReady'
  BY <1>1 DEF Rest, OwnerInv, QuizReady, ReadyFor
<1> QED BY <1>2, <1>3 DEF Rest

\* A reply that is an error is not a LOADED.
LEMMA ErrorReply ==
  ASSUME NEW e \in Errors, Finish(Err(e))
  PROVE  pc' = "reply" /\ reply'.type # "LOADED"
  BY DEF Finish, Err, Errors

\* The steps that leave load's work alone.
LEMMA QuietRest ==
  ASSUME IInv,
         \/ ReadBrowse \/ BrowseEntry \/ BrowseEnd \/ WriteBlank \/ ReadOther \/ ReadEnd
         \/ ReadLoadRefused \/ ParseFails \/ Send \/ Receive \/ ClosePipe \/ Kill \/ Restart
         \/ Stopped \/ UNCHANGED vars
  PROVE  Rest'
<1> USE DEF IInv, Creating, Filling
<1>1. CASE ReadBrowse
  BY <1>1, AwayRest DEF ReadBrowse
<1>2. CASE BrowseEntry
  BY <1>2, AwayRest DEF BrowseEntry, Write
<1>3. CASE BrowseEnd
  BY <1>3, AwayRest DEF BrowseEnd
<1>4. CASE WriteBlank
  BY <1>4, AwayRest DEF WriteBlank, Write
<1>5. CASE ReadEnd
  BY <1>5, AwayRest DEF ReadEnd
<1>6. CASE ReadLoadRefused
  BY <1>6, AwayRest, ErrorReply DEF ReadLoadRefused, Errors
<1>7. CASE ParseFails
  <2>1. pc' = "reply" /\ reply'.type # "LOADED"
    BY <1>7, ErrorReply DEF ParseFails, Errors
  <2> QED BY <1>7, <2>1, AwayRest DEF ParseFails
<1>8. CASE Kill
  BY <1>8, AwayRest DEF Kill
<1>9. CASE Restart
  BY <1>9, AwayRest DEF Restart
<1>10. CASE ReadOther \/ Send \/ Receive \/ ClosePipe \/ Stopped \/ UNCHANGED vars
  BY <1>10, StayRest DEF ReadOther, Send, Receive, ClosePipe, Stopped, vars, Rest, mixVars,
     fillVars
<1> QED BY <1>1, <1>2, <1>3, <1>4, <1>5, <1>6, <1>7, <1>8, <1>9, <1>10

\* The parser's loop: the stack mirrors the file (parser.c:315-324), and the
\* order of its questions starts as a permutation (load.c:119).
LEMMA ParsingRest ==
  ASSUME IInv, ReadLoad \/ ParseQuestion \/ ParseEnd
  PROVE  Rest'
<1> USE DEF IInv, Creating, Filling
<1>1. UNCHANGED shmVars => (UNCHANGED exists /\ UNCHANGED shmem /\ UNCHANGED published)
  BY DEF shmVars
<1>2. CASE ReadLoad
  <2>1. CASE pc' = "parse"
    <3>1. WorkInv'
      BY <1>2, <2>1 DEF ReadLoad, WorkInv, StackInv, CountInv, OrderInv, SlotInv, numQuestions
    <3>2. OwnerInv' /\ QuizReady'
      BY <1>1, <1>2, <2>1 DEF ReadLoad, OwnerInv, QuizReady, ReadyFor
    <3> QED BY <3>1, <3>2 DEF Rest
  <2>2. CASE pc' # "parse"
    <3>1. pc' = "reply" /\ reply'.type # "LOADED"
      BY <1>2, <2>2, ErrorReply DEF ReadLoad, Errors
    <3> QED BY <1>2, <3>1, AwayRest DEF ReadLoad
  <2> QED BY <2>1, <2>2
<1>3. CASE ParseQuestion
  <2>1. PICK c \in Answers :
          /\ stack' = Append(stack, [question |-> Len(stack) + 1, correct |-> c])
          /\ parsed' = Append(parsed, c)
    BY <1>3 DEF ParseQuestion
  <2>2. /\ stack \in Seq(Item) /\ parsed \in Seq(Answers)
        /\ Len(stack) = Len(parsed) /\ Len(stack) \in Nat
        /\ \A j \in 1 .. Len(stack) :
             stack[j] = [question |-> j, correct |-> parsed[j]]
    BY <1>3 DEF ParseQuestion, TypeOK, StackTypeOK, WorkInv, StackInv, numQuestions
  <2>3. [question |-> Len(stack) + 1, correct |-> c] \in Item
    BY <2>2 DEF Item
  <2>4. /\ Len(stack') = Len(stack) + 1 /\ Len(parsed') = Len(parsed) + 1
        /\ \A j \in 1 .. Len(stack) : stack'[j] = stack[j] /\ parsed'[j] = parsed[j]
        /\ stack'[Len(stack) + 1] = [question |-> Len(stack) + 1, correct |-> c]
        /\ parsed'[Len(parsed) + 1] = c
    BY <2>1, <2>2, <2>3, AppendProperties
  <2>5. \A j \in 1 .. Len(stack') :
          stack'[j] = [question |-> j, correct |-> parsed'[j]]
    <3> TAKE j \in 1 .. Len(stack')
    <3>1. j \in 1 .. Len(stack) \/ j = Len(stack) + 1
      BY <2>2, <2>4
    <3>2. CASE j \in 1 .. Len(stack)
      <4>1. stack'[j] = stack[j] /\ parsed'[j] = parsed[j]
        BY <2>4, <3>2
      <4> QED BY <2>2, <3>2, <4>1
    <3>3. CASE j = Len(stack) + 1
      BY <2>2, <2>4, <3>3
    <3> QED BY <3>1, <3>2, <3>3
  <2>6. pc' = "parse" /\ Len(stack') = Len(parsed')
    BY <1>3, <2>2, <2>4 DEF ParseQuestion
  <2>7. WorkInv'
    <3>1. StackInv'
      BY <2>5, <2>6 DEF StackInv, numQuestions
    <3>2. CountInv' /\ OrderInv' /\ SlotInv'
      BY <2>6 DEF CountInv, OrderInv, SlotInv
    <3> QED BY <3>1, <3>2 DEF WorkInv
  <2>8. OwnerInv' /\ QuizReady'
    BY <1>1, <1>3 DEF ParseQuestion, OwnerInv, QuizReady, ReadyFor
  <2> QED BY <2>7, <2>8 DEF Rest
<1>4. CASE ParseEnd
  <2>1. CASE pc' = "mix"
    <3>1. Len(stack) = numQuestions /\ Len(stack) \in Nat
      BY <1>4 DEF ParseEnd, WorkInv, StackInv, TypeOK, StackTypeOK
    <3>2. order' = Sequence(Len(stack))
      BY <1>4, <2>1 DEF ParseEnd, Finish
    <3>3. order' \in Permutations(0 .. numQuestions - 1)
      BY <3>1, <3>2, SequencePermutes
    <3>4. UNCHANGED <<stack, parsed>>
      BY <1>4 DEF ParseEnd
    <3>5. WorkInv'
      BY <1>4, <2>1, <3>1, <3>3, <3>4 DEF ParseEnd, WorkInv, StackInv, CountInv, OrderInv,
         SlotInv, numQuestions
    <3>6. OwnerInv' /\ QuizReady'
      BY <1>1, <1>4, <2>1 DEF ParseEnd, OwnerInv, QuizReady, ReadyFor
    <3> QED BY <3>5, <3>6 DEF Rest
  <2>2. CASE pc' # "mix"
    <3>1. pc' = "reply" /\ reply'.type # "LOADED"
      BY <1>4, <2>2, ErrorReply DEF ParseEnd, Errors
    <3> QED BY <1>4, <3>1, AwayRest DEF ParseEnd
  <2> QED BY <2>1, <2>2
<1> QED BY <1>2, <1>3, <1>4

\* Mixing the order and creating the shared memory (load.c:119-164).
LEMMA CreatingRest ==
  ASSUME IInv, MixOrder \/ ShmOpen \/ Truncate \/ Map
  PROVE  Rest'
<1> USE DEF IInv, Creating, Filling
<1>1. UNCHANGED shmVars => (UNCHANGED exists /\ UNCHANGED shmem /\ UNCHANGED published)
  BY DEF shmVars
<1>2. CASE MixOrder
  <2>1. PICK a, b \in DOMAIN order : order' = Swap(order, a, b)
    BY <1>2 DEF MixOrder
  <2>2. order \in Permutations(0 .. numQuestions - 1)
    BY <1>2 DEF MixOrder, WorkInv, OrderInv
  <2>3. order' \in Permutations(0 .. numQuestions - 1)
    BY <2>1, <2>2, SwapPermutes DEF Permutations
  <2>4. WorkInv'
    BY <1>2, <2>3 DEF MixOrder, WorkInv, StackInv, CountInv, OrderInv, SlotInv, numQuestions
  <2>5. OwnerInv' /\ QuizReady'
    BY <1>1, <1>2 DEF MixOrder, OwnerInv, QuizReady, ReadyFor
  <2> QED BY <2>4, <2>5 DEF Rest
<1>3. CASE ShmOpen
  <2>1. CASE Finish(Err("SHMEM")) /\ UNCHANGED shmVars
    <3>1. pc' = "reply" /\ reply'.type # "LOADED"
      BY <2>1, ErrorReply DEF Errors
    <3> QED BY <2>1, <3>1, AwayRest
  <2>2. CASE ~exists /\ pc' = "truncate" /\ exists' = TRUE /\ UNCHANGED published
    <3>1. published = <<>>
      BY <2>2 DEF QuizReady
    <3>2. OwnerInv' /\ QuizReady'
      BY <2>2, <3>1 DEF OwnerInv, QuizReady
    <3>3. WorkInv'
      BY <1>3, <2>2 DEF ShmOpen, mixVars, WorkInv, StackInv, CountInv, OrderInv, SlotInv,
         numQuestions
    <3> QED BY <3>2, <3>3 DEF Rest
  <2> QED BY <1>3, <2>1, <2>2 DEF ShmOpen
<1>4. CASE Truncate
  <2>1. exists /\ published = <<>> /\ published' = <<>>
    BY <1>4 DEF Truncate, OwnerInv
  <2>2. CASE Finish(Err("SHMEM"))
    <3>1. pc' = "reply" /\ reply'.type # "LOADED"
      BY <2>2, ErrorReply DEF Errors
    <3> QED BY <2>1, <3>1 DEF Rest, WorkInv, StackInv, CountInv, OrderInv, SlotInv, OwnerInv,
               QuizReady
  <2>3. CASE /\ pc' = "map" /\ shmem' = [n \in 0 .. Len(stack) - 1 |-> Blank]
             /\ UNCHANGED exists
    <3>1. Len(stack) = numQuestions
      BY <1>4 DEF Truncate, WorkInv, StackInv
    <3>2. DOMAIN shmem' = 0 .. numQuestions - 1
      BY <2>3, <3>1
    <3>3. WorkInv'
      BY <1>4, <2>3, <3>2 DEF Truncate, mixVars, WorkInv, StackInv, CountInv, OrderInv,
         SlotInv, numQuestions
    <3> QED BY <2>1, <2>3, <3>3 DEF Rest, OwnerInv, QuizReady
  <2> QED BY <1>4, <2>2, <2>3 DEF Truncate
<1>5. CASE Map
  <2>1. exists /\ published = <<>> /\ published' = <<>>
    BY <1>5 DEF Map, OwnerInv
  <2>2. CASE Finish(Err("SHMEM"))
    <3>1. pc' = "reply" /\ reply'.type # "LOADED"
      BY <2>2, ErrorReply DEF Errors
    <3> QED BY <2>1, <3>1 DEF Rest, WorkInv, StackInv, CountInv, OrderInv, SlotInv, OwnerInv,
               QuizReady
  <2>3. CASE pc' = "fill" /\ i' = 0 /\ UNCHANGED exists /\ UNCHANGED <<shmem, reply>>
    <3>1. numQuestions \in Nat /\ Len(stack) = numQuestions
      BY <1>5 DEF Map, WorkInv, StackInv, TypeOK, StackTypeOK, numQuestions
    <3>2. WorkInv'
      BY <1>5, <2>3, <3>1 DEF Map, mixVars, WorkInv, StackInv, CountInv, OrderInv, SlotInv,
         numQuestions
    <3> QED BY <2>1, <2>3, <3>2 DEF Rest, OwnerInv, QuizReady
  <2> QED BY <1>5, <2>2, <2>3 DEF Map
<1> QED BY <1>2, <1>3, <1>4, <1>5

\* moveToShmem's counter bound is the number of questions (load.c:117, 166).
LEMMA OrderSize ==
  ASSUME NEW size \in Nat, NEW f \in Permutations(0 .. size - 1)
  PROVE  Cardinality(DOMAIN f) = size
<1>1. DOMAIN f = 0 .. size - 1
  BY DEF Permutations
<1>2. Cardinality(0 .. size - 1) = size
  BY FS_Interval
<1> QED BY <1>1, <1>2

\* Popping a question and mixing its answers (load.c:168, 86-92).
LEMMA PoppingRest ==
  ASSUME IInv, Pop \/ MixAnswers
  PROVE  Rest'
<1> USE DEF IInv, Creating, Filling
<1>1. UNCHANGED shmVars => (UNCHANGED exists /\ UNCHANGED shmem /\ UNCHANGED published)
  BY DEF shmVars
<1>2. numQuestions \in Nat /\ stack \in Seq(Item) /\ Len(stack) \in Nat /\ NUM_ANSWERS \in Nat
  BY LoaderAssumption DEF TypeOK, StackTypeOK, numQuestions
<1>3. CASE Pop
  <2>1. /\ i \in 0 .. numQuestions /\ Len(stack) = numQuestions - i
        /\ order \in Permutations(0 .. numQuestions - 1)
        /\ \A j \in 1 .. Len(stack) : stack[j] = [question |-> j, correct |-> parsed[j]]
    BY <1>3 DEF Pop, WorkInv, CountInv, OrderInv, StackInv
  <2>2. i < numQuestions
    BY <1>2, <1>3, <2>1, OrderSize DEF Pop
  <2>3. i \in 0 .. numQuestions - 1 /\ Len(stack) \in 1 .. Len(stack)
    BY <1>2, <2>1, <2>2
  <2>4. current' = [question |-> numQuestions - i, correct |-> parsed[numQuestions - i]]
    BY <1>3, <2>1, <2>3 DEF Pop
  <2>5. /\ Len(stack') = numQuestions - i - 1
        /\ \A j \in 1 .. Len(stack') : stack'[j] = stack[j]
    BY <1>2, <1>3, <2>1, <2>3 DEF Pop
  <2>6. answerOrder' \in Permutations(Answers)
    BY <1>2, <1>3, SequencePermutes DEF Pop, Answers
  <2>7. StackInv'
    <3>1. \A j \in 1 .. Len(stack') : stack'[j] = [question |-> j, correct |-> parsed[j]]
      BY <1>2, <2>1, <2>5
    <3> QED BY <1>3, <3>1 DEF Pop, StackInv
  <2>8. CountInv'
    BY <1>3, <2>3, <2>4, <2>5 DEF Pop, CountInv, numQuestions
  <2>9. OrderInv'
    BY <1>3, <2>1, <2>6 DEF Pop, OrderInv, numQuestions
  <2>10. SlotInv'
    BY <1>1, <1>3 DEF Pop, WorkInv, SlotInv, numQuestions
  <2>11. OwnerInv' /\ QuizReady'
    BY <1>1, <1>3 DEF Pop, OwnerInv, QuizReady, ReadyFor
  <2> QED BY <2>7, <2>8, <2>9, <2>10, <2>11 DEF Rest, WorkInv
<1>4. CASE MixAnswers
  <2>1. PICK a, b \in Answers : answerOrder' = Swap(answerOrder, a, b)
    BY <1>4 DEF MixAnswers
  <2>2. answerOrder \in Permutations(Answers)
    BY <1>4 DEF MixAnswers, WorkInv, OrderInv
  <2>3. answerOrder' \in Permutations(Answers)
    BY <2>1, <2>2, SwapPermutes
  <2>4. StackInv' /\ CountInv' /\ SlotInv'
    BY <1>1, <1>4 DEF MixAnswers, fillVars, WorkInv, StackInv, CountInv, SlotInv, numQuestions
  <2>5. OrderInv'
    BY <1>4, <2>3 DEF MixAnswers, WorkInv, OrderInv, numQuestions
  <2>6. OwnerInv' /\ QuizReady'
    BY <1>1, <1>4 DEF MixAnswers, OwnerInv, QuizReady, ReadyFor
  <2> QED BY <2>4, <2>5, <2>6 DEF Rest, WorkInv
<1> QED BY <1>3, <1>4

\* A written question stands in a place of its own and is right (load.c:173).
LEMMA WritingRest ==
  ASSUME IInv, WriteQuestion
  PROVE  Rest'
<1> USE DEF IInv, Creating, Filling
<1> DEFINE place == order[i]
           question == Mixed(current, answerOrder)
<1>1. /\ pc = "mixAnswers" /\ pc' = "fill" /\ i' = i + 1
      /\ shmem' = [shmem EXCEPT ![place] = question]
      /\ UNCHANGED stack /\ UNCHANGED order /\ UNCHANGED exists /\ UNCHANGED published
      /\ UNCHANGED parsed
  BY DEF WriteQuestion
<1>2. /\ i \in 0 .. numQuestions - 1 /\ Len(stack) = numQuestions - i - 1
      /\ current = [question |-> numQuestions - i, correct |-> parsed[numQuestions - i]]
      /\ order \in Permutations(0 .. numQuestions - 1)
      /\ answerOrder \in Permutations(Answers)
      /\ DOMAIN shmem = 0 .. numQuestions - 1
      /\ \A j \in 0 .. i - 1 : /\ shmem[order[j]].question = numQuestions - j
                               /\ Holds(shmem[order[j]], parsed)
  BY <1>1 DEF WorkInv, CountInv, OrderInv, SlotInv
<1>3. numQuestions \in Nat /\ current \in Item
  BY DEF TypeOK, StackTypeOK, numQuestions
<1>4. question.question = numQuestions - i /\ Holds(question, parsed)
  <2>1. parsed[current.question] = current.correct
    BY <1>2
  <2> QED BY <1>2, <1>3, <2>1, MixedRight
<1>5. place \in 0 .. numQuestions - 1
  BY <1>2 DEF Permutations
<1>6. DOMAIN shmem' = 0 .. numQuestions - 1
  BY <1>1, <1>2
<1>7. \A j \in 0 .. i : /\ shmem'[order[j]].question = numQuestions - j
                        /\ Holds(shmem'[order[j]], parsed)
  <2> TAKE j \in 0 .. i
  <2>1. CASE j = i
    <3>1. shmem'[order[j]] = question
      BY <1>1, <1>2, <1>5, <2>1
    <3> QED BY <1>4, <2>1, <3>1
  <2>2. CASE j # i
    <3>1. j \in 0 .. i - 1 /\ j \in 0 .. numQuestions - 1
      BY <1>2, <1>3, <2>2
    <3>2. order[j] # place
      BY <1>2, <2>2, <3>1 DEF Permutations
    <3>3. shmem'[order[j]] = shmem[order[j]]
      BY <1>1, <1>2, <3>1, <3>2 DEF Permutations
    <3> QED BY <1>2, <3>1, <3>3
  <2> QED BY <2>1, <2>2
<1>8. StackInv'
  BY <1>1 DEF WorkInv, StackInv
<1>9. CountInv' /\ OrderInv'
  BY <1>1, <1>2, <1>3 DEF CountInv, OrderInv, numQuestions
<1>10. SlotInv'
  <2>1. \A j \in 0 .. i' - 1 : j \in 0 .. i
    BY <1>1, <1>2, <1>3
  <2> HIDE DEF place, question
  <2> QED BY <1>1, <1>6, <1>7, <2>1 DEF SlotInv, numQuestions
<1>11. OwnerInv' /\ QuizReady'
  BY <1>1 DEF OwnerInv, QuizReady
<1> QED BY <1>8, <1>9, <1>10, <1>11 DEF Rest, WorkInv

\* When every question is written, the shared memory is ready (load.c:166-187).
LEMMA FilledRest ==
  ASSUME IInv, Filled
  PROVE  Rest'
<1> USE DEF IInv, Creating, Filling
<1>1. numQuestions \in Nat
  BY DEF TypeOK, StackTypeOK, numQuestions
<1>2. /\ pc = "fill" /\ i = Cardinality(DOMAIN order)
      /\ pc' = "reply" /\ reply' = [type |-> "LOADED", size |-> Cardinality(DOMAIN order)]
      /\ UNCHANGED exists /\ UNCHANGED shmem /\ UNCHANGED published /\ UNCHANGED parsed
  BY DEF Filled, Finish, shmVars
<1>3. /\ order \in Permutations(0 .. numQuestions - 1)
      /\ DOMAIN shmem = 0 .. numQuestions - 1
      /\ \A j \in 0 .. i - 1 : /\ shmem[order[j]].question = numQuestions - j
                               /\ Holds(shmem[order[j]], parsed)
  BY <1>2 DEF WorkInv, OrderInv, SlotInv
<1>4. i = numQuestions
  BY <1>1, <1>2, <1>3, OrderSize
<1>5. exists /\ published = <<>>
  BY <1>2 DEF OwnerInv
<1>6. \A q \in 1 .. numQuestions : \E s \in DOMAIN shmem : shmem[s].question = q
  <2> TAKE q \in 1 .. numQuestions
  <2>1. numQuestions - q \in 0 .. i - 1 /\ numQuestions - q \in 0 .. numQuestions - 1
    BY <1>1, <1>4
  <2>2. order[numQuestions - q] \in DOMAIN shmem
    BY <1>3, <2>1 DEF Permutations
  <2>3. shmem[order[numQuestions - q]].question = numQuestions - (numQuestions - q)
    BY <1>3, <2>1
  <2> QED BY <1>1, <2>2, <2>3
<1>7. \A s \in DOMAIN shmem :
        shmem[s].question \in 1 .. numQuestions /\ Holds(shmem[s], parsed)
  <2> TAKE s \in DOMAIN shmem
  <2>1. PICK j \in 0 .. numQuestions - 1 : order[j] = s
    BY <1>3 DEF Permutations
  <2>2. j \in 0 .. i - 1
    BY <1>4, <2>1
  <2>3. shmem[s].question = numQuestions - j /\ Holds(shmem[s], parsed)
    BY <1>3, <2>1, <2>2
  <2> QED BY <1>1, <2>1, <2>3
<1>8. ReadyFor(parsed)
  BY <1>3, <1>6, <1>7 DEF ReadyFor, numQuestions
<1>9. QuizReady'
  BY <1>2, <1>4, <1>5, <1>8 DEF QuizReady, ReadyFor, numQuestions
<1>10. WorkInv' /\ OwnerInv'
  BY <1>2, <1>5 DEF WorkInv, StackInv, CountInv, OrderInv, SlotInv, OwnerInv
<1> QED BY <1>9, <1>10 DEF Rest

\* The reply publishes the file it was made of (load.c:265-267).
LEMMA ReplyRest ==
  ASSUME IInv, WriteReply
  PROVE  Rest'
<1> USE DEF IInv, Creating, Filling
<1>1. /\ pc = "reply" /\ pc' \in {"read", "dead"}
      /\ UNCHANGED exists /\ UNCHANGED shmem
      /\ published' \in {parsed, published}
      /\ published' # published => published' = parsed /\ reply.type = "LOADED"
  BY DEF WriteReply, Write
<1>2. QuizReady'
  BY <1>1 DEF QuizReady, ReadyFor
<1>3. WorkInv' /\ OwnerInv'
  BY <1>1 DEF WorkInv, StackInv, CountInv, OrderInv, SlotInv, OwnerInv
<1> QED BY <1>2, <1>3 DEF Rest

\* The server unlinks only between LOADs (load.c:138).
LEMMA UnlinkRest ==
  ASSUME IInv, Unlink
  PROVE  Rest'
<1>1. pc \notin {"parse", "mix", "reply"} \cup Creating
  BY DEF Unlink, LoadPending, Creating, Filling, Gone
<1>2. pc' = pc /\ published' = <<>>
  BY DEF Unlink
<1>3. WorkInv' /\ OwnerInv' /\ QuizReady'
  BY <1>1, <1>2 DEF WorkInv, StackInv, CountInv, OrderInv, SlotInv, OwnerInv, QuizReady,
     Creating, Filling
<1> QED BY <1>3 DEF Rest

\* The invariant holds at the start.
LEMMA InitInv ==
  ASSUME Init
  PROVE  IInv
<1>1. /\ <<>> \in Seq(Item) /\ <<>> \in Seq(Commands) /\ <<>> \in Seq(Replies)
  BY EmptySeq
<1>2. TypeOK
  <2>1. BrowseTypeOK /\ pc \in Labels
    BY LoaderAssumption DEF Init, BrowseTypeOK, Labels
  <2>2. NoItem \in Item
    BY LoaderAssumption DEF NoItem, Item, Answers
  <2>3. StackTypeOK
    BY <1>1, <2>2, EmptyTyped DEF Init, StackTypeOK
  <2>4. MixTypeOK
    BY DEF Init, MixTypeOK
  <2>5. ShmTypeOK
    BY EmptyTyped DEF Init, ShmTypeOK
  <2>6. PipeTypeOK
    BY <1>1, ReplyTyped DEF Init, PipeTypeOK, Errors
  <2> QED BY <2>1, <2>3, <2>4, <2>5, <2>6 DEF TypeOK
<1>3. WorkInv /\ OwnerInv /\ QuizReady
  BY DEF Init, WorkInv, StackInv, CountInv, OrderInv, SlotInv, OwnerInv, QuizReady, Creating,
     Filling
<1> QED BY <1>2, <1>3 DEF IInv

\* Every step keeps the invariant.
LEMMA NextInv ==
  ASSUME IInv, [Next]_vars
  PROVE  IInv'
<1>1. TypeOK'
  BY NextTyped DEF IInv
<1>2. ASSUME LoaderStep PROVE Rest'
  BY <1>2, QuietRest, ParsingRest, CreatingRest, PoppingRest, WritingRest, FilledRest,
     ReplyRest DEF LoaderStep
<1>3. ASSUME Environment \/ Stopped \/ UNCHANGED vars PROVE Rest'
  BY <1>3, QuietRest, UnlinkRest DEF Environment
<1>4. Rest'
  BY <1>2, <1>3 DEF Next
<1> QED BY <1>1, <1>4 DEF IInv, Rest

\* The invariant holds in every state.
LEMMA Invariance == Spec => []IInv
<1>1. Init => IInv
  BY InitInv
<1>2. IInv /\ [Next]_vars => IInv'
  BY NextInv
<1> QED BY <1>1, <1>2, PTL DEF Spec

-----------------------------------------------------------------------------
(* What load is about to reply.                                            *)

\* An error is a result.
LEMMA ErrorResult ==
  ASSUME NEW e \in Errors, Finish(Err(e))
  PROVE  ResultInv'
BY DEF Finish, ResultInv, Creating, Filling

\* A LOAD replies an error, or the size of a file with at least one question
\* (parser.c:326-335, load.c:258-271).
LEMMA ResultKept ==
  ASSUME IInv, IInv', ResultInv, [Next]_vars
  PROVE  ResultInv'
<1> USE DEF Creating, Filling
<1>1. CASE \/ ReadBrowse \/ BrowseEntry \/ BrowseEnd \/ WriteBlank \/ ReadOther \/ ReadEnd
           \/ Kill \/ Restart \/ WriteReply
  BY <1>1 DEF ReadBrowse, BrowseEntry, BrowseEnd, WriteBlank, ReadOther, ReadEnd, Kill,
     Restart, WriteReply, Write, NextCommand, ResultInv
<1>2. CASE ReadLoadRefused
  BY <1>2, ErrorResult DEF ReadLoadRefused, Errors
<1>3. CASE ReadLoad
  BY <1>3, ErrorResult DEF ReadLoad, Errors, ResultInv
<1>4. CASE ParseQuestion
  BY <1>4 DEF ParseQuestion, ResultInv
<1>5. CASE ParseFails
  BY <1>5, ErrorResult DEF ParseFails, Errors
<1>6. CASE ParseEnd
  <2>1. stack # <<>> => parsed # <<>>
    <3>1. pc = "parse" /\ Len(stack) = Len(parsed)
      BY <1>6 DEF ParseEnd, IInv, WorkInv, StackInv, numQuestions
    <3>2. stack \in Seq(Item) /\ parsed \in Seq(Answers)
      BY DEF IInv, TypeOK, StackTypeOK
    <3> QED BY <3>1, <3>2, EmptySeq
  <2>2. CASE pc' = "mix"
    BY <1>6, <2>1, <2>2 DEF ParseEnd, ResultInv, Finish
  <2>3. CASE pc' # "mix"
    BY <1>6, <2>3, ErrorResult DEF ParseEnd, Errors
  <2> QED BY <2>2, <2>3
<1>7. CASE MixOrder \/ Pop \/ MixAnswers \/ WriteQuestion
  BY <1>7 DEF MixOrder, Pop, MixAnswers, WriteQuestion, ResultInv
<1>8. CASE ShmOpen \/ Truncate \/ Map
  <2>1. CASE pc' \in {"truncate", "map", "fill"}
    BY <1>8, <2>1 DEF ShmOpen, Truncate, Map, ResultInv
  <2>2. CASE pc' \notin {"truncate", "map", "fill"}
    BY <1>8, <2>2, ErrorResult DEF ShmOpen, Truncate, Map, Errors
  <2> QED BY <2>1, <2>2
<1>9. CASE Filled
  <2>1. /\ pc' = "reply" /\ parsed' = parsed /\ parsed # <<>>
        /\ reply' = [type |-> "LOADED", size |-> Cardinality(DOMAIN order)]
    BY <1>9 DEF Filled, Finish, ResultInv
  <2>2. reply'.size = Len(parsed')
    BY <2>1 DEF IInv, QuizReady
  <2> QED BY <2>1, <2>2 DEF ResultInv
<1>10. CASE Send \/ Receive \/ ClosePipe \/ Unlink \/ Stopped \/ UNCHANGED vars
  BY <1>10 DEF Send, Receive, ClosePipe, Unlink, Stopped, vars, fillVars, mixVars, ResultInv
<1> QED BY <1>1, <1>2, <1>3, <1>4, <1>5, <1>6, <1>7, <1>8, <1>9, <1>10
        DEF Next, LoaderStep, Environment

\* What load replies is an error or LOADED in every state.
LEMMA ResultInvariance == Spec => []ResultInv
<1>1. Init => ResultInv
  BY DEF Init, ResultInv, Creating, Filling
<1>2. IInv /\ IInv' /\ ResultInv /\ [Next]_vars => ResultInv'
  BY ResultKept
<1> QED BY <1>1, <1>2, Invariance, PTL DEF Spec

-----------------------------------------------------------------------------
(* What is left of a LOAD.                                                 *)

\* Outside load the stack is empty, however the last LOAD ended.
LEMMA DrainKept ==
  ASSUME DrainInv, [Next]_vars
  PROVE  DrainInv'
<1> USE DEF DrainInv, Gone
<1>1. CASE \/ ReadBrowse \/ BrowseEntry \/ BrowseEnd \/ WriteBlank \/ ReadOther \/ ReadEnd
           \/ ReadLoadRefused \/ ReadLoad
  BY <1>1 DEF ReadBrowse, BrowseEntry, BrowseEnd, WriteBlank, ReadOther, ReadEnd,
     ReadLoadRefused, ReadLoad, NextCommand, Write, Finish
<1>2. CASE \/ ParseQuestion \/ ParseFails \/ ParseEnd \/ MixOrder \/ ShmOpen \/ Truncate \/ Map
           \/ Pop \/ MixAnswers \/ WriteQuestion \/ Filled
  BY <1>2 DEF ParseQuestion, ParseFails, ParseEnd, MixOrder, ShmOpen, Truncate, Map, Pop,
     MixAnswers, WriteQuestion, Filled, Finish
<1>3. CASE WriteReply \/ Kill
  BY <1>3 DEF WriteReply, Kill
<1>4. CASE Send \/ Receive \/ ClosePipe \/ Unlink \/ Restart \/ Stopped \/ UNCHANGED vars
  BY <1>4 DEF Send, Receive, ClosePipe, Unlink, Restart, Stopped, vars
<1> QED BY <1>1, <1>2, <1>3, <1>4 DEF Next, LoaderStep, Environment

\* Until a loader has died, shared memory nobody knows of is in the hands of
\* the LOAD that creates it or has just filled it.
LEMMA OrphanKept ==
  ASSUME IInv, ResultInv, OrphanInv, [Next]_vars
  PROVE  OrphanInv'
<1> USE DEF OrphanInv, Creating, Filling, Gone
<1>1. CASE \/ ReadBrowse \/ BrowseEntry \/ BrowseEnd \/ WriteBlank \/ ReadOther \/ ReadEnd
           \/ ReadLoadRefused \/ ReadLoad \/ ParseQuestion \/ ParseFails \/ ParseEnd \/ MixOrder
  BY <1>1 DEF ReadBrowse, BrowseEntry, BrowseEnd, WriteBlank, ReadOther, ReadEnd,
     ReadLoadRefused, ReadLoad, ParseQuestion, ParseFails, ParseEnd, MixOrder, NextCommand,
     Write, Finish, shmVars, envVars
<1>2. CASE ShmOpen \/ Truncate \/ Map
  BY <1>2 DEF ShmOpen, Truncate, Map, Unlinked, Finish, shmVars, envVars
<1>3. CASE Pop \/ MixAnswers \/ WriteQuestion \/ Filled
  <2>1. CASE Pop \/ MixAnswers
    BY <2>1 DEF Pop, MixAnswers, shmVars, envVars
  <2>2. CASE WriteQuestion
    BY <2>2 DEF WriteQuestion
  <2>3. CASE Filled
    <3>1. pc' = "reply" /\ reply' = [type |-> "LOADED", size |-> Cardinality(DOMAIN order)]
      BY <2>3 DEF Filled, Finish
    <3> QED BY <3>1
  <2> QED BY <1>3, <2>1, <2>2, <2>3
<1>4. CASE WriteReply
  <2>1. pc = "reply" /\ UNCHANGED exists /\ UNCHANGED kills
    BY <1>4 DEF WriteReply, envVars
  <2>2. CASE stdoutOpen
    <3>1. CASE reply.type = "LOADED"
      <4>1. parsed # <<>>
        BY <2>1, <3>1 DEF ResultInv, Err, Errors
      <4> QED BY <1>4, <2>2, <3>1, <4>1 DEF WriteReply
    <3>2. CASE reply.type # "LOADED"
      BY <1>4, <2>1, <3>2 DEF WriteReply
    <3> QED BY <3>1, <3>2
  <2>3. CASE ~stdoutOpen
    BY <1>4, <2>3 DEF WriteReply, Write
  <2> QED BY <2>2, <2>3
<1>5. CASE Unlink
  BY <1>5 DEF Unlink, Unlinked
<1>6. CASE Restart
  <2>1. kills' = kills + 1 /\ kills \in Nat
    BY <1>6 DEF Restart, IInv, TypeOK, PipeTypeOK
  <2> QED BY <2>1
<1>7. CASE Kill
  <2>1. pc' = "dead"
    BY <1>7 DEF Kill
  <2> QED BY <2>1
<1>8. CASE Send \/ Receive \/ ClosePipe \/ Stopped \/ UNCHANGED vars
  BY <1>8 DEF Send, Receive, ClosePipe, Stopped, vars, shmVars, envVars
<1> QED BY <1>1, <1>2, <1>3, <1>4, <1>5, <1>6, <1>7, <1>8 DEF Next, LoaderStep, Environment

-----------------------------------------------------------------------------
(* What the loader owes the server.                                        *)

Owed(input) == {n \in DOMAIN input : input[n] # "other"}
One(b) == IF b THEN 1 ELSE 0

\* The pipe is finite, and an empty one asks for nothing.
LEMMA OwedNat ==
  /\ \A input \in Seq(Commands) :
       IsFiniteSet(Owed(input)) /\ Cardinality(Owed(input)) \in Nat
  /\ Cardinality(Owed(<<>>)) = 0
<1>1. ASSUME NEW input \in Seq(Commands)
      PROVE  IsFiniteSet(Owed(input)) /\ Cardinality(Owed(input)) \in Nat
  <2>1. Owed(input) \in SUBSET (1 .. Len(input)) /\ Len(input) \in Nat
    BY LenProperties DEF Owed
  <2>2. IsFiniteSet(1 .. Len(input))
    BY <2>1, FS_Interval
  <2> QED BY <2>1, <2>2, FS_Subset, FS_CardinalityType
<1>2. Owed(<<>>) = {}
  BY DEF Owed
<1> QED BY <1>1, <1>2, FS_EmptySet

\* A command sent.
LEMMA OwedAppend ==
  ASSUME NEW input \in Seq(Commands), NEW c \in Commands
  PROVE  Cardinality(Owed(Append(input, c))) = Cardinality(Owed(input)) + One(c # "other")
<1> DEFINE last == Len(input) + 1
<1>1. /\ DOMAIN input = 1 .. Len(input) /\ Len(input) \in Nat
      /\ DOMAIN Append(input, c) = 1 .. last /\ Append(input, c)[last] = c
      /\ \A n \in 1 .. Len(input) : Append(input, c)[n] = input[n]
  BY AppendProperties, LenProperties
<1>2. IsFiniteSet(Owed(input)) /\ Cardinality(Owed(input)) \in Nat
  BY OwedNat
<1>3. CASE c = "other"
  <2>1. Owed(Append(input, c)) = Owed(input)
    BY <1>1, <1>3 DEF Owed
  <2> QED BY <1>2, <1>3, <2>1 DEF One
<1>4. CASE c # "other"
  <2>1. last \in Owed(Append(input, c)) /\ last \notin Owed(input)
    BY <1>1, <1>4 DEF Owed
  <2>2. Owed(Append(input, c)) \ {last} = Owed(input)
    BY <1>1 DEF Owed
  <2>3. Owed(Append(input, c)) = Owed(input) \cup {last}
    BY <2>1, <2>2
  <2> QED BY <1>2, <1>4, <2>1, <2>3, FS_AddElement DEF One
<1> QED BY <1>3, <1>4

\* A command read.
LEMMA OwedTail ==
  ASSUME NEW input \in Seq(Commands), input # <<>>
  PROVE  Cardinality(Owed(input)) = Cardinality(Owed(Tail(input))) + One(Head(input) # "other")
<1> DEFINE Later == Owed(input) \ {1}
           next == [n \in Owed(Tail(input)) |-> n + 1]
<1>1. /\ DOMAIN input = 1 .. Len(input) /\ Len(input) \in Nat \ {0} /\ Head(input) = input[1]
      /\ Tail(input) \in Seq(Commands) /\ DOMAIN Tail(input) = 1 .. Len(input) - 1
      /\ \A n \in 1 .. Len(input) - 1 : Tail(input)[n] = input[n + 1]
  BY HeadTailProperties, LenProperties, EmptySeq
<1>2. IsFiniteSet(Owed(input)) /\ Cardinality(Owed(input)) \in Nat
  BY OwedNat
<1>3. IsFiniteSet(Owed(Tail(input))) /\ Cardinality(Owed(Tail(input))) \in Nat
  BY <1>1, OwedNat
<1>4. Cardinality(Owed(Tail(input))) = Cardinality(Later)
  <2>1. Owed(Tail(input)) \subseteq Int
    BY <1>1 DEF Owed
  <2>2. next \in [Owed(Tail(input)) -> Later]
    BY <1>1 DEF Owed
  <2>3. \A a, b \in Owed(Tail(input)) : next[a] = next[b] => a = b
    BY <2>1
  <2>4. ASSUME NEW m \in Later
        PROVE  \E n \in Owed(Tail(input)) : next[n] = m
    <3>1. m - 1 \in 1 .. Len(input) - 1 /\ (m - 1) + 1 = m
      BY <1>1 DEF Owed
    <3>2. Tail(input)[m - 1] = input[m]
      BY <1>1, <3>1
    <3>3. m - 1 \in Owed(Tail(input))
      BY <1>1, <3>1, <3>2 DEF Owed
    <3> QED BY <3>1, <3>3
  <2>5. next \in Bijection(Owed(Tail(input)), Later)
    BY <2>2, <2>3, <2>4 DEF Bijection, Injection, Surjection, IsInjective
  <2> QED BY <1>3, <2>5, FS_Bijection DEF ExistsBijection
<1>5. CASE Head(input) = "other"
  <2>1. 1 \notin Owed(input)
    BY <1>1, <1>5 DEF Owed
  <2>2. Cardinality(Later) = Cardinality(Owed(input))
    BY <1>2, <2>1, FS_RemoveElement
  <2> QED BY <1>3, <1>4, <1>5, <2>2 DEF One
<1>6. CASE Head(input) # "other"
  <2>1. 1 \in Owed(input)
    BY <1>1, <1>6 DEF Owed
  <2>2. Cardinality(Later) = Cardinality(Owed(input)) - 1
    BY <1>2, <2>1, FS_RemoveElement
  <2> QED BY <1>2, <1>3, <1>4, <1>6, <2>2 DEF One
<1> QED BY <1>5, <1>6

\* The balance of the commands sent and the answers given.
Balanced ==
  pc \notin Gone => asked = answered + Cardinality(Owed(stdin)) + One(pc # "read")

\* A step that moves no command and writes no answer.
LEMMA SameBalance ==
  ASSUME Balanced, UNCHANGED <<stdin, asked, answered>>, pc # "read",
         pc' \in Gone \/ (pc' # "read" /\ pc \notin Gone)
  PROVE  Balanced'
BY DEF Balanced, One

\* Reading a command that is answered moves the debt from the pipe to the code.
LEMMA TakenIsOwed ==
  ASSUME TypeOK, Balanced, UNCHANGED <<asked, answered>>, pc' # "read",
         NEW c \in {"BROWSE", "LOAD", "HIDE"}, NextCommand(c)
  PROVE  Balanced'
<1>1. stdin \in Seq(Commands) /\ asked \in Nat /\ answered \in Nat
  BY DEF TypeOK, PipeTypeOK
<1>2. pc = "read" /\ stdin # <<>> /\ Head(stdin) # "other" /\ stdin' = Tail(stdin)
  BY DEF NextCommand
<1>3. Tail(stdin) \in Seq(Commands)
  BY <1>1, <1>2
<1>4. Cardinality(Owed(Tail(stdin))) \in Nat
  BY <1>3, OwedNat
<1>5. Cardinality(Owed(stdin)) = Cardinality(Owed(Tail(stdin))) + 1
  BY <1>1, <1>2, OwedTail DEF One
<1> QED BY <1>1, <1>2, <1>4, <1>5 DEF Balanced, One, Gone

\* One line written, the answer or the death of the loader.
LEMMA AnsweredOnce ==
  ASSUME TypeOK, Balanced, pc \in {"blank", "reply"}, UNCHANGED <<stdin, asked>>,
         NEW r, r.type # "name", Write(r, "read")
  PROVE  Balanced'
<1>1. CASE stdoutOpen
  <2>1. pc' = "read" /\ answered' = answered + 1
    BY <1>1 DEF Write
  <2>2. answered \in Nat /\ Cardinality(Owed(stdin)) \in Nat
    BY OwedNat DEF TypeOK, PipeTypeOK
  <2>3. asked = answered + Cardinality(Owed(stdin)) + 1
    BY DEF Balanced, One, Gone
  <2> QED BY <2>1, <2>2, <2>3 DEF Balanced, One
<1>2. CASE ~stdoutOpen
  BY <1>2 DEF Write, Balanced, Gone
<1> QED BY <1>1, <1>2

\* Every command costs one answer.
LEMMA BalanceKept ==
  ASSUME IInv, ResultInv, Balanced, [Next]_vars
  PROVE  Balanced'
<1> USE DEF Gone
<1>0. TypeOK /\ stdin \in Seq(Commands) /\ asked \in Nat /\ answered \in Nat
  BY DEF IInv, TypeOK, PipeTypeOK
<1>1. CASE ReadBrowse
  BY <1>0, <1>1, TakenIsOwed DEF ReadBrowse, envVars
<1>2. CASE ReadLoadRefused
  BY <1>0, <1>2, TakenIsOwed DEF ReadLoadRefused, Finish, envVars
<1>3. CASE ReadLoad
  BY <1>0, <1>3, TakenIsOwed DEF ReadLoad, Finish, envVars
<1>4. CASE BrowseEntry
  <2>1. PICK f \in Catalogs : Write([type |-> "name", file |-> f], "browse")
    BY <1>4 DEF BrowseEntry
  <2>2. pc = "browse" /\ UNCHANGED <<stdin, asked>>
    BY <1>4 DEF BrowseEntry, envVars
  <2>3. pc' \in {"browse", "dead"} /\ answered' = answered
    BY <2>1 DEF Write
  <2> QED BY <2>2, <2>3, SameBalance
<1>5. CASE WriteBlank
  BY <1>0, <1>5, AnsweredOnce DEF WriteBlank, envVars
<1>6. CASE WriteReply
  <2>1. pc = "reply" /\ reply.type # "name"
    BY <1>6 DEF WriteReply, ResultInv, Err, Errors
  <2> QED BY <1>0, <1>6, <2>1, AnsweredOnce DEF WriteReply, envVars
<1>7. CASE BrowseEnd \/ ParseQuestion \/ ParseFails \/ ParseEnd
  BY <1>7, SameBalance DEF BrowseEnd, ParseQuestion, ParseFails, ParseEnd, Finish, pipeVars,
     envVars
<1>8. CASE \/ MixOrder \/ ShmOpen \/ Truncate \/ Map \/ Pop \/ MixAnswers \/ WriteQuestion
           \/ Filled
  BY <1>8, SameBalance DEF MixOrder, ShmOpen, Truncate, Map, Pop, MixAnswers, WriteQuestion,
     Filled, Finish, pipeVars, envVars
<1>9. CASE ReadOther
  <2>1. /\ stdin # <<>> /\ Head(stdin) = "other" /\ stdin' = Tail(stdin)
        /\ UNCHANGED pc /\ UNCHANGED asked /\ UNCHANGED answered
    BY <1>9 DEF ReadOther, NextCommand, envVars
  <2>2. Tail(stdin) \in Seq(Commands)
    BY <1>0, <2>1
  <2>3. /\ Cardinality(Owed(stdin)) = Cardinality(Owed(Tail(stdin))) + 0
        /\ Cardinality(Owed(Tail(stdin))) \in Nat
    BY <1>0, <2>1, <2>2, OwedTail, OwedNat DEF One
  <2>4. Cardinality(Owed(stdin')) = Cardinality(Owed(stdin))
    BY <2>1, <2>3
  <2> QED BY <2>1, <2>4 DEF Balanced
<1>10. CASE Send
  <2>1. PICK c \in Commands : /\ stdin' = Append(stdin, c)
                              /\ asked' = IF c = "other" THEN asked ELSE asked + 1
    BY <1>10 DEF Send
  <2>2. pc' = pc /\ pc \notin Gone /\ answered' = answered
    BY <1>10 DEF Send
  <2>3. Cardinality(Owed(stdin')) = Cardinality(Owed(stdin)) + One(c # "other")
    BY <1>0, <2>1, OwedAppend
  <2>4. Cardinality(Owed(stdin)) \in Nat
    BY <1>0, OwedNat
  <2> QED BY <1>0, <2>1, <2>2, <2>3, <2>4 DEF Balanced, One
<1>11. CASE Restart
  <2>1. pc' = "read" /\ stdin' = <<>> /\ asked' = answered /\ answered' = answered
    BY <1>11 DEF Restart
  <2> QED BY <1>0, <2>1, OwedNat DEF Balanced, One
<1>12. CASE ReadEnd \/ Kill
  BY <1>12 DEF ReadEnd, Kill, Balanced
<1>13. CASE Receive \/ ClosePipe \/ Unlink \/ Stopped \/ UNCHANGED vars
  BY <1>13 DEF Receive, ClosePipe, Unlink, Stopped, vars, pipeVars, envVars, Balanced
<1> QED BY <1>1, <1>2, <1>3, <1>4, <1>5, <1>6, <1>7, <1>8, <1>9, <1>10, <1>11, <1>12, <1>13
        DEF Next, LoaderStep, Environment

-----------------------------------------------------------------------------
(* The theorems.                                                           *)

\* Whatever the number of questions and answers, of commands, faults, deaths
\* and restarts, the loader's variables keep their types; in particular no
\* pass of mix leaves the array and no write leaves the shared memory.
THEOREM LoaderTyping == Spec => []TypeOK
<1>1. IInv => TypeOK
  BY DEF IInv
<1> QED BY <1>1, Invariance, PTL

\* A LOADED reply is true: from it to the unlink the shared memory holds each
\* question of the catalog exactly once, with all its answers and the right
\* one marked (load.c:28-188), for catalogs and question formats of any size.
THEOREM LoadedIsComplete == Spec => []QuizReady
<1>1. IInv => QuizReady
  BY DEF IInv
<1> QED BY <1>1, Invariance, PTL

\* Nothing but the server's unlink between two LOADs touches a published
\* quiz: not a later LOAD, successful or not, and not a loader that dies
\* (load.c:132-145).
THEOREM PublishedUntouched == Spec => PublishedFixed
<1> DEFINE Fixed == published # <<>> => UNCHANGED shmVars \/ (~LoadPending /\ ~exists')
<1>1. ASSUME IInv, Next PROVE Fixed
  <2> SUFFICES ASSUME published # <<>> PROVE UNCHANGED shmVars \/ (~LoadPending /\ ~exists')
    OBVIOUS
  <2>1. /\ pc \notin Creating /\ ~(pc = "reply" /\ reply.type = "LOADED")
        /\ exists
    BY <1>1 DEF IInv, OwnerInv, QuizReady
  <2>2. CASE Unlink
    BY <2>2 DEF Unlink, Unlinked
  <2>3. CASE WriteReply
    BY <2>1, <2>3 DEF WriteReply, shmVars
  <2>4. CASE ShmOpen
    BY <2>1, <2>4 DEF ShmOpen
  <2>5. CASE Truncate \/ Map \/ WriteQuestion
    BY <2>1, <2>5 DEF Truncate, Map, WriteQuestion, Creating, Filling
  <2>6. CASE \/ ReadBrowse \/ BrowseEntry \/ BrowseEnd \/ WriteBlank \/ ReadOther \/ ReadEnd
             \/ ReadLoadRefused \/ ReadLoad \/ ParseQuestion \/ ParseFails \/ ParseEnd
             \/ MixOrder \/ Pop \/ MixAnswers \/ Filled
    BY <2>6 DEF ReadBrowse, BrowseEntry, BrowseEnd, WriteBlank, ReadOther, ReadEnd,
       ReadLoadRefused, ReadLoad, ParseQuestion, ParseFails, ParseEnd, MixOrder, Pop,
       MixAnswers, Filled
  <2>7. CASE Send \/ Receive \/ ClosePipe \/ Kill \/ Restart \/ Stopped
    BY <2>7 DEF Send, Receive, ClosePipe, Kill, Restart, Stopped, vars
  <2> QED BY <1>1, <2>2, <2>3, <2>4, <2>5, <2>6, <2>7 DEF Next, LoaderStep, Environment
<1>2. IInv /\ [Next]_vars => [Fixed]_vars
  BY <1>1
<1> QED BY <1>2, Invariance, PTL DEF Spec, PublishedFixed

\* Whatever fails in a LOAD, once the loader is back at its input no question
\* of it is left on the heap (load.c:335-336).
THEOREM StackIsDrained == Spec => []StackDrained
<1>1. Init => DrainInv
  BY DEF Init, DrainInv
<1>2. DrainInv /\ [Next]_vars => DrainInv'
  BY DrainKept
<1>3. DrainInv => StackDrained
  BY DEF DrainInv, StackDrained
<1> QED BY <1>1, <1>2, <1>3, PTL DEF Spec

\* A loader that has not died leaves no shared memory behind that it did not
\* announce: each error path behind shm_open unlinks it (load.c:145-163).
THEOREM NoMemoryOrphaned == Spec => []NoOrphan
<1>1. Init => OrphanInv
  BY DEF Init, OrphanInv
<1>2. IInv /\ ResultInv /\ OrphanInv /\ [Next]_vars => OrphanInv'
  BY OrphanKept
<1>3. IInv /\ OrphanInv => NoOrphan
  BY DEF IInv, TypeOK, PipeTypeOK, OrphanInv, NoOrphan, Creating, Filling, Gone
<1> QED BY <1>1, <1>2, <1>3, Invariance, ResultInvariance, PTL DEF Spec

\* However many commands are in the pipe and whatever fails, the loader that
\* runs owes exactly one answer for each (main.c:32-50, load.c:208-336).
THEOREM EachCommandOneAnswer == Spec => []OneAnswerEach
<1>1. Init => Balanced
  BY OwedNat DEF Init, Balanced, One
<1>2. IInv /\ ResultInv /\ Balanced /\ [Next]_vars => Balanced'
  BY BalanceKept
<1>3. Balanced => OneAnswerEach
  BY DEF OneAnswerEach, Balanced, Owed, One
<1> QED BY <1>1, <1>2, <1>3, Invariance, ResultInvariance, PTL DEF Spec

-----------------------------------------------------------------------------
(* The loader implements the quiz store.                                   *)

Sent == [n \in DOMAIN stdin |-> Asked(stdin[n])]
AskedCommands == {"BROWSE", "LOAD", "other"}

-----------------------------------------------------------------------------
(* The quiz and the commands, as the server sees them.                     *)

\* Reading a complete shared memory yields the file that was published.
LEMMA QuizIsPublished ==
  ASSUME IInv
  PROVE  Quiz = published
<1>1. CASE published = <<>>
  BY <1>1 DEF Quiz
<1>2. CASE published # <<>>
  <2>1. published \in Seq(Answers) /\ ReadyFor(published)
    BY <1>2 DEF IInv, TypeOK, ShmTypeOK, QuizReady
  <2>2. /\ Len(published) \in Nat /\ DOMAIN published = 1 .. Len(published)
        /\ published = [q \in 1 .. Len(published) |-> published[q]]
        /\ \A q \in 1 .. Len(published) : published[q] \in Int
    BY <2>1, LenProperties, ElementOfSeq, LoaderAssumption DEF Answers
  <2>3. Cardinality(DOMAIN shmem) = Len(published)
    BY <2>1, <2>2, FS_Interval DEF ReadyFor
  <2>4. ASSUME NEW q \in 1 .. Len(published)
        PROVE  RightAnswer(q) = published[q]
    <3> DEFINE s == CHOOSE s \in DOMAIN shmem : shmem[s].question = q
    <3>1. s \in DOMAIN shmem /\ shmem[s].question = q
      BY <2>1 DEF ReadyFor
    <3>2. Holds(shmem[s], published)
      BY <2>1, <3>1 DEF ReadyFor
    <3>3. shmem[s].answers[shmem[s].correct] = published[q] + 1
      BY <3>1, <3>2 DEF Holds
    <3>4. RightAnswer(q) = shmem[s].answers[shmem[s].correct] - 1
      BY DEF RightAnswer
    <3> HIDE DEF s
    <3> QED BY <3>3, <3>4, <2>2
  <2> QED BY <1>2, <2>2, <2>3, <2>4 DEF Quiz
<1> QED BY <1>1, <1>2

Published == Quiz = published

\* The same after a step.
LEMMA QuizStaysPublished == IInv' => Quiz' = published'
<1>1. IInv => Published
  BY QuizIsPublished DEF Published
<1>2. IInv' => Published'
  BY <1>1, PTL
<1> QED BY <1>2 DEF Published

\* The commands in the pipe, seen by the server: taking one and sending one.
LEMMA SentCommands ==
  ASSUME TypeOK
  PROVE  /\ Sent \in Seq(AskedCommands)
         /\ stdin # <<>> => /\ Sent # <<>> /\ Head(Sent) = Asked(Head(stdin))
                            /\ stdin' = Tail(stdin) => Sent' = Tail(Sent)
         /\ \A c \in Commands : stdin' = Append(stdin, c) => Sent' = Append(Sent, Asked(c))
<1>1. stdin \in Seq(Commands)
  BY DEF TypeOK, PipeTypeOK
<1>2. \A c \in Commands : Asked(c) \in AskedCommands
  BY DEF Asked, Commands, AskedCommands
<1>3. Sent \in Seq(AskedCommands) /\ Len(Sent) = Len(stdin)
  BY <1>1, <1>2 DEF Sent
<1>4. \A n \in 1 .. Len(stdin) : Sent[n] = Asked(stdin[n])
  BY <1>1 DEF Sent
<1>5. ASSUME stdin # <<>>
      PROVE  /\ Sent # <<>> /\ Head(Sent) = Asked(Head(stdin))
             /\ stdin' = Tail(stdin) => Sent' = Tail(Sent)
  <2>1. Sent # <<>> /\ Head(Sent) = Asked(Head(stdin))
    BY <1>1, <1>3, <1>4, <1>5
  <2>2. ASSUME stdin' = Tail(stdin) PROVE Sent' = Tail(Sent)
    <3>1. /\ stdin' \in Seq(Commands) /\ Len(stdin') = Len(stdin) - 1
          /\ \A n \in 1 .. Len(stdin') : stdin'[n] = stdin[n + 1]
      BY <1>1, <1>5, <2>2, HeadTailProperties
    <3>2. /\ Tail(Sent) \in Seq(AskedCommands) /\ Len(Tail(Sent)) = Len(stdin) - 1
          /\ \A n \in 1 .. Len(Tail(Sent)) : Tail(Sent)[n] = Sent[n + 1]
      BY <1>3, <2>1, HeadTailProperties
    <3>3. Sent' = [n \in 1 .. Len(stdin') |-> Asked(stdin'[n])]
      BY <3>1 DEF Sent
    <3>4. Sent' \in Seq(AskedCommands) /\ Len(Sent') = Len(stdin')
      BY <3>1, <3>3, <1>2
    <3>5. \A n \in 1 .. Len(Sent') : Sent'[n] = Tail(Sent)[n]
      BY <1>1, <1>4, <3>1, <3>2, <3>3, <3>4
    <3> QED BY <3>1, <3>2, <3>4, <3>5, SeqEqual
  <2> QED BY <2>1, <2>2
<1>6. ASSUME NEW c \in Commands, stdin' = Append(stdin, c)
      PROVE  Sent' = Append(Sent, Asked(c))
  <2>1. /\ stdin' \in Seq(Commands) /\ Len(stdin') = Len(stdin) + 1
        /\ \A n \in 1 .. Len(stdin) : stdin'[n] = stdin[n]
        /\ stdin'[Len(stdin) + 1] = c
    BY <1>1, <1>6, AppendProperties
  <2>2. /\ Append(Sent, Asked(c)) \in Seq(AskedCommands)
        /\ Len(Append(Sent, Asked(c))) = Len(stdin) + 1
        /\ \A n \in 1 .. Len(stdin) : Append(Sent, Asked(c))[n] = Sent[n]
        /\ Append(Sent, Asked(c))[Len(stdin) + 1] = Asked(c)
    BY <1>2, <1>3, AppendProperties
  <2>3. Sent' = [n \in 1 .. Len(stdin') |-> Asked(stdin'[n])]
    BY <2>1 DEF Sent
  <2>4. Sent' \in Seq(AskedCommands) /\ Len(Sent') = Len(stdin')
    BY <2>1, <2>3, <1>2
  <2>5. \A n \in 1 .. Len(Sent') : Sent'[n] = Append(Sent, Asked(c))[n]
    BY <1>1, <1>4, <2>1, <2>2, <2>3, <2>4
  <2> QED BY <2>1, <2>2, <2>4, <2>5, SeqEqual
<1> QED BY <1>3, <1>5, <1>6

\* A sequence of one command put before others.
LEMMA Before ==
  ASSUME NEW c \in AskedCommands, NEW s \in Seq(AskedCommands)
  PROVE  /\ <<>> \o s = s /\ <<c>> \o s # <<>> /\ Head(<<c>> \o s) = c /\ Tail(<<c>> \o s) = s
         /\ s # <<>> /\ Head(s) = c => <<c>> \o Tail(s) = s
         /\ \A d \in AskedCommands : <<c>> \o Append(s, d) = Append(<<c>> \o s, d)
<1>1. <<c>> \in Seq(AskedCommands) /\ Len(<<c>>) = 1 /\ <<c>>[1] = c
  OBVIOUS
<1>2. <<>> \o s = s
  BY ConcatEmptySeq
<1>3. /\ <<c>> \o s \in Seq(AskedCommands) /\ Len(<<c>> \o s) = 1 + Len(s)
      /\ \A n \in 1 .. 1 + Len(s) : (<<c>> \o s)[n] = IF n <= 1 THEN c ELSE s[n - 1]
  BY <1>1, ConcatProperties
<1>4. <<c>> \o s # <<>> /\ Head(<<c>> \o s) = c
  BY <1>3
<1>5. Tail(<<c>> \o s) = s
  <2>1. /\ Tail(<<c>> \o s) \in Seq(AskedCommands) /\ Len(Tail(<<c>> \o s)) = Len(s)
        /\ \A n \in 1 .. Len(s) : Tail(<<c>> \o s)[n] = (<<c>> \o s)[n + 1]
    BY <1>3, <1>4, HeadTailProperties
  <2>2. \A n \in 1 .. Len(s) : Tail(<<c>> \o s)[n] = s[n]
    BY <1>3, <2>1
  <2> QED BY <2>1, <2>2, SeqEqual
<1>6. ASSUME s # <<>>, Head(s) = c PROVE <<c>> \o Tail(s) = s
  <2>1. /\ Tail(s) \in Seq(AskedCommands) /\ Len(Tail(s)) = Len(s) - 1
        /\ \A n \in 1 .. Len(s) - 1 : Tail(s)[n] = s[n + 1]
    BY <1>6, HeadTailProperties
  <2>2. /\ <<c>> \o Tail(s) \in Seq(AskedCommands) /\ Len(<<c>> \o Tail(s)) = Len(s)
        /\ \A n \in 1 .. Len(s) : (<<c>> \o Tail(s))[n] = IF n <= 1 THEN c ELSE Tail(s)[n - 1]
    BY <1>1, <2>1, ConcatProperties
  <2>3. s[1] = c
    BY <1>6
  <2>4. \A n \in 1 .. Len(s) : (<<c>> \o Tail(s))[n] = s[n]
    BY <2>1, <2>2, <2>3
  <2> QED BY <2>2, <2>4, SeqEqual
<1>7. ASSUME NEW d \in AskedCommands PROVE <<c>> \o Append(s, d) = Append(<<c>> \o s, d)
  <2>1. Append(s, d) = s \o <<d>> /\ Append(<<c>> \o s, d) = (<<c>> \o s) \o <<d>>
    BY <1>3, AppendIsConcat
  <2>2. <<d>> \in Seq(AskedCommands)
    OBVIOUS
  <2> QED BY <1>1, <2>1, <2>2, ConcatAssociative
<1> QED BY <1>2, <1>4, <1>5, <1>6, <1>7

\* What is pending, by the place in the code.
PendingByPlace ==
  /\ pc = "read" => Pending = Sent
  /\ pc \in {"browse", "blank"} => Pending = <<"BROWSE">> \o Sent
  /\ pc \notin {"read", "browse", "blank"} \cup Gone => Pending = <<"LOAD">> \o Sent
  /\ pc \in Gone => Pending = <<>>
  /\ Sent \in Seq(AskedCommands)

\* Each place in the code has one command under way at most, before a step
\* and after it.
LEMMA PendingNow ==
  /\ TypeOK => PendingByPlace
  /\ TypeOK' => PendingByPlace'
<1>1. TypeOK => PendingByPlace
  <2> SUFFICES ASSUME TypeOK PROVE PendingByPlace
    OBVIOUS
  <2>1. Sent \in Seq(AskedCommands)
    BY SentCommands
  <2>2. <<>> \o Sent = Sent
    BY <2>1, ConcatEmptySeq
  <2> QED BY <2>1, <2>2 DEF PendingByPlace, Pending, UnderWay, Sent, Gone
<1>2. TypeOK' => PendingByPlace'
  BY <1>1, PTL
<1> QED BY <1>1, <1>2

\* Taking a command that gets a reply moves it from the pipe to the code.
LEMMA TakenIsPending ==
  ASSUME TypeOK, TypeOK', NEW c \in {"BROWSE", "LOAD", "HIDE"}, NextCommand(c),
         \/ c = "BROWSE" /\ pc' \in {"browse", "blank"}
         \/ c # "BROWSE" /\ pc' \in {"reply", "parse"}
  PROVE  Pending' = Pending
<1>1. pc = "read" /\ stdin # <<>> /\ Head(stdin) = c /\ stdin' = Tail(stdin)
  BY DEF NextCommand
<1>2. Pending = Sent /\ Sent \in Seq(AskedCommands)
  BY <1>1, PendingNow DEF PendingByPlace
<1>3. Sent # <<>> /\ Head(Sent) = Asked(c) /\ Sent' = Tail(Sent)
  BY <1>1, SentCommands
<1>4. Asked(c) \in AskedCommands
  BY DEF Asked, AskedCommands
<1>5. Pending' = <<Asked(c)>> \o Sent'
  <2>1. CASE c = "BROWSE"
    BY <2>1, PendingNow DEF PendingByPlace, Asked
  <2>2. CASE c # "BROWSE"
    BY <2>2, PendingNow DEF PendingByPlace, Asked, Gone
  <2> QED BY <2>1, <2>2
<1> QED BY <1>2, <1>3, <1>4, <1>5, Before

-----------------------------------------------------------------------------
(* The step simulation.                                                    *)

\* A step that is none of the store's.
LEMMA Stutters ==
  ASSUME IInv, IInv', Pending' = Pending, pc \notin Gone, pc' \notin Gone,
         stdout' = stdout, published' = published
  PROVE  UNCHANGED Store!vars
BY QuizIsPublished, QuizStaysPublished DEF Store!vars

\* A step within a command: only the loader's own work moves on.
LEMMA WorkStutters ==
  ASSUME IInv, IInv', UNCHANGED <<stdin, stdout, published>>,
         \/ pc \in {"browse", "blank"} /\ pc' \in {"browse", "blank"}
         \/ pc \in Labels \ (Gone \cup {"read", "browse", "blank"})
            /\ pc' \in Labels \ (Gone \cup {"read", "browse", "blank"})
  PROVE  UNCHANGED Store!vars
<1>1. Sent' = Sent
  BY DEF Sent
<1>2. Pending' = Pending
  BY <1>1, PendingNow DEF IInv, PendingByPlace, Gone
<1>3. pc \notin Gone /\ pc' \notin Gone
  BY DEF Gone
<1> QED BY <1>2, <1>3, Stutters

\* The loader ends or is killed.
LEMMA Dies ==
  ASSUME IInv, IInv', pc \notin Gone, pc' \in Gone, stdout' = stdout, published' = published
  PROVE  Store!Die
<1>1. Pending' = <<>>
  BY PendingNow DEF IInv, PendingByPlace
<1>2. Quiz' = Quiz
  BY QuizIsPublished, QuizStaysPublished
<1> QED BY <1>1, <1>2 DEF Store!Die

\* Commands are read.
LEMMA ReadsStep ==
  ASSUME IInv, IInv', ReadBrowse \/ ReadLoadRefused \/ ReadLoad \/ ReadOther \/ ReadEnd
  PROVE  Store!Next \/ UNCHANGED Store!vars
<1> USE DEF IInv
<1>1. CASE ReadBrowse
  <2>1. Pending' = Pending
    BY <1>1, TakenIsPending DEF ReadBrowse
  <2> QED BY <1>1, <2>1, Stutters DEF ReadBrowse, NextCommand, Gone, shmVars
<1>2. CASE ReadLoadRefused
  <2>1. Pending' = Pending
    BY <1>2, TakenIsPending DEF ReadLoadRefused, Finish
  <2> QED BY <1>2, <2>1, Stutters DEF ReadLoadRefused, NextCommand, Finish, Gone, shmVars
<1>3. CASE ReadLoad
  <2>1. Pending' = Pending
    BY <1>3, TakenIsPending DEF ReadLoad, Finish
  <2> QED BY <1>3, <2>1, Stutters DEF ReadLoad, NextCommand, Finish, Gone, shmVars
<1>4. CASE ReadOther
  <2>1. /\ pc = "read" /\ pc' = "read" /\ UNCHANGED <<stdout, published>>
        /\ stdin # <<>> /\ Head(stdin) = "other" /\ stdin' = Tail(stdin)
    BY <1>4 DEF ReadOther, NextCommand, shmVars
  <2>2. Sent # <<>> /\ Head(Sent) = "other" /\ Sent' = Tail(Sent)
    BY <2>1, SentCommands DEF Asked
  <2>3. Pending = Sent /\ Pending' = Sent'
    BY <2>1, PendingNow DEF PendingByPlace
  <2>4. Quiz' = Quiz
    BY <2>1, QuizIsPublished, QuizStaysPublished
  <2> QED BY <2>1, <2>2, <2>3, <2>4 DEF Store!Next, Store!Ignore, Store!Answering, Gone
<1>5. CASE ReadEnd
  BY <1>5, Dies DEF ReadEnd, Gone, shmVars, pipeVars, Store!Next
<1> QED BY <1>1, <1>2, <1>3, <1>4, <1>5

\* BROWSE writes names and the blank line, or dies of a closed pipe.
LEMMA BrowseStep ==
  ASSUME IInv, IInv', BrowseEntry \/ BrowseEnd \/ WriteBlank
  PROVE  Store!Next \/ UNCHANGED Store!vars
<1>1. Sent' = Sent /\ stdin' = stdin /\ published' = published
  BY DEF BrowseEntry, BrowseEnd, WriteBlank, Sent, pipeVars, shmVars
<1>2. Quiz' = Quiz
  BY <1>1, QuizIsPublished, QuizStaysPublished
<1>3. /\ pc \in {"browse", "blank"} /\ pc \notin Gone
      /\ Pending = <<"BROWSE">> \o Sent /\ Sent \in Seq(AskedCommands)
  BY PendingNow DEF BrowseEntry, BrowseEnd, WriteBlank, PendingByPlace, IInv, Gone
<1>4. Store!Answering("BROWSE") /\ Tail(Pending) = Sent
  BY <1>3, Before DEF Store!Answering, AskedCommands
<1>5. CASE BrowseEntry
  <2>1. CASE stdoutOpen
    <3>1. PICK f \in Catalogs : stdout' = Append(stdout, [type |-> "name", file |-> f])
      BY <1>5, <2>1 DEF BrowseEntry, Write
    <3>2. pc' = "browse"
      BY <1>5, <2>1 DEF BrowseEntry, Write
    <3>3. Pending' = Pending
      BY <1>1, <1>3, <3>2, PendingNow DEF PendingByPlace, IInv
    <3>4. Store!List(f)
      BY <1>2, <1>3, <1>4, <3>1, <3>2, <3>3 DEF Store!List, Store!Name, Gone
    <3> QED BY <3>4 DEF Store!Next
  <2>2. CASE ~stdoutOpen
    BY <1>1, <1>3, <1>5, <2>2, Dies DEF BrowseEntry, Write, Gone, Store!Next
  <2> QED BY <2>1, <2>2
<1>6. CASE BrowseEnd
  BY <1>1, <1>6, WorkStutters DEF BrowseEnd, pipeVars
<1>7. CASE WriteBlank
  <2>1. CASE stdoutOpen
    <3>1. pc' = "read" /\ stdout' = Append(stdout, [type |-> "blank", size |-> 0])
      BY <1>7, <2>1 DEF WriteBlank, Write
    <3>2. Pending' = Sent
      BY <1>1, <3>1, PendingNow DEF PendingByPlace, IInv
    <3> QED BY <1>2, <1>3, <1>4, <3>1, <3>2
            DEF Store!Next, Store!EndList, Store!Answer, Store!Reply, Gone
  <2>2. CASE ~stdoutOpen
    BY <1>1, <1>3, <1>7, <2>2, Dies DEF WriteBlank, Write, Gone, Store!Next
  <2> QED BY <2>1, <2>2
<1> QED BY <1>5, <1>6, <1>7

\* load works on a catalog; the store shows nothing of it.
LEMMA LoadStep ==
  ASSUME IInv, IInv', \/ ParseQuestion \/ ParseFails \/ ParseEnd \/ MixOrder \/ ShmOpen
                       \/ Truncate \/ Map \/ Pop \/ MixAnswers \/ WriteQuestion \/ Filled
  PROVE  UNCHANGED Store!vars
<1> DEFINE At(p) == p \in Labels \ (Gone \cup {"read", "browse", "blank"})
<1>1. UNCHANGED <<stdin, stdout, published>>
  BY DEF ParseQuestion, ParseFails, ParseEnd, MixOrder, ShmOpen, Truncate, Map, Pop, MixAnswers,
     WriteQuestion, Filled, pipeVars, shmVars
<1>2. At(pc) /\ At(pc')
  BY DEF ParseQuestion, ParseFails, ParseEnd, MixOrder, ShmOpen, Truncate, Map, Pop, MixAnswers,
     WriteQuestion, Filled, Finish, Labels, Gone
<1> QED BY <1>1, <1>2, WorkStutters

\* load replies: with LOADED the quiz appears, whole and in an empty store.
LEMMA ReplyStep ==
  ASSUME IInv, IInv', ResultInv, WriteReply
  PROVE  Store!Next
<1>1. /\ pc = "reply" /\ stdin' = stdin /\ Sent' = Sent /\ Write(reply, "read")
  BY DEF WriteReply, Sent
<1>2. Pending = <<"LOAD">> \o Sent /\ Sent \in Seq(AskedCommands)
  BY <1>1, PendingNow DEF PendingByPlace, IInv, Gone
<1>3. Store!Answering("LOAD") /\ Tail(Pending) = Sent
  BY <1>1, <1>2, Before DEF Store!Answering, AskedCommands, Gone
<1>4. CASE ~stdoutOpen
  <2>1. pc' = "dead" /\ stdout' = stdout /\ published' = published
    BY <1>1, <1>4 DEF Write, WriteReply
  <2> QED BY <1>1, <2>1, Dies DEF Gone, Store!Next
<1>5. CASE stdoutOpen
  <2>1. pc' = "read" /\ stdout' = Append(stdout, reply)
    BY <1>1, <1>5 DEF Write
  <2>2. Pending' = Sent
    BY <1>1, <2>1, PendingNow DEF PendingByPlace, IInv
  <2>3. Store!Answer(reply)
    BY <1>1, <1>3, <2>1, <2>2 DEF Store!Answer, Gone
  <2>4. CASE reply = [type |-> "LOADED", size |-> Len(parsed)] /\ parsed # <<>>
    <3>1. published' = parsed /\ published = <<>>
      BY <1>1, <1>5, <2>4 DEF WriteReply, IInv, OwnerInv
    <3>2. Quiz' = parsed /\ Quiz = <<>>
      BY <3>1, QuizIsPublished, QuizStaysPublished
    <3>3. parsed \in Store!Quizzes
      BY <2>4 DEF IInv, TypeOK, StackTypeOK, Store!Quizzes
    <3>4. Store!Load
      BY <1>3, <2>3, <2>4, <3>2, <3>3 DEF Store!Load, Store!Reply
    <3> QED BY <3>4 DEF Store!Next
  <2>5. CASE \E e \in Errors : reply = Err(e)
    <3>1. PICK e \in Errors : reply = Err(e)
      BY <2>5
    <3>2. published' = published
      BY <1>1, <3>1 DEF WriteReply, Err, Errors
    <3>3. Quiz' = Quiz
      BY <3>2, QuizIsPublished, QuizStaysPublished
    <3>4. Store!Refuse(e)
      BY <1>3, <2>3, <3>1, <3>3 DEF Store!Refuse, Store!Reply, Err
    <3> QED BY <3>4 DEF Store!Next
  <2> QED BY <1>1, <2>4, <2>5 DEF ResultInv
<1> QED BY <1>4, <1>5

\* The server and the system act.
LEMMA EnvironmentStep ==
  ASSUME IInv, IInv', Environment \/ Stopped \/ UNCHANGED vars
  PROVE  Store!Next \/ UNCHANGED Store!vars
<1> USE DEF IInv
<1>1. CASE Send
  <2>1. PICK c \in Commands : stdin' = Append(stdin, c)
    BY <1>1 DEF Send
  <2>2. /\ pc \notin Gone /\ pc' = pc /\ UNCHANGED <<stdout, published>>
    BY <1>1 DEF Send, shmVars
  <2>3. Sent' = Append(Sent, Asked(c)) /\ Asked(c) \in AskedCommands
    BY <2>1, SentCommands DEF Asked, Commands, AskedCommands
  <2>4. Pending' = Append(Pending, Asked(c))
    <3>1. PendingByPlace /\ PendingByPlace'
      BY PendingNow
    <3>2. CASE pc = "read"
      BY <2>2, <2>3, <3>1, <3>2 DEF PendingByPlace
    <3>3. CASE pc \in {"browse", "blank"}
      <4>1. Pending = <<"BROWSE">> \o Sent /\ Pending' = <<"BROWSE">> \o Sent'
        BY <2>2, <3>1, <3>3 DEF PendingByPlace
      <4> QED BY <2>3, <3>1, <4>1, Before DEF PendingByPlace, AskedCommands
    <3>4. CASE pc \notin {"read", "browse", "blank"}
      <4>1. Pending = <<"LOAD">> \o Sent /\ Pending' = <<"LOAD">> \o Sent'
        BY <2>2, <3>1, <3>4 DEF PendingByPlace
      <4> QED BY <2>3, <3>1, <4>1, Before DEF PendingByPlace, AskedCommands
    <3> QED BY <3>2, <3>3, <3>4
  <2>5. Quiz' = Quiz
    BY <2>2, QuizIsPublished, QuizStaysPublished
  <2>6. Store!Ask(Asked(c))
    BY <2>2, <2>4, <2>5 DEF Store!Ask
  <2> QED BY <2>3, <2>6 DEF Store!Next, AskedCommands
<1>2. CASE Receive
  <2>1. /\ pc' = pc /\ stdin' = stdin /\ published' = published
        /\ stdout # <<>> /\ stdout' = Tail(stdout)
    BY <1>2 DEF Receive, shmVars
  <2>2. Pending' = Pending /\ Quiz' = Quiz
    BY <2>1, QuizIsPublished, QuizStaysPublished DEF Pending, UnderWay
  <2> QED BY <2>1, <2>2 DEF Store!Next, Store!Receive
<1>3. CASE Unlink
  <2>1. pc' = pc /\ stdin' = stdin /\ stdout' = stdout /\ published' = <<>>
    BY <1>3 DEF Unlink, pipeVars
  <2>2. Pending' = Pending /\ Quiz' = <<>>
    BY <2>1, QuizStaysPublished DEF Pending, UnderWay
  <2> QED BY <2>1, <2>2 DEF Store!Next, Store!TakeQuiz
<1>4. CASE Kill
  BY <1>4, Dies DEF Kill, Gone, shmVars, pipeVars, Store!Next
<1>5. CASE Restart
  <2>1. /\ pc = "dead" /\ pc' = "read" /\ stdin' = <<>> /\ stdout' = <<>>
        /\ published' = published
    BY <1>5 DEF Restart, shmVars
  <2>2. Pending = <<>> /\ Pending' = <<>>
    BY <2>1, PendingNow DEF PendingByPlace, Sent, Gone
  <2>3. Quiz' = Quiz
    BY <2>1, QuizIsPublished, QuizStaysPublished
  <2> QED BY <2>1, <2>2, <2>3 DEF Store!Next, Store!Restart, Gone
<1>6. CASE ClosePipe \/ Stopped \/ UNCHANGED vars
  <2>1. UNCHANGED <<pc, stdin, stdout, published>>
    BY <1>6 DEF ClosePipe, Stopped, vars, pipeVars, shmVars
  <2>2. Pending' = Pending /\ Quiz' = Quiz
    BY <2>1, QuizIsPublished, QuizStaysPublished DEF Pending, UnderWay
  <2> QED BY <2>1, <2>2 DEF Store!vars
<1> QED BY <1>1, <1>2, <1>3, <1>4, <1>5, <1>6 DEF Environment

\* Every step of the loader is a step of the store or none.
LEMMA StepIsStore ==
  ASSUME IInv, IInv', ResultInv, [Next]_vars
  PROVE  [Store!Next]_Store!vars
BY ReadsStep, BrowseStep, LoadStep, ReplyStep, EnvironmentStep DEF Next, LoaderStep

\* The store is empty at the start.
LEMMA InitIsStore ==
  ASSUME Init
  PROVE  Store!Init
<1>1. Pending = <<>>
  <2>1. TypeOK /\ pc = "read" /\ stdin = <<>>
    BY InitInv DEF IInv, Init
  <2> QED BY <2>1, PendingNow DEF PendingByPlace, Sent
<1> QED BY <1>1 DEF Init, Store!Init, Quiz, Gone

\* The loader is a quiz store, for catalogs of any length, questions with any
\* number of answers, every order mix may draw, all failures of the system
\* and any number of deaths (load.c:28-337, main.c:28-56, browse.c:44-80).
THEOREM LoaderIsStore == Spec => ImplementsStore
<1>1. Init => Store!Init
  BY InitIsStore
<1>2. IInv /\ IInv' /\ ResultInv /\ [Next]_vars => [Store!Next]_Store!vars
  BY StepIsStore
<1> QED BY <1>1, <1>2, Invariance, ResultInvariance, PTL DEF Spec, ImplementsStore, Store!Spec

=============================================================================
