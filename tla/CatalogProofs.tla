----------------------------- MODULE CatalogProofs -----------------------------
(***************************************************************************)
(* Proofs about the catalog parser: its types, the line numbers of its     *)
(* errors, that it accepts nothing but catalogs, that it refuses a file at *)
(* the first line that has no place in one, and that every step of it is a *)
(* step of the LOAD of module Loader.                                      *)
(***************************************************************************)
EXTENDS CatalogLoad, FiniteSetTheorems, FunctionTheorems, SequenceTheorems, TLAPS

-----------------------------------------------------------------------------
(* Types.  The right answer is known before a question is pushed, and the  *)
(* loop over the answers ends with its bound.                              *)

Stage ==
  /\ at = "answer" => currentAnswer < NUM_ANSWERS
  /\ at = "push" => buffer.correct # -1

TypeInv == TypeOK /\ Stage

Places == {"open", "question", "answer", "push", "done"}

\* A result with its status or line number changed.
LEMMA ResultTyped ==
  ASSUME res \in ParserResult
  PROVE  /\ res.lineNumber \in Nat /\ NextLine \in Nat
         /\ [res EXCEPT !.lineNumber = @ + 1] \in ParserResult
         /\ \A status \in Statuses, n \in Nat :
              /\ [status |-> status, lineNumber |-> n] \in ParserResult
              /\ [res EXCEPT !.status = status] \in ParserResult
BY DEF ParserResult, NextLine

\* The statuses by name.
LEMMA StatusesNamed ==
  /\ LineErrors \subseteq Statuses
  /\ {"OK", "CANNOT_OPEN", "CANNOT_READ", "OOM", "UNEXPECTED_EOF", "EMPTY",
      "LINE_TOO_LONG", "TOO_MANY_CORRECT", "CORRECT_MISSING", "INVALID_TIMEOUT",
      "INVALID_ANSWER"} \subseteq Statuses
BY DEF LineErrors, Statuses

\* The question being read, with what a line adds to it.
LEMMA DraftTyped ==
  ASSUME buffer \in Draft
  PROVE  /\ \A c \in -1 .. NUM_ANSWERS - 1 : [buffer EXCEPT !.correct = c] \in Draft
         /\ \A t \in 1 .. MaxTimeout : [buffer EXCEPT !.timeout = t] \in Draft
         /\ \A n \in Nat \ {0} :
              [line |-> n, correct |-> -1, timeout |-> DefaultTimeout] \in Draft
         /\ buffer.correct \in -1 .. NUM_ANSWERS - 1
         /\ buffer.correct # -1 => buffer \in Question
<1>1. NUM_ANSWERS \in Nat \ {0} /\ -1 \in -1 .. NUM_ANSWERS - 1
      /\ DefaultTimeout \in 1 .. MaxTimeout
  BY CatalogAssumption DEF DefaultTimeout, MaxTimeout
<1>2. \A c \in -1 .. NUM_ANSWERS - 1 : [buffer EXCEPT !.correct = c] \in Draft
  BY DEF Draft
<1>3. \A t \in 1 .. MaxTimeout : [buffer EXCEPT !.timeout = t] \in Draft
  BY DEF Draft
<1>4. \A n \in Nat \ {0} :
        [line |-> n, correct |-> -1, timeout |-> DefaultTimeout] \in Draft
  BY <1>1 DEF Draft
<1>5. buffer.correct \in -1 .. NUM_ANSWERS - 1
  BY DEF Draft
<1>6. ASSUME buffer.correct # -1
      PROVE  buffer \in Question
  <2>1. buffer.correct \in 0 .. NUM_ANSWERS - 1
    BY <1>1, <1>5, <1>6
  <2> QED BY <2>1 DEF Draft, Question
<1> QED BY <1>2, <1>3, <1>4, <1>5, <1>6

\* A parse that fails.
LEMMA FailsTyped ==
  ASSUME TypeInv, NEW status \in Statuses, NEW n \in Nat, Fails(status, n), FileTypeOK'
  PROVE  TypeInv'
<1>1. res' \in ParserResult
  BY DEF Fails, ParserResult
<1>2. QuestionTypeOK' /\ StackTypeOK'
  BY DEF Fails, TypeInv, TypeOK, QuestionTypeOK, StackTypeOK
<1>3. at' = "done"
  BY DEF Fails
<1> QED BY <1>1, <1>2, <1>3 DEF TypeInv, TypeOK, Stage

\* A line that is taken for an answer.
LEMMA TakesTyped ==
  ASSUME TypeInv, at = "answer", NEW correct \in -1 .. NUM_ANSWERS - 1, Takes(correct),
         FileTypeOK'
  PROVE  TypeInv'
<1>1. /\ res \in ParserResult /\ currentAnswer \in Nat /\ currentAnswer < NUM_ANSWERS
      /\ NUM_ANSWERS \in Nat /\ buffer \in Draft
  BY CatalogAssumption DEF TypeInv, TypeOK, Stage, QuestionTypeOK
<1>2. CASE currentAnswer + 1 < NUM_ANSWERS
  <2>1. /\ currentAnswer' = currentAnswer + 1 /\ buffer' = [buffer EXCEPT !.correct = correct]
        /\ res' = [res EXCEPT !.lineNumber = @ + 1] /\ UNCHANGED <<at, stack, pushed>>
    BY <1>2 DEF Takes
  <2>2. currentAnswer' \in 0 .. NUM_ANSWERS /\ currentAnswer' < NUM_ANSWERS
    BY <1>1, <1>2, <2>1
  <2>3. res' \in ParserResult /\ buffer' \in Draft
    BY <1>1, <2>1, ResultTyped, DraftTyped
  <2> QED BY <2>1, <2>2, <2>3 DEF TypeInv, TypeOK, Stage, QuestionTypeOK, StackTypeOK
<1>3. CASE ~(currentAnswer + 1 < NUM_ANSWERS) /\ Fails("CORRECT_MISSING", NextLine)
  BY <1>1, <1>3, FailsTyped, ResultTyped, StatusesNamed
<1>4. CASE ~(currentAnswer + 1 < NUM_ANSWERS) /\ ~Fails("CORRECT_MISSING", NextLine)
  <2>1. /\ correct # -1 /\ at' = "push" /\ currentAnswer' = NUM_ANSWERS
        /\ buffer' = [buffer EXCEPT !.correct = correct]
        /\ res' = [status |-> "OK", lineNumber |-> res.lineNumber + 2]
        /\ UNCHANGED <<stack, pushed>>
    BY <1>4 DEF Takes
  <2>2. res.lineNumber + 2 \in Nat /\ "OK" \in Statuses
    BY <1>1, ResultTyped, StatusesNamed
  <2>3. res' \in ParserResult /\ buffer' \in Draft
    BY <1>1, <2>1, <2>2, ResultTyped, DraftTyped
  <2>4. buffer'.correct = correct
    BY <1>1, <2>1 DEF Draft
  <2>5. currentAnswer' \in 0 .. NUM_ANSWERS
    BY <1>1, <2>1
  <2> QED BY <2>1, <2>3, <2>4, <2>5
          DEF TypeInv, TypeOK, Stage, QuestionTypeOK, StackTypeOK
<1> QED BY <1>2, <1>3, <1>4

\* Every line read keeps the types.
LEMMA ReadLineTyped ==
  ASSUME TypeInv, NEW line \in Lines, ReadLine(line)
  PROVE  TypeInv'
<1>1. FileTypeOK'
  <2>1. file' = Append(file, line) /\ tail' = tail
    BY DEF ReadLine, SkipBlank, ReadQuestion, ReadWrong, ReadRight, ReadTimeout,
           ReadNoAnswer, Gets
  <2>2. line \in Line
    BY CatalogAssumption
  <2> QED BY <2>1, <2>2 DEF TypeInv, TypeOK, FileTypeOK
<1>2. /\ res \in ParserResult /\ res.lineNumber \in Nat /\ NextLine \in Nat
      /\ buffer \in Draft /\ NUM_ANSWERS \in Nat \ {0} /\ currentAnswer \in 0 .. NUM_ANSWERS
      /\ Len(file) \in Nat
  BY CatalogAssumption, ResultTyped DEF TypeInv, TypeOK, QuestionTypeOK, FileTypeOK
<1>3. CASE SkipBlank(line)
  <2>1. UNCHANGED <<at, buffer, currentAnswer, stack, pushed>> /\ res' \in ParserResult
    BY <1>2, <1>3, ResultTyped DEF SkipBlank
  <2> QED BY <1>1, <2>1 DEF TypeInv, TypeOK, Stage, QuestionTypeOK, StackTypeOK
<1>4. CASE ReadQuestion(line)
  <2>1. CASE Fails("LINE_TOO_LONG", res.lineNumber)
    BY <1>1, <1>2, <2>1, FailsTyped, StatusesNamed
  <2>2. CASE ~Fails("LINE_TOO_LONG", res.lineNumber)
    <3>1. /\ buffer' = [line |-> Len(file) + 1, correct |-> -1, timeout |-> DefaultTimeout]
          /\ currentAnswer' = 0 /\ at' = "answer" /\ UNCHANGED <<stack, pushed, res>>
      BY <1>4, <2>2 DEF ReadQuestion
    <3>2. buffer' \in Draft
      BY <1>2, <3>1, DraftTyped
    <3>3. currentAnswer' \in 0 .. NUM_ANSWERS /\ currentAnswer' < NUM_ANSWERS
      BY <1>2, <3>1
    <3> QED BY <1>1, <1>2, <3>1, <3>2, <3>3
            DEF TypeInv, TypeOK, Stage, QuestionTypeOK, StackTypeOK
  <2> QED BY <2>1, <2>2
<1>5. CASE ReadWrong(line)
  BY <1>1, <1>2, <1>5, TakesTyped, DraftTyped DEF ReadWrong, Gets
<1>6. CASE ReadRight(line)
  <2>1. CASE Fails("TOO_MANY_CORRECT", NextLine)
    BY <1>1, <1>2, <2>1, FailsTyped, StatusesNamed
  <2>2. CASE ~Fails("TOO_MANY_CORRECT", NextLine)
    <3>1. at = "answer" /\ Takes(currentAnswer)
      BY <1>6, <2>2 DEF ReadRight, Gets
    <3>2. currentAnswer \in -1 .. NUM_ANSWERS - 1
      BY <1>2, <3>1 DEF TypeInv, Stage
    <3> QED BY <1>1, <3>1, <3>2, TakesTyped
  <2> QED BY <2>1, <2>2
<1>7. CASE ReadTimeout(line)
  <2>1. CASE Fails("INVALID_TIMEOUT", NextLine)
    BY <1>1, <1>2, <2>1, FailsTyped, StatusesNamed
  <2>2. CASE ~Fails("INVALID_TIMEOUT", NextLine)
    <3>1. /\ buffer' = [buffer EXCEPT !.timeout = line.value] /\ line.value \in 1 .. MaxTimeout
          /\ res' = [res EXCEPT !.lineNumber = @ + 1]
          /\ at = "answer" /\ UNCHANGED <<at, currentAnswer, stack, pushed>>
      BY <1>7, <2>2 DEF ReadTimeout, Gets
    <3>2. buffer' \in Draft /\ res' \in ParserResult
      BY <1>2, <3>1, DraftTyped, ResultTyped
    <3> QED BY <1>1, <3>1, <3>2 DEF TypeInv, TypeOK, Stage, QuestionTypeOK, StackTypeOK
  <2> QED BY <2>1, <2>2
<1>8. CASE ReadNoAnswer(line)
  BY <1>1, <1>2, <1>8, FailsTyped, StatusesNamed DEF ReadNoAnswer
<1> QED BY <1>3, <1>4, <1>5, <1>6, <1>7, <1>8 DEF ReadLine

\* The types are an inductive invariant.
LEMMA TypeStep ==
  ASSUME TypeInv, [Next]_vars
  PROVE  TypeInv'
<1>0. res \in ParserResult /\ res.lineNumber \in Nat /\ NextLine \in Nat /\ buffer \in Draft
  BY ResultTyped DEF TypeInv, TypeOK, QuestionTypeOK
<1>1. CASE UNCHANGED vars
  BY <1>1 DEF vars, TypeInv, TypeOK, Stage, QuestionTypeOK, StackTypeOK, FileTypeOK
<1>2. CASE Open
  <2>1. FileTypeOK'
    BY <1>2 DEF Open, TypeInv, TypeOK, FileTypeOK
  <2>2. CASE Fails("CANNOT_OPEN", 0)
    BY <2>1, <2>2, FailsTyped, StatusesNamed
  <2>3. CASE ~Fails("CANNOT_OPEN", 0)
    <3>1. /\ at' = "question" /\ UNCHANGED <<buffer, currentAnswer, stack, pushed>>
          /\ res' = [res EXCEPT !.lineNumber = 1]
      BY <1>2, <2>3 DEF Open
    <3>2. res' \in ParserResult
      BY <1>0, <3>1 DEF ParserResult
    <3> QED BY <2>1, <3>1, <3>2 DEF TypeInv, TypeOK, Stage, QuestionTypeOK, StackTypeOK
  <2> QED BY <2>2, <2>3
<1>3. CASE Push
  <2>1. FileTypeOK'
    BY <1>3 DEF Push, TypeInv, TypeOK, FileTypeOK
  <2>2. CASE Fails("OOM", res.lineNumber)
    BY <1>0, <2>1, <2>2, FailsTyped, StatusesNamed
  <2>3. CASE ~Fails("OOM", res.lineNumber)
    <3>1. /\ stack' = Append(stack, buffer) /\ pushed' = Append(pushed, buffer)
          /\ at' = "question" /\ UNCHANGED <<buffer, currentAnswer, res>>
      BY <1>3, <2>3 DEF Push
    <3>2. buffer \in Question
      BY <1>0, <1>3, DraftTyped DEF Push, TypeInv, Stage
    <3>3. StackTypeOK'
      BY <3>1, <3>2 DEF TypeInv, TypeOK, StackTypeOK
    <3> QED BY <2>1, <3>1, <3>3 DEF TypeInv, TypeOK, Stage, QuestionTypeOK
  <2> QED BY <2>2, <2>3
<1>4. CASE \E line \in Lines : ReadLine(line)
  BY <1>4, ReadLineTyped
<1>5. CASE EndAtQuestion
  <2>1. FileTypeOK' /\ at' = "done" /\ UNCHANGED <<buffer, currentAnswer, stack, pushed>>
    BY <1>5 DEF EndAtQuestion, Succeeds, TypeInv, TypeOK, FileTypeOK
  <2>2. res' \in ParserResult
    BY <1>0, <1>5, ResultTyped, StatusesNamed DEF EndAtQuestion, Succeeds
  <2> QED BY <2>1, <2>2 DEF TypeInv, TypeOK, Stage, QuestionTypeOK, StackTypeOK
<1>6. CASE EndAtAnswer
  <2>1. FileTypeOK'
    BY <1>6 DEF EndAtAnswer, TypeInv, TypeOK, FileTypeOK
  <2> QED BY <1>0, <1>6, <2>1, FailsTyped, StatusesNamed DEF EndAtAnswer
<1>7. CASE ReadError
  <2>1. FileTypeOK'
    BY <1>7 DEF ReadError, TypeInv, TypeOK, FileTypeOK
  <2> QED BY <1>0, <1>7, <2>1, FailsTyped, StatusesNamed DEF ReadError
<1> QED BY <1>1, <1>2, <1>3, <1>4, <1>5, <1>6, <1>7 DEF Next, Returned

LEMMA TypeInit == Init => TypeInv
BY CatalogAssumption
DEF Init, TypeInv, TypeOK, Stage, QuestionTypeOK, StackTypeOK, FileTypeOK, NoQuestion,
    Draft, DefaultTimeout, MaxTimeout, ParserResult, Statuses

\* Every variable of the parser keeps its type, whatever file it reads: no
\* question gets an answer or a timeout outside its range (parser.c:159-341).
THEOREM ParserTyping == Spec => []TypeOK
<1>1. TypeInv /\ [Next]_vars => TypeInv'
  BY TypeStep
<1>2. Spec => []TypeInv
  BY <1>1, TypeInit, PTL DEF Spec
<1> QED BY <1>2, PTL DEF TypeInv

-----------------------------------------------------------------------------
(* Errors.  Before a question the line number is that of the next line,     *)
(* within a question that of the last one; a parse that goes on has met no  *)
(* end of the file.                                                         *)

LineInv ==
  /\ at = "open" => file = <<>>
  /\ at \in {"question", "push"} => res.lineNumber = Len(file) + 1
  /\ at = "answer" => res.lineNumber = Len(file)
  /\ at # "done" => tail = "none"
  /\ BlamesLine /\ AllOrNothing

\* What a failing parse has to show.
LEMMA FailsBlamed ==
  ASSUME NEW status \in Statuses \ {"OK"}, NEW n, Fails(status, n),
         status \in LineErrors /\ tail' = "none" => n = Len(file'),
         status = "UNEXPECTED_EOF" \/ (status \in LineErrors /\ tail' # "none")
           => n = Len(file') + 1
  PROVE  LineInv'
BY DEF Fails, LineInv, BlamesLine, AllOrNothing

\* Which statuses are about a line.
LEMMA LineErrorsNamed ==
  /\ {"LINE_TOO_LONG", "TOO_MANY_CORRECT", "CORRECT_MISSING", "INVALID_TIMEOUT",
      "INVALID_ANSWER"} \subseteq LineErrors
  /\ LineErrors \cap {"OK", "EMPTY", "CANNOT_OPEN", "CANNOT_READ", "OOM",
                      "UNEXPECTED_EOF"} = {}
BY DEF LineErrors

\* Every line read is counted, whatever becomes of it.
LEMMA ReadLineBlamed ==
  ASSUME TypeInv, LineInv, NEW line \in Lines, ReadLine(line)
  PROVE  LineInv'
<1>1. Len(file') = Len(file) + 1 /\ tail' = "none" /\ at \in {"question", "answer"}
  BY CatalogAssumption
  DEF TypeInv, TypeOK, FileTypeOK, LineInv, ReadLine, SkipBlank, ReadQuestion, ReadWrong,
      ReadRight, ReadTimeout, ReadNoAnswer, Gets
<1>2. res \in ParserResult /\ res.lineNumber \in Nat /\ Len(file) \in Nat
  BY ResultTyped DEF TypeInv, TypeOK, FileTypeOK
<1>3. /\ at = "question" => res.lineNumber = Len(file')
      /\ at = "answer" => NextLine = Len(file')
  BY <1>1, <1>2 DEF LineInv, NextLine
<1>4. ASSUME NEW status \in LineErrors, NEW n, Fails(status, n), n = Len(file')
      PROVE  LineInv'
  BY <1>1, <1>4, FailsBlamed, StatusesNamed, LineErrorsNamed
<1>5. [res EXCEPT !.lineNumber = @ + 1].lineNumber = res.lineNumber + 1
  BY <1>2 DEF ParserResult
<1>6. ASSUME NEW correct, at = "answer", Takes(correct)
      PROVE  LineInv'
  <2>1. CASE currentAnswer + 1 < NUM_ANSWERS
    BY <1>1, <1>2, <1>5, <1>6, <2>1 DEF Takes, LineInv, BlamesLine, AllOrNothing
  <2>2. CASE ~(currentAnswer + 1 < NUM_ANSWERS) /\ Fails("CORRECT_MISSING", NextLine)
    BY <1>3, <1>4, <1>6, <2>2, LineErrorsNamed
  <2>3. CASE ~(currentAnswer + 1 < NUM_ANSWERS) /\ ~Fails("CORRECT_MISSING", NextLine)
    <3>1. at' = "push" /\ res' = [status |-> "OK", lineNumber |-> res.lineNumber + 2]
      BY <2>3, <1>6 DEF Takes
    <3>2. res'.lineNumber = Len(file') + 1
      BY <1>1, <1>2, <1>6, <3>1 DEF LineInv
    <3> QED BY <1>1, <3>1, <3>2 DEF LineInv, BlamesLine, AllOrNothing
  <2> QED BY <2>1, <2>2, <2>3
<1>7. CASE SkipBlank(line)
  BY <1>1, <1>2, <1>5, <1>7 DEF SkipBlank, Gets, LineInv, BlamesLine, AllOrNothing
<1>8. CASE ReadQuestion(line)
  <2>1. CASE Fails("LINE_TOO_LONG", res.lineNumber)
    BY <1>3, <1>4, <1>8, <2>1, LineErrorsNamed DEF ReadQuestion, Gets
  <2>2. CASE ~Fails("LINE_TOO_LONG", res.lineNumber)
    BY <1>1, <1>3, <1>8, <2>2 DEF ReadQuestion, Gets, LineInv, BlamesLine, AllOrNothing
  <2> QED BY <2>1, <2>2
<1>9. CASE ReadWrong(line)
  BY <1>6, <1>9 DEF ReadWrong, Gets
<1>10. CASE ReadRight(line)
  BY <1>3, <1>4, <1>6, <1>10, LineErrorsNamed DEF ReadRight, Gets
<1>11. CASE ReadTimeout(line)
  <2>1. CASE Fails("INVALID_TIMEOUT", NextLine)
    BY <1>3, <1>4, <1>11, <2>1, LineErrorsNamed DEF ReadTimeout, Gets
  <2>2. CASE ~Fails("INVALID_TIMEOUT", NextLine)
    BY <1>1, <1>2, <1>5, <1>11, <2>2
    DEF ReadTimeout, Gets, LineInv, BlamesLine, AllOrNothing
  <2> QED BY <2>1, <2>2
<1>12. CASE ReadNoAnswer(line)
  BY <1>3, <1>4, <1>12, LineErrorsNamed DEF ReadNoAnswer, Gets
<1> QED BY <1>7, <1>8, <1>9, <1>10, <1>11, <1>12 DEF ReadLine

LEMMA LineStep ==
  ASSUME TypeInv, LineInv, [Next]_vars
  PROVE  LineInv'
<1>0. res \in ParserResult /\ res.lineNumber \in Nat /\ Len(file) \in Nat
  BY ResultTyped DEF TypeInv, TypeOK, FileTypeOK
<1>1. CASE UNCHANGED vars
  BY <1>1 DEF vars, LineInv, BlamesLine, AllOrNothing
<1>2. CASE Open
  <2>1. CASE Fails("CANNOT_OPEN", 0)
    BY <2>1, FailsBlamed, StatusesNamed, LineErrorsNamed
  <2>2. CASE ~Fails("CANNOT_OPEN", 0)
    <3>1. at' = "question" /\ res' = [res EXCEPT !.lineNumber = 1] /\ file' = <<>>
          /\ tail' = "none"
      BY <1>2, <2>2 DEF Open, LineInv
    <3>2. res'.lineNumber = Len(file') + 1
      BY <1>0, <3>1 DEF ParserResult
    <3> QED BY <3>1, <3>2 DEF LineInv, BlamesLine, AllOrNothing
  <2> QED BY <2>1, <2>2
<1>3. CASE Push
  <2>1. CASE Fails("OOM", res.lineNumber)
    BY <2>1, FailsBlamed, StatusesNamed, LineErrorsNamed
  <2>2. CASE ~Fails("OOM", res.lineNumber)
    BY <1>3, <2>2 DEF Push, LineInv, BlamesLine, AllOrNothing
  <2> QED BY <2>1, <2>2
<1>4. CASE \E line \in Lines : ReadLine(line)
  BY <1>4, ReadLineBlamed
<1>5. CASE EndAtQuestion
  <2>1. /\ at' = "done" /\ stack' = stack
        /\ IF stack # <<>> THEN res'.status = "OK" ELSE res'.status = "EMPTY"
    BY <1>0, <1>5 DEF EndAtQuestion, Succeeds, ParserResult
  <2> QED BY <2>1, LineErrorsNamed DEF LineInv, BlamesLine, AllOrNothing
<1>6. CASE EndAtAnswer
  <2>1. NextLine = Len(file') + 1
    BY <1>0, <1>6 DEF EndAtAnswer, LineInv, NextLine
  <2>2. CASE tail' = "none" /\ Fails("UNEXPECTED_EOF", NextLine)
    BY <2>1, <2>2, FailsBlamed, StatusesNamed, LineErrorsNamed
  <2>3. CASE tail' \in {"blank", "text"} /\ Fails("LINE_TOO_LONG", NextLine)
    BY <2>1, <2>3, FailsBlamed, StatusesNamed, LineErrorsNamed
  <2> QED BY <1>6, <2>2, <2>3 DEF EndAtAnswer
<1>7. CASE ReadError
  BY <1>7, FailsBlamed, StatusesNamed, LineErrorsNamed DEF ReadError
<1> QED BY <1>1, <1>2, <1>3, <1>4, <1>5, <1>6, <1>7 DEF Next, Returned

LEMMA LineInit == Init => LineInv
BY DEF Init, LineInv, BlamesLine, AllOrNothing

\* An error carries the number of the line it is about, however many lines came
\* before it (parser.c:164-281).
THEOREM ErrorsBlameTheirLine == Spec => []BlamesLine
<1>1. TypeInv /\ LineInv /\ [Next]_vars => TypeInv' /\ LineInv'
  BY TypeStep, LineStep
<1>2. Spec => [](TypeInv /\ LineInv)
  BY <1>1, TypeInit, LineInit, PTL DEF Spec
<1> QED BY <1>2, PTL DEF LineInv

\* A file gives all of its questions or none (parser.c:286-288, 315-340).
THEOREM AllQuestionsOrNone == Spec => []AllOrNothing
<1>1. TypeInv /\ LineInv /\ [Next]_vars => TypeInv' /\ LineInv'
  BY TypeStep, LineStep
<1>2. Spec => [](TypeInv /\ LineInv)
  BY <1>1, TypeInit, LineInit, PTL DEF Spec
<1> QED BY <1>2, PTL DEF LineInv

-----------------------------------------------------------------------------
(* Acceptance.  The first n lines are parsed when the questions on the      *)
(* stack are those of a sequence of blocks, one behind the other, that      *)
(* leave out blank lines only.                                              *)

Behind(b, c) == b.last < c.first
Within(b, n) == n \in b.first .. b.last

Parsed(f, blocks, n) ==
  /\ blocks \in Seq(Block) /\ Len(blocks) = Len(stack)
  /\ \A k \in 1 .. Len(blocks) :
       /\ BlockIn(f, blocks[k]) /\ blocks[k].last <= n
       /\ stack[k] = QuestionOf(f, blocks[k])
  /\ \A k, l \in 1 .. Len(blocks) : k < l => Behind(blocks[k], blocks[l])
  /\ \A m \in 1 .. n : IsBlank(f[m]) \/ \E k \in 1 .. Len(blocks) : Within(blocks[k], m)

ParsedTo(n) == \E blocks : Parsed(file, blocks, n)

\* The last line before the answers of the question being read.
Before == Len(file) - currentAnswer
RightLines == {n \in Before + 1 .. Len(file) : file[n].kind = "right"}

InQuestion ==
  /\ buffer.line <= Before /\ Before \in Nat
  /\ IsQuestion(file[buffer.line])
  /\ \A n \in buffer.line + 1 .. Before : IsTimeout(file[n])
  /\ \A n \in Before + 1 .. Len(file) : IsAnswer(file[n])
  /\ RightLines = IF buffer.correct = -1 THEN {} ELSE {Before + 1 + buffer.correct}
  /\ buffer.timeout = IF Before = buffer.line THEN DefaultTimeout ELSE file[Before].value
  /\ ParsedTo(buffer.line - 1)

AcceptInv ==
  /\ Len(file) <= MaxLines
  /\ at = "open" => file = <<>> /\ stack = <<>>
  /\ at = "question" => ParsedTo(Len(file))
  /\ at = "answer" => InQuestion
  /\ at = "push" => InQuestion /\ currentAnswer = NUM_ANSWERS
  /\ AcceptsCatalog

\* What may follow a file.
Extends(g, f) ==
  g \in Seq(Line) /\ Len(f) <= Len(g) /\ \A n \in 1 .. Len(f) : g[n] = f[n]

\* A block of a file is one of every continuation.
LEMMA BlockExtends ==
  ASSUME NEW f \in Seq(Line), NEW g, Extends(g, f), NEW b \in Block, BlockIn(f, b)
  PROVE  BlockIn(g, b)
<1>1. /\ NUM_ANSWERS \in Nat \ {0} /\ b.first \in Nat \ {0} /\ b.last \in Nat
      /\ AnswersFrom(b) \in Int /\ Len(f) \in Nat /\ Len(g) \in Nat /\ Len(f) <= Len(g)
  BY CatalogAssumption DEF Block, AnswersFrom, Extends
<1>2. b.first < AnswersFrom(b) /\ b.last <= Len(f) /\ AnswersFrom(b) <= b.last
  BY <1>1 DEF BlockIn, AnswersFrom
<1>3. \A n \in b.first .. b.last : g[n] = f[n]
  BY <1>1, <1>2 DEF Extends
<1>4. Rights(g, b) = Rights(f, b)
  BY <1>1, <1>2, <1>3 DEF Rights
<1>5. b.first \in b.first .. b.last /\ g[b.first] = f[b.first]
  BY <1>1, <1>2, <1>3
<1>6. \A n \in b.first + 1 .. AnswersFrom(b) - 1 : IsTimeout(g[n])
  BY SMTT(60), <1>1, <1>2, <1>3 DEF BlockIn
<1>7. \A n \in AnswersFrom(b) .. b.last : IsAnswer(g[n])
  BY <1>1, <1>2, <1>3 DEF BlockIn
<1>8. b.last <= Len(g)
  BY <1>1, <1>2
<1> QED BY <1>2, <1>4, <1>5, <1>6, <1>7, <1>8 DEF BlockIn

\* Lines read later do not change a block or its question.
LEMMA BlockStays ==
  ASSUME NEW f \in Seq(Line), NEW line \in Line, NEW b \in Block, BlockIn(f, b)
  PROVE  /\ BlockIn(Append(f, line), b)
         /\ QuestionOf(Append(f, line), b) = QuestionOf(f, b)
<1> DEFINE g == Append(f, line)
<1>1. /\ NUM_ANSWERS \in Nat \ {0} /\ b.first \in Nat \ {0} /\ b.last \in Nat
      /\ AnswersFrom(b) \in Int /\ Len(f) \in Nat /\ Len(g) = Len(f) + 1
  BY CatalogAssumption DEF Block, AnswersFrom
<1>2. b.first < AnswersFrom(b) /\ b.last <= Len(f)
  BY DEF BlockIn
<1>3. \A n \in 1 .. Len(f) : g[n] = f[n]
  OBVIOUS
<1>4. AnswersFrom(b) <= b.last
  BY <1>1 DEF AnswersFrom
<1>5. \A n \in b.first .. b.last : n \in 1 .. Len(f) /\ g[n] = f[n]
  BY <1>1, <1>2, <1>3
<1> HIDE DEF g
<1>6. Rights(g, b) = Rights(f, b)
  BY <1>1, <1>2, <1>5 DEF Rights
<1>7. BlockIn(g, b)
  <2>1. Extends(g, f)
    BY <1>1, <1>3 DEF Extends, g
  <2> QED BY <2>1, BlockExtends
<1>8. QuestionOf(g, b) = QuestionOf(f, b)
  <2>1. CASE b.first + 1 = AnswersFrom(b)
    BY <1>6, <2>1 DEF QuestionOf
  <2>2. CASE b.first + 1 # AnswersFrom(b)
    <3>1. AnswersFrom(b) - 1 \in b.first .. b.last
      BY <1>1, <1>2, <1>4
    <3>2. g[AnswersFrom(b) - 1] = f[AnswersFrom(b) - 1]
      BY <1>5, <3>1
    <3> QED BY <1>6, <2>2, <3>2 DEF QuestionOf
  <2> QED BY <2>1, <2>2
<1> QED BY <1>7, <1>8 DEF g

\* So what has been parsed stays parsed when a line is read.
LEMMA ParsedStays ==
  ASSUME file \in Seq(Line), NEW line \in Line, file' = Append(file, line), stack' = stack,
         NEW n \in 0 .. Len(file), ParsedTo(n)
  PROVE  ParsedTo(n)'
<1>1. PICK blocks : Parsed(file, blocks, n)
  BY DEF ParsedTo
<1>2. \A m \in 1 .. n : Append(file, line)[m] = file[m]
  OBVIOUS
<1>3. ASSUME NEW k \in 1 .. Len(blocks)
      PROVE  /\ BlockIn(Append(file, line), blocks[k])
             /\ stack[k] = QuestionOf(Append(file, line), blocks[k])
  <2>1. blocks[k] \in Block /\ BlockIn(file, blocks[k]) /\ stack[k] = QuestionOf(file, blocks[k])
    BY <1>1 DEF Parsed
  <2> QED BY <2>1, BlockStays
<1>4. Parsed(Append(file, line), blocks, n)
  BY <1>1, <1>2, <1>3 DEF Parsed
<1>5. Parsed(file, blocks, n)'
  BY <1>4 DEF Parsed
<1> QED BY <1>5 DEF ParsedTo

\* The question that is pushed is that of the block read last.
LEMMA BlockRead ==
  ASSUME TypeInv, InQuestion, currentAnswer = NUM_ANSWERS, buffer.correct # -1,
         Len(file) <= MaxLines
  PROVE  LET b == [first |-> buffer.line, last |-> Len(file)]
         IN  b \in Block /\ BlockIn(file, b) /\ buffer = QuestionOf(file, b)
<1> DEFINE b == [first |-> buffer.line, last |-> Len(file)]
<1>1. /\ NUM_ANSWERS \in Nat \ {0} /\ MaxLines \in Nat /\ Len(file) \in Nat
      /\ buffer.line \in Nat \ {0} /\ buffer.correct \in Int
      /\ buffer = [line |-> buffer.line, correct |-> buffer.correct,
                   timeout |-> buffer.timeout]
  BY CatalogAssumption DEF TypeInv, TypeOK, QuestionTypeOK, FileTypeOK, Draft
<1>2. b.first = buffer.line /\ b.last = Len(file) /\ AnswersFrom(b) = Before + 1
      /\ Before \in Nat /\ buffer.line <= Before /\ Before <= Len(file)
  BY <1>1 DEF AnswersFrom, Before, InQuestion
<1>3. b \in Block
  BY <1>1, <1>2 DEF Block
<1> HIDE DEF b
<1>4. Rights(file, b) = RightLines
  BY <1>2 DEF Rights, RightLines
<1>5. Rights(file, b) = {Before + 1 + buffer.correct}
  BY <1>4 DEF InQuestion
<1>6. Cardinality(Rights(file, b)) = 1
  BY <1>5, FS_Singleton
<1>7. BlockIn(file, b)
  <2>1. \A n \in b.first + 1 .. AnswersFrom(b) - 1 : IsTimeout(file[n])
    BY <1>2 DEF InQuestion
  <2>2. \A n \in AnswersFrom(b) .. b.last : IsAnswer(file[n])
    BY <1>2 DEF InQuestion
  <2>3. b.first < AnswersFrom(b) /\ b.last <= Len(file) /\ IsQuestion(file[b.first])
    BY <1>1, <1>2 DEF InQuestion
  <2> QED BY <1>6, <2>1, <2>2, <2>3 DEF BlockIn
<1>8. (CHOOSE n \in Rights(file, b) : TRUE) - AnswersFrom(b) = buffer.correct
  <2> DEFINE r == CHOOSE n \in Rights(file, b) : TRUE
  <2>1. r = Before + 1 + buffer.correct
    BY <1>5
  <2> HIDE DEF r
  <2>2. r - AnswersFrom(b) = buffer.correct
    BY <1>1, <1>2, <2>1
  <2> QED BY <2>2 DEF r
<1>9. buffer.timeout = IF b.first + 1 = AnswersFrom(b) THEN DefaultTimeout
                       ELSE file[AnswersFrom(b) - 1].value
  <2>1. AnswersFrom(b) - 1 = Before /\ (b.first + 1 = AnswersFrom(b)) = (Before = buffer.line)
    BY <1>1, <1>2
  <2> QED BY <2>1 DEF InQuestion
<1>10. buffer = QuestionOf(file, b)
  BY <1>1, <1>2, <1>8, <1>9 DEF QuestionOf
<1> QED BY <1>3, <1>7, <1>10 DEF b

\* With it on the stack, everything read so far is parsed.
LEMMA PushParsed ==
  ASSUME TypeInv, InQuestion, currentAnswer = NUM_ANSWERS, buffer.correct # -1,
         Len(file) <= MaxLines, stack' = Append(stack, buffer), file' = file
  PROVE  ParsedTo(Len(file))'
<1> DEFINE b == [first |-> buffer.line, last |-> Len(file)]
<1>1. b \in Block /\ BlockIn(file, b) /\ buffer = QuestionOf(file, b)
  BY BlockRead
<1>2. /\ b.first = buffer.line /\ b.last = Len(file) /\ Len(file) \in Nat
      /\ buffer.line \in Nat \ {0} /\ stack \in Seq(Question) /\ buffer.line <= Len(file)
  BY SMTT(60), CatalogAssumption
  DEF TypeInv, TypeOK, QuestionTypeOK, StackTypeOK, FileTypeOK, Draft, InQuestion, Before
<1> HIDE DEF b
<1>3. PICK blocks : Parsed(file, blocks, buffer.line - 1)
  BY DEF InQuestion, ParsedTo
<1> DEFINE now == Append(blocks, b)
<1>4. /\ blocks \in Seq(Block) /\ Len(blocks) \in Nat /\ Len(blocks) = Len(stack)
      /\ now \in Seq(Block) /\ Len(now) = Len(blocks) + 1
      /\ \A k \in 1 .. Len(blocks) : now[k] = blocks[k]
      /\ now[Len(blocks) + 1] = b
  BY <1>1, <1>3 DEF Parsed
<1>5. /\ Len(stack') = Len(now)
      /\ \A k \in 1 .. Len(blocks) : stack'[k] = stack[k]
      /\ stack'[Len(blocks) + 1] = buffer
  <2>1. buffer \in Draft
    BY DEF TypeInv, TypeOK, QuestionTypeOK
  <2>2. buffer \in Question
    BY <2>1, DraftTyped
  <2> QED BY <1>2, <1>4, <2>2
<1> HIDE DEF now
<1>6. \A k \in 1 .. Len(blocks) : blocks[k] \in Block /\ blocks[k].last <= buffer.line - 1
  BY <1>3, <1>4 DEF Parsed
<1>7. \A k \in 1 .. Len(blocks) : blocks[k].last \in Nat
  BY <1>6 DEF Block
<1>8. \A k \in 1 .. Len(now) :
        BlockIn(file, now[k]) /\ now[k].last <= Len(file) /\ stack'[k] = QuestionOf(file, now[k])
  <2> TAKE k \in 1 .. Len(now)
  <2>1. CASE k \in 1 .. Len(blocks)
    BY <1>2, <1>3, <1>4, <1>5, <1>6, <1>7, <2>1 DEF Parsed
  <2>2. CASE k \notin 1 .. Len(blocks)
    <3>1. k = Len(blocks) + 1
      BY <1>4, <2>2
    <3>2. now[k] = b /\ stack'[k] = buffer
      BY <1>4, <1>5, <3>1
    <3>3. BlockIn(file, now[k]) /\ stack'[k] = QuestionOf(file, now[k])
      BY <1>1, <3>2, Zenon
    <3>4. now[k].last <= Len(file)
      BY <1>2, <3>2
    <3> QED BY <3>3, <3>4
  <2> QED BY <2>1, <2>2
<1>9. \A k, l \in 1 .. Len(now) : k < l => Behind(now[k], now[l])
  <2> TAKE k, l \in 1 .. Len(now)
  <2> HAVE k < l
  <2>1. k \in 1 .. Len(blocks) /\ l \in Nat /\ l <= Len(blocks) + 1
    BY <1>4
  <2>2. CASE l \in 1 .. Len(blocks)
    BY <1>3, <1>4, <2>1, <2>2 DEF Parsed
  <2>3. CASE l \notin 1 .. Len(blocks)
    <3>1. l = Len(blocks) + 1
      BY <1>4, <2>1, <2>3
    <3>2. now[k] = blocks[k] /\ now[l] = b
      BY <1>4, <2>1, <3>1
    <3>3. blocks[k].last < b.first
      BY <1>2, <1>6, <1>7, <2>1
    <3> QED BY <3>2, <3>3 DEF Behind
  <2> QED BY <2>2, <2>3
<1>10. \A m \in 1 .. Len(file) : IsBlank(file[m]) \/ \E k \in 1 .. Len(now) : Within(now[k], m)
  <2> TAKE m \in 1 .. Len(file)
  <2>1. CASE m \in 1 .. buffer.line - 1
    BY <1>3, <1>4, <2>1 DEF Parsed
  <2>2. CASE m \notin 1 .. buffer.line - 1
    <3>1. Within(b, m)
      BY <1>2, <2>2 DEF Within
    <3> QED BY <1>4, <3>1
  <2> QED BY <2>1, <2>2
<1>11. PICK bs : bs = now
  OBVIOUS
<1>12. Len(bs) = Len(now) /\ \A k \in 1 .. Len(bs) : bs[k] = now[k]
  BY <1>11
<1>13. Parsed(file, bs, Len(file))'
  BY <1>4, <1>5, <1>8, <1>9, <1>10, <1>11, <1>12 DEF Parsed
<1> QED BY <1>13 DEF ParsedTo

\* A file that is parsed to its end is a catalog, and the stack has its questions.
LEMMA ParsedIsCatalog ==
  ASSUME TypeInv, ParsedTo(Len(file)), Len(file) <= MaxLines
  PROVE  \E blocks \in BlocksOf(file) :
           /\ Len(stack) = Cardinality(blocks)
           /\ {stack[n] : n \in DOMAIN stack} = {QuestionOf(file, b) : b \in blocks}
           /\ \A n \in 1 .. Len(stack) - 1 : stack[n].line < stack[n + 1].line
<1>1. PICK bs : Parsed(file, bs, Len(file))
  BY DEF ParsedTo
<1> DEFINE N == Len(bs)
<1> DEFINE blocks == {bs[k] : k \in 1 .. N}
<1>2. /\ N \in Nat /\ N = Len(stack) /\ DOMAIN stack = 1 .. N
      /\ \A k \in 1 .. N : bs[k] \in Block
  BY <1>1 DEF Parsed, TypeInv, TypeOK, StackTypeOK
<1>3. /\ \A k \in 1 .. N : BlockIn(file, bs[k]) /\ stack[k] = QuestionOf(file, bs[k])
      /\ \A k, l \in 1 .. N : k < l => Behind(bs[k], bs[l])
      /\ \A m \in 1 .. Len(file) : IsBlank(file[m]) \/ \E k \in 1 .. N : Within(bs[k], m)
  BY <1>1 DEF Parsed
<1>4. ASSUME NEW k \in 1 .. N
      PROVE  /\ bs[k].first \in Nat /\ bs[k].last \in Nat /\ bs[k].first <= bs[k].last
             /\ stack[k].line = bs[k].first
  <2>1. bs[k].first \in Nat /\ bs[k].last \in Nat /\ NUM_ANSWERS \in Nat \ {0}
    BY <1>2, CatalogAssumption DEF Block
  <2>2. bs[k].first < AnswersFrom(bs[k]) /\ stack[k] = QuestionOf(file, bs[k])
    BY <1>3 DEF BlockIn
  <2>3. bs[k].first <= bs[k].last
    BY <2>1, <2>2 DEF AnswersFrom
  <2>4. stack[k].line = bs[k].first
    BY <2>2 DEF QuestionOf
  <2> QED BY <2>1, <2>3, <2>4
<1> HIDE DEF N
<1>5. ASSUME NEW k \in 1 .. N, NEW l \in 1 .. N
      PROVE  Apart(bs[k], bs[l]) /\ (bs[k] = bs[l] => k = l)
  <2>1. CASE k = l
    BY <2>1 DEF Apart
  <2>2. CASE k < l
    <3>1. bs[k].last < bs[l].first
      BY <1>3, <2>2 DEF Behind
    <3>2. bs[k].last < bs[l].last
      BY <1>4, <3>1
    <3> QED BY <1>4, <3>1, <3>2 DEF Apart
  <2>3. CASE l < k
    <3>1. bs[l].last < bs[k].first
      BY <1>3, <2>3 DEF Behind
    <3>2. bs[l].last < bs[k].last
      BY <1>4, <3>1
    <3> QED BY <1>4, <3>1, <3>2 DEF Apart
  <2> QED BY <1>2, <2>1, <2>2, <2>3
<1>6. Cardinality(blocks) = N
  <2> DEFINE nth == [k \in 1 .. N |-> bs[k]]
  <2>1. nth \in Bijection(1 .. N, blocks)
    <3>1. nth \in [1 .. N -> blocks] /\ \A k \in 1 .. N : nth[k] = bs[k]
      OBVIOUS
    <3>2. \A k, l \in 1 .. N : nth[k] = nth[l] => k = l
      BY <1>5
    <3>3. \A b \in blocks : \E k \in 1 .. N : nth[k] = b
      OBVIOUS
    <3> HIDE DEF nth, blocks
    <3> QED BY <3>1, <3>2, <3>3, Fun_IsBij
  <2>2. ExistsBijection(1 .. N, blocks)
    BY <2>1, Fun_ExistsBij
  <2>3. IsFiniteSet(1 .. N) /\ Cardinality(1 .. N) = N
    <3>1. N \in Nat
      BY <1>2
    <3>2. IsFiniteSet(1 .. N) /\ Cardinality(1 .. N) = IF 1 > N THEN 0 ELSE N - 1 + 1
      BY <3>1, FS_Interval
    <3> QED BY <3>1, <3>2
  <2> HIDE DEF nth, blocks
  <2> QED BY <2>2, <2>3, FS_Bijection
<1>7. blocks \in BlocksOf(file)
  <2>1. blocks \subseteq {b \in Block : BlockIn(file, b)}
    BY <1>2, <1>3
  <2>2. \A b, c \in blocks : Apart(b, c)
    BY <1>5
  <2>3. \A n \in DOMAIN file : IsBlank(file[n]) \/ \E b \in blocks : n \in b.first .. b.last
    <3>1. DOMAIN file = 1 .. Len(file)
      BY DEF TypeInv, TypeOK, FileTypeOK
    <3> QED BY <1>3, <3>1 DEF Within
  <2> QED BY <2>1, <2>2, <2>3 DEF BlocksOf, Catalog
<1>8. {stack[n] : n \in DOMAIN stack} = {QuestionOf(file, b) : b \in blocks}
  BY <1>2, <1>3
<1>9. \A n \in 1 .. Len(stack) - 1 : stack[n].line < stack[n + 1].line
  <2> TAKE n \in 1 .. Len(stack) - 1
  <2>1. n \in 1 .. N /\ n + 1 \in 1 .. N /\ n < n + 1
    BY <1>2
  <2>2. bs[n].last < bs[n + 1].first
    BY <1>3, <2>1 DEF Behind
  <2> QED BY <1>4, <2>1, <2>2
<1> HIDE DEF blocks
<1> QED BY <1>2, <1>6, <1>7, <1>8, <1>9

\* A parse that fails promises nothing.
LEMMA FailsAccepts ==
  ASSUME NEW status \in Statuses \ {"OK"}, NEW n, Fails(status, n), Len(file') <= MaxLines
  PROVE  AcceptInv'
BY DEF Fails, AcceptInv, AcceptsCatalog

\* The file with one more line.
LEMMA OneMoreLine ==
  ASSUME TypeInv, AcceptInv, NEW line \in Lines, NEW place, Gets(place, line)
  PROVE  /\ line \in Line /\ file' = Append(file, line) /\ file \in Seq(Line)
         /\ Len(file) \in Nat /\ Len(file') = Len(file) + 1 /\ Len(file') <= MaxLines
         /\ \A n \in 1 .. Len(file) : file'[n] = file[n]
         /\ file'[Len(file) + 1] = line
<1>1. file \in Seq(Line) /\ line \in Line /\ file' = Append(file, line)
      /\ Len(file) < MaxLines /\ MaxLines \in Nat
  BY CatalogAssumption DEF TypeInv, TypeOK, FileTypeOK, Gets
<1> QED BY <1>1

\* What the question being read is made of.
LEMMA InQuestionTyped ==
  ASSUME TypeInv, InQuestion
  PROVE  /\ buffer.line \in Nat \ {0} /\ buffer.correct \in Int /\ Len(file) \in Nat
         /\ Before \in Nat /\ Before = Len(file) - currentAnswer /\ currentAnswer \in Nat
         /\ buffer.line <= Before /\ Before <= Len(file)
         /\ buffer.line - 1 \in 0 .. Len(file)
BY SMTT(60), CatalogAssumption
DEF TypeInv, TypeOK, QuestionTypeOK, FileTypeOK, Draft, InQuestion, Before

\* A question whose lines so far are unchanged stays parsed before its first line.
LEMMA PrefixStays ==
  ASSUME TypeInv, AcceptInv, InQuestion, NEW line \in Lines, NEW place, Gets(place, line),
         stack' = stack, buffer'.line = buffer.line
  PROVE  ParsedTo(buffer.line - 1)'
<1>1. PICK n \in 0 .. Len(file) : n = buffer.line - 1
  BY InQuestionTyped
<1>2. ParsedTo(n)
  BY <1>1 DEF InQuestion
<1>3. ParsedTo(n)'
  BY <1>2, OneMoreLine, ParsedStays
<1> QED BY <1>1, <1>3

\* An answer goes on with the question.
LEMMA AnswerTaken ==
  ASSUME TypeInv, AcceptInv, InQuestion, NEW line \in Lines, NEW place, Gets(place, line),
         IsAnswer(line), stack' = stack, currentAnswer' = currentAnswer + 1,
         buffer'.line = buffer.line, buffer'.timeout = buffer.timeout,
         \/ line.kind = "wrong" /\ buffer'.correct = buffer.correct
         \/ line.kind = "right" /\ buffer.correct = -1 /\ buffer'.correct = currentAnswer
  PROVE  InQuestion'
<1>1. /\ Len(file) \in Nat /\ Len(file') = Len(file) + 1
      /\ \A n \in 1 .. Len(file) : file'[n] = file[n]
      /\ file'[Len(file) + 1] = line
  BY OneMoreLine
<1>2. /\ buffer.line \in Nat \ {0} /\ buffer.correct \in Int /\ Before \in Nat
      /\ Before = Len(file) - currentAnswer /\ currentAnswer \in Nat
      /\ buffer.line <= Before /\ Before <= Len(file)
  BY InQuestionTyped
<1>3. Before' = Before
  BY <1>1, <1>2 DEF Before
<1>4. \A n \in buffer.line .. Before : file'[n] = file[n]
  BY <1>1, <1>2
<1>5. IsQuestion(file'[buffer.line])
  BY <1>2, <1>4 DEF InQuestion
<1>6. \A n \in buffer.line + 1 .. Before : IsTimeout(file'[n])
  <2> TAKE n \in buffer.line + 1 .. Before
  <2>1. n \in buffer.line .. Before
    BY <1>2
  <2> QED BY <1>4, <2>1 DEF InQuestion
<1>7. \A n \in Before + 1 .. Len(file') : IsAnswer(file'[n])
  <2> TAKE n \in Before + 1 .. Len(file')
  <2>1. CASE n = Len(file) + 1
    BY <1>1, <2>1
  <2>2. CASE n # Len(file) + 1
    <3>1. n \in Before + 1 .. Len(file) /\ n \in 1 .. Len(file)
      BY <1>1, <1>2, <2>2
    <3> QED BY <1>1, <3>1 DEF InQuestion
  <2> QED BY <2>1, <2>2
<1>8. RightLines' = RightLines \cup (IF line.kind = "right" THEN {Len(file) + 1} ELSE {})
  <2>1. \A n \in Before + 1 .. Len(file) : n # Len(file) + 1 /\ file'[n] = file[n]
    BY <1>1, <1>2
  <2>2. Before + 1 .. Len(file') = (Before + 1 .. Len(file)) \cup {Len(file) + 1}
    BY <1>1, <1>2
  <2> QED BY <1>1, <1>3, <2>1, <2>2 DEF RightLines
<1>9. RightLines' = IF buffer'.correct = -1 THEN {} ELSE {Before + 1 + buffer'.correct}
  <2>1. CASE line.kind = "wrong" /\ buffer'.correct = buffer.correct
    BY <1>8, <2>1 DEF InQuestion
  <2>2. CASE line.kind = "right" /\ buffer.correct = -1 /\ buffer'.correct = currentAnswer
    <3>1. RightLines' = {Len(file) + 1}
      BY <1>8, <2>2 DEF InQuestion
    <3>2. Before + 1 + buffer'.correct = Len(file) + 1 /\ buffer'.correct # -1
      BY <1>1, <1>2, <2>2
    <3> QED BY <3>1, <3>2
  <2> QED BY <2>1, <2>2
<1>10. buffer'.timeout = IF Before = buffer.line THEN DefaultTimeout ELSE file'[Before].value
  BY SMTT(60), <1>2, <1>4 DEF InQuestion
<1> QED BY <1>2, <1>3, <1>5, <1>6, <1>7, <1>9, <1>10, PrefixStays DEF InQuestion

\* So does a timeout, in front of the answers.
LEMMA TimeoutTaken ==
  ASSUME TypeInv, AcceptInv, InQuestion, NEW line \in Lines, NEW place, Gets(place, line),
         IsTimeout(line), stack' = stack, currentAnswer = 0, currentAnswer' = currentAnswer,
         buffer'.line = buffer.line, buffer'.timeout = line.value,
         buffer'.correct = buffer.correct
  PROVE  InQuestion'
<1>1. /\ Len(file) \in Nat /\ Len(file') = Len(file) + 1
      /\ \A n \in 1 .. Len(file) : file'[n] = file[n]
      /\ file'[Len(file) + 1] = line
  BY OneMoreLine
<1>2. /\ buffer.line \in Nat \ {0} /\ buffer.correct \in Int /\ Before \in Nat
      /\ Before = Len(file) /\ buffer.line <= Before
  BY InQuestionTyped
<1>3. Before' = Len(file) + 1
  BY <1>1 DEF Before
<1>4. IsQuestion(file'[buffer.line])
  BY <1>1, <1>2 DEF InQuestion
<1>5. \A n \in buffer.line + 1 .. Before' : IsTimeout(file'[n])
  <2> TAKE n \in buffer.line + 1 .. Before'
  <2>1. CASE n = Len(file) + 1
    BY <1>1, <2>1
  <2>2. CASE n # Len(file) + 1
    <3>1. n \in buffer.line + 1 .. Before /\ n \in 1 .. Len(file)
      BY <1>1, <1>2, <1>3, <2>2
    <3> QED BY <1>1, <3>1 DEF InQuestion
  <2> QED BY <2>1, <2>2
<1>6. RightLines = {} /\ buffer.correct = -1
  <2>1. RightLines = {}
    BY <1>2 DEF RightLines
  <2> QED BY <2>1 DEF InQuestion
<1>7. RightLines' = {}
  BY <1>1, <1>3 DEF RightLines
<1>8. buffer'.timeout = IF Before' = buffer.line THEN DefaultTimeout ELSE file'[Before'].value
  BY <1>1, <1>2, <1>3
<1>9. Before' \in Nat /\ buffer.line <= Before' /\ Before' + 1 .. Len(file') = {}
  BY <1>1, <1>2, <1>3
<1> QED BY <1>4, <1>5, <1>6, <1>7, <1>8, <1>9, PrefixStays DEF InQuestion

\* A new question begins where everything before it is parsed.
LEMMA QuestionBegins ==
  ASSUME TypeInv, AcceptInv, at = "question", NEW line \in Lines, Gets("question", line),
         IsQuestion(line), stack' = stack, currentAnswer' = 0,
         buffer' = [line |-> Len(file) + 1, correct |-> -1, timeout |-> DefaultTimeout]
  PROVE  InQuestion'
<1>1. /\ Len(file) \in Nat /\ Len(file') = Len(file) + 1
      /\ file'[Len(file) + 1] = line
      /\ line \in Line /\ file' = Append(file, line) /\ file \in Seq(Line)
  BY OneMoreLine
<1>2. Before' = Len(file) + 1 /\ buffer'.line = Len(file) + 1 /\ buffer'.correct = -1
      /\ buffer'.timeout = DefaultTimeout
  BY <1>1 DEF Before
<1>3. RightLines' = {}
  BY <1>1, <1>2 DEF RightLines
<1>4. PICK n \in 0 .. Len(file) : n = Len(file)
  BY <1>1
<1>5. ParsedTo(n)
  BY <1>4 DEF AcceptInv
<1>6. ParsedTo(n)'
  BY <1>1, <1>5, ParsedStays
<1>7. buffer'.line - 1 = n
  BY <1>1, <1>2, <1>4
<1>8. /\ Before' \in Nat /\ buffer'.line <= Before' /\ Before' + 1 .. Len(file') = {}
      /\ buffer'.line + 1 .. Before' = {}
  BY <1>1, <1>2
<1> QED BY <1>1, <1>2, <1>3, <1>6, <1>7, <1>8 DEF InQuestion

\* A blank line between questions.
LEMMA BlankSkipped ==
  ASSUME TypeInv, AcceptInv, at = "question", NEW line \in Lines, Gets("question", line),
         IsBlank(line), stack' = stack
  PROVE  ParsedTo(Len(file))'
<1>1. /\ Len(file) \in Nat /\ Len(file') = Len(file) + 1
      /\ file'[Len(file) + 1] = line
      /\ line \in Line /\ file' = Append(file, line) /\ file \in Seq(Line)
  BY OneMoreLine
<1>2. PICK n \in 0 .. Len(file) : n = Len(file)
  BY <1>1
<1>3. ParsedTo(n)
  BY <1>2 DEF AcceptInv
<1>4. ParsedTo(n)'
  BY <1>1, <1>3, ParsedStays
<1>5. PICK blocks : Parsed(file, blocks, n)'
  BY <1>4 DEF ParsedTo
<1>6. /\ blocks \in Seq(Block) /\ Len(blocks) = Len(stack')
      /\ \A k \in 1 .. Len(blocks) :
           /\ BlockIn(file', blocks[k]) /\ blocks[k].last <= n /\ blocks[k] \in Block
           /\ stack'[k] = QuestionOf(file', blocks[k])
      /\ \A k, l \in 1 .. Len(blocks) : k < l => Behind(blocks[k], blocks[l])
      /\ \A m \in 1 .. n :
           IsBlank(file'[m]) \/ \E k \in 1 .. Len(blocks) : Within(blocks[k], m)
  BY <1>5 DEF Parsed
<1>7. \A k \in 1 .. Len(blocks) : blocks[k].last <= Len(file')
  <2> TAKE k \in 1 .. Len(blocks)
  <2>1. blocks[k].last \in Nat /\ blocks[k].last <= n
    BY <1>6, CatalogAssumption DEF Block
  <2> QED BY <1>1, <1>2, <2>1
<1>8. \A m \in 1 .. Len(file') :
        IsBlank(file'[m]) \/ \E k \in 1 .. Len(blocks) : Within(blocks[k], m)
  <2> TAKE m \in 1 .. Len(file')
  <2>1. CASE m = Len(file) + 1
    BY <1>1, <2>1
  <2>2. CASE m # Len(file) + 1
    <3>1. m \in 1 .. n
      BY <1>1, <1>2, <2>2
    <3> QED BY <1>6, <3>1
  <2> QED BY <2>1, <2>2
<1>9. Parsed(file, blocks, Len(file))'
  BY <1>6, <1>7, <1>8 DEF Parsed
<1> QED BY <1>9 DEF ParsedTo

\* A line taken for an answer leads to the next one or to the push.
LEMMA TakesAccepts ==
  ASSUME TypeInv, AcceptInv, at = "answer", NEW line \in Lines, Gets("answer", line),
         IsAnswer(line), NEW correct \in Int, Takes(correct),
         \/ line.kind = "wrong" /\ correct = buffer.correct
         \/ line.kind = "right" /\ buffer.correct = -1 /\ correct = currentAnswer
  PROVE  AcceptInv'
<1>1. Len(file') <= MaxLines
  BY OneMoreLine
<1>2. CASE Fails("CORRECT_MISSING", NextLine)
  BY <1>1, <1>2, FailsAccepts, StatusesNamed
<1>3. CASE ~Fails("CORRECT_MISSING", NextLine)
  <2>1. /\ currentAnswer \in 0 .. NUM_ANSWERS /\ currentAnswer < NUM_ANSWERS
        /\ NUM_ANSWERS \in Nat \ {0} /\ buffer \in Draft
    BY CatalogAssumption DEF TypeInv, TypeOK, Stage, QuestionTypeOK
  <2>2. /\ buffer' = [buffer EXCEPT !.correct = correct] /\ stack' = stack
        /\ \/ currentAnswer' = currentAnswer + 1 /\ at' = "answer"
           \/ /\ currentAnswer' = NUM_ANSWERS /\ at' = "push"
              /\ ~(currentAnswer + 1 < NUM_ANSWERS)
    BY <1>3 DEF Takes
  <2>3. /\ buffer'.line = buffer.line /\ buffer'.timeout = buffer.timeout
        /\ buffer'.correct = correct
    BY <2>1, <2>2 DEF Draft
  <2>4. currentAnswer' = currentAnswer + 1
    BY <2>1, <2>2
  <2>5. InQuestion'
    BY <2>2, <2>3, <2>4, AnswerTaken DEF AcceptInv
  <2>6. at' \in {"answer", "push"} /\ (at' = "push" => currentAnswer' = NUM_ANSWERS)
    BY <2>2
  <2> QED BY <1>1, <2>5, <2>6 DEF AcceptInv, AcceptsCatalog
<1> QED BY <1>2, <1>3

\* Every line read keeps the promise.
LEMMA ReadLineAccepts ==
  ASSUME TypeInv, AcceptInv, NEW line \in Lines, ReadLine(line)
  PROVE  AcceptInv'
<1>1. Len(file') <= MaxLines
  BY OneMoreLine
  DEF ReadLine, SkipBlank, ReadQuestion, ReadWrong, ReadRight, ReadTimeout, ReadNoAnswer
<1>2. ASSUME NEW status \in LineErrors, NEW n, Fails(status, n)
      PROVE  AcceptInv'
  BY <1>1, <1>2, FailsAccepts, StatusesNamed DEF LineErrors
<1>3. CASE SkipBlank(line)
  <2>1. at = "question" /\ at' = "question" /\ Gets("question", line) /\ stack' = stack
        /\ IsBlank(line)
    BY <1>3 DEF SkipBlank, Gets, IsBlank
  <2>2. ParsedTo(Len(file))'
    BY <2>1, BlankSkipped
  <2> QED BY <1>1, <2>1, <2>2 DEF AcceptInv, AcceptsCatalog
<1>4. CASE ReadQuestion(line)
  <2>1. CASE Fails("LINE_TOO_LONG", res.lineNumber)
    BY <1>2, <2>1, LineErrorsNamed
  <2>2. CASE ~Fails("LINE_TOO_LONG", res.lineNumber)
    <3>1. /\ at = "question" /\ Gets("question", line) /\ IsQuestion(line) /\ at' = "answer"
          /\ buffer' = [line |-> Len(file) + 1, correct |-> -1, timeout |-> DefaultTimeout]
          /\ currentAnswer' = 0 /\ stack' = stack
      BY <1>4, <2>2 DEF ReadQuestion, Gets, IsQuestion
    <3>2. InQuestion'
      BY <3>1, QuestionBegins
    <3> QED BY <1>1, <3>1, <3>2 DEF AcceptInv, AcceptsCatalog
  <2> QED BY <2>1, <2>2
<1>5. CASE ReadWrong(line)
  <2>1. at = "answer" /\ Gets("answer", line) /\ IsAnswer(line) /\ line.kind = "wrong"
        /\ Takes(buffer.correct)
    BY <1>5 DEF ReadWrong, Gets, IsAnswer
  <2>2. buffer.correct \in Int
    BY <2>1, InQuestionTyped DEF AcceptInv
  <2> QED BY <2>1, <2>2, TakesAccepts
<1>6. CASE ReadRight(line)
  <2>1. CASE Fails("TOO_MANY_CORRECT", NextLine)
    BY <1>2, <2>1, LineErrorsNamed
  <2>2. CASE ~Fails("TOO_MANY_CORRECT", NextLine)
    <3>1. at = "answer" /\ Gets("answer", line) /\ IsAnswer(line) /\ line.kind = "right"
          /\ buffer.correct = -1 /\ Takes(currentAnswer)
      BY <1>6, <2>2 DEF ReadRight, Gets, IsAnswer
    <3>2. currentAnswer \in Int
      BY <3>1, InQuestionTyped DEF AcceptInv
    <3> QED BY <3>1, <3>2, TakesAccepts
  <2> QED BY <2>1, <2>2
<1>7. CASE ReadTimeout(line)
  <2>1. CASE Fails("INVALID_TIMEOUT", NextLine)
    BY <1>2, <2>1, LineErrorsNamed
  <2>2. CASE ~Fails("INVALID_TIMEOUT", NextLine)
    <3>1. /\ at = "answer" /\ Gets("answer", line) /\ IsTimeout(line) /\ currentAnswer = 0
          /\ buffer' = [buffer EXCEPT !.timeout = line.value]
          /\ at' = "answer" /\ currentAnswer' = currentAnswer /\ stack' = stack
      BY <1>7, <2>2 DEF ReadTimeout, Gets, IsTimeout
    <3>2. buffer \in Draft
      BY DEF TypeInv, TypeOK, QuestionTypeOK
    <3>3. /\ buffer'.line = buffer.line /\ buffer'.timeout = line.value
          /\ buffer'.correct = buffer.correct
      BY <3>1, <3>2 DEF Draft
    <3>4. InQuestion'
      BY <3>1, <3>3, TimeoutTaken DEF AcceptInv
    <3> QED BY <1>1, <3>1, <3>4 DEF AcceptInv, AcceptsCatalog
  <2> QED BY <2>1, <2>2
<1>8. CASE ReadNoAnswer(line)
  BY <1>2, <1>8, LineErrorsNamed DEF ReadNoAnswer
<1> QED BY <1>3, <1>4, <1>5, <1>6, <1>7, <1>8 DEF ReadLine

\* What a step changes of the file and the stack decides what is parsed.
LEMMA ParsedSame ==
  ASSUME file' = file, stack' = stack
  PROVE  /\ \A n : ParsedTo(n)' = ParsedTo(n)
         /\ AcceptsCatalog /\ at' = at /\ res' = res => AcceptsCatalog'
BY DEF ParsedTo, Parsed, AcceptsCatalog

LEMMA AcceptStep ==
  ASSUME TypeInv, AcceptInv, [Next]_vars
  PROVE  AcceptInv'
<1>1. CASE UNCHANGED vars
  <2>1. /\ UNCHANGED <<at, buffer, currentAnswer, stack, res, file, tail, pushed>>
        /\ ParsedTo(Len(file))' = ParsedTo(Len(file)) /\ InQuestion' = InQuestion
    BY <1>1 DEF vars, ParsedTo, Parsed, InQuestion, Before, RightLines
  <2>2. AcceptsCatalog'
    BY <2>1, ParsedSame DEF AcceptInv
  <2> QED BY <2>1, <2>2 DEF AcceptInv
<1>2. CASE Open
  <2>1. file' = file /\ file = <<>> /\ stack = <<>> /\ Len(file') <= MaxLines
    BY <1>2 DEF Open, AcceptInv
  <2>2. CASE Fails("CANNOT_OPEN", 0)
    BY <2>1, <2>2, FailsAccepts, StatusesNamed
  <2>3. CASE ~Fails("CANNOT_OPEN", 0)
    <3>1. at' = "question" /\ stack' = stack
      BY <1>2, <2>3 DEF Open
    <3>2. Parsed(file, <<>>, Len(file))'
      BY <2>1, <3>1 DEF Parsed
    <3> QED BY <2>1, <3>1, <3>2 DEF AcceptInv, AcceptsCatalog, ParsedTo
  <2> QED BY <2>2, <2>3
<1>3. CASE Push
  <2>1. /\ file' = file /\ Len(file) <= MaxLines /\ InQuestion
        /\ currentAnswer = NUM_ANSWERS /\ buffer.correct # -1
    BY <1>3 DEF Push, AcceptInv, TypeInv, Stage
  <2>2. CASE Fails("OOM", res.lineNumber)
    BY <2>1, <2>2, FailsAccepts, StatusesNamed
  <2>3. CASE ~Fails("OOM", res.lineNumber)
    <3>1. at' = "question" /\ stack' = Append(stack, buffer)
      BY <1>3, <2>3 DEF Push
    <3>2. ParsedTo(Len(file))'
      BY <2>1, <3>1, PushParsed
    <3> QED BY <2>1, <3>1, <3>2 DEF AcceptInv, AcceptsCatalog
  <2> QED BY <2>2, <2>3
<1>4. CASE \E line \in Lines : ReadLine(line)
  BY <1>4, ReadLineAccepts
<1>5. CASE EndAtQuestion
  <2>1. /\ file' = file /\ stack' = stack /\ at' = "done" /\ Len(file) <= MaxLines
        /\ ParsedTo(Len(file)) /\ res \in ParserResult
    BY <1>5 DEF EndAtQuestion, Succeeds, AcceptInv, TypeInv, TypeOK
  <2>2. res'.status = "OK" => stack # <<>>
    BY <1>5, <2>1 DEF EndAtQuestion, Succeeds, ParserResult
  <2>3. \E blocks \in BlocksOf(file) :
          /\ Len(stack) = Cardinality(blocks)
          /\ {stack[n] : n \in DOMAIN stack} = {QuestionOf(file, b) : b \in blocks}
          /\ \A n \in 1 .. Len(stack) - 1 : stack[n].line < stack[n + 1].line
    BY <2>1, ParsedIsCatalog
  <2>4. AcceptsCatalog'
    BY <2>1, <2>2, <2>3 DEF AcceptsCatalog
  <2> QED BY <2>1, <2>4 DEF AcceptInv
<1>6. CASE EndAtAnswer
  BY <1>6, FailsAccepts, StatusesNamed DEF EndAtAnswer, AcceptInv
<1>7. CASE ReadError
  BY <1>7, FailsAccepts, StatusesNamed DEF ReadError, AcceptInv
<1> QED BY <1>1, <1>2, <1>3, <1>4, <1>5, <1>6, <1>7 DEF Next, Returned

LEMMA AcceptInit == Init => AcceptInv
BY CatalogAssumption DEF Init, AcceptInv, AcceptsCatalog

\* Whatever the file, the number of answers and the faults: a parse that succeeds
\* has on the stack exactly the questions of a catalog (parser.c:161-341).
THEOREM AcceptsOnlyCatalogs == Spec => []AcceptsCatalog
<1>1. TypeInv /\ AcceptInv /\ [Next]_vars => TypeInv' /\ AcceptInv'
  BY TypeStep, AcceptStep
<1>2. Spec => [](TypeInv /\ AcceptInv)
  BY <1>1, TypeInit, AcceptInit, PTL DEF Spec
<1> QED BY <1>2, PTL DEF AcceptInv

-----------------------------------------------------------------------------
(* Rejection.  While the parse goes on the file can be completed; and the   *)
(* parser's view of where questions begin is the only one, so that a line   *)
(* it refuses has no place in any catalog.                                  *)

AnswerLine(kind) == [kind |-> kind, fits |-> "answer", value |-> 0]
Answered(f, n, kinds) == f \o [m \in 1 .. n |-> AnswerLine(kinds[m])]

LEMMA AnsweredExtends ==
  ASSUME NEW f \in Seq(Line), NEW n \in Nat, NEW kinds \in [1 .. n -> {"wrong", "right"}]
  PROVE  /\ Extends(Answered(f, n, kinds), f)
         /\ Len(Answered(f, n, kinds)) = Len(f) + n
         /\ \A m \in 1 .. n : Answered(f, n, kinds)[Len(f) + m] = AnswerLine(kinds[m])
<1> DEFINE ext == [m \in 1 .. n |-> AnswerLine(kinds[m])]
<1>1. \A m \in 1 .. n : AnswerLine(kinds[m]) \in Line
  BY DEF AnswerLine, Line
<1>2. ext \in Seq(Line) /\ Len(ext) = n /\ \A m \in 1 .. n : ext[m] = AnswerLine(kinds[m])
  BY <1>1
<1> HIDE DEF ext
<1>3. /\ f \o ext \in Seq(Line) /\ Len(f \o ext) = Len(f) + n
      /\ \A m \in 1 .. Len(f) + n :
           (f \o ext)[m] = IF m <= Len(f) THEN f[m] ELSE ext[m - Len(f)]
  BY <1>2, ConcatProperties
<1>4. Answered(f, n, kinds) = f \o ext
  BY DEF Answered, ext
<1>5. Len(f) \in Nat
  OBVIOUS
<1>6. ASSUME NEW m \in 1 .. n
      PROVE  (f \o ext)[Len(f) + m] = AnswerLine(kinds[m])
  <2>1. Len(f) + m \in 1 .. Len(f) + n /\ ~(Len(f) + m <= Len(f)) /\ Len(f) + m - Len(f) = m
    BY <1>5
  <2> QED BY <1>2, <1>3, <2>1
<1> QED BY <1>3, <1>4, <1>5, <1>6 DEF Extends

\* Blocks one behind the other that leave out blank lines only make a catalog.
LEMMA BlocksInOrder ==
  ASSUME NEW f \in Seq(Line), NEW bs \in Seq(Block),
         \A k \in 1 .. Len(bs) : BlockIn(f, bs[k]),
         \A k, l \in 1 .. Len(bs) : k < l => Behind(bs[k], bs[l]),
         \A m \in 1 .. Len(f) : IsBlank(f[m]) \/ \E k \in 1 .. Len(bs) : Within(bs[k], m)
  PROVE  BlocksOf(f) # {}
<1> DEFINE blocks == {bs[k] : k \in 1 .. Len(bs)}
<1>1. Len(bs) \in Nat /\ \A k \in 1 .. Len(bs) : bs[k] \in Block
  OBVIOUS
<1>2. blocks \subseteq {b \in Block : BlockIn(f, b)}
  BY <1>1
<1>3. \A k, l \in 1 .. Len(bs) : Apart(bs[k], bs[l])
  <2> TAKE k, l \in 1 .. Len(bs)
  <2>1. k = l \/ k < l \/ l < k
    BY <1>1
  <2> QED BY <2>1 DEF Apart, Behind
<1>4. \A b, c \in blocks : Apart(b, c)
  BY <1>3
<1>5. \A n \in DOMAIN f : IsBlank(f[n]) \/ \E b \in blocks : n \in b.first .. b.last
  <2>1. DOMAIN f = 1 .. Len(f)
    OBVIOUS
  <2> QED BY <2>1 DEF Within
<1> QED BY <1>2, <1>4, <1>5 DEF BlocksOf, Catalog

\* Between two questions the file is a catalog already.
LEMMA ViableBetween ==
  ASSUME TypeInv, ParsedTo(Len(file))
  PROVE  Viable(file)
<1>1. PICK bs : Parsed(file, bs, Len(file))
  BY DEF ParsedTo
<1>2. file \in Seq(Line)
  BY DEF TypeInv, TypeOK, FileTypeOK
<1>3. BlocksOf(file) # {}
  BY <1>1, <1>2, BlocksInOrder DEF Parsed
<1> DEFINE kinds == [m \in 1 .. 0 |-> "wrong"]
<1>4. kinds \in [1 .. 0 -> {"wrong", "right"}]
  OBVIOUS
<1>5. file \o [m \in 1 .. 0 |-> AnswerLine(kinds[m])] = file
  <2>1. [m \in 1 .. 0 |-> AnswerLine(kinds[m])] = <<>>
    OBVIOUS
  <2> QED BY <1>2, <2>1, ConcatEmptySeq
<1>6. 0 \in 0 .. NUM_ANSWERS
  BY CatalogAssumption
<1> QED BY <1>3, <1>4, <1>5, <1>6 DEF Viable, AnswerLine

\* A question under way is completed by the answers that are left, one of them right if
\* none was so far.
LEMMA ViableInQuestion ==
  ASSUME TypeInv, InQuestion, Len(file) <= MaxLines, currentAnswer <= NUM_ANSWERS,
         currentAnswer = NUM_ANSWERS => buffer.correct # -1
  PROVE  Viable(file)
<1> DEFINE n == NUM_ANSWERS - currentAnswer
           kinds == [m \in 1 .. n |-> IF m = 1 /\ buffer.correct = -1 THEN "right" ELSE "wrong"]
           g == Answered(file, n, kinds)
           b == [first |-> buffer.line, last |-> Len(file) + n]
<1>1. /\ NUM_ANSWERS \in Nat \ {0} /\ n \in 0 .. NUM_ANSWERS /\ n \in Nat /\ MaxLines \in Nat
      /\ n = NUM_ANSWERS - currentAnswer /\ (n = 0 => buffer.correct # -1)
  BY CatalogAssumption, InQuestionTyped
<1>2. /\ buffer.line \in Nat \ {0} /\ buffer.correct \in Int /\ Len(file) \in Nat
      /\ Before \in Nat /\ Before = Len(file) - currentAnswer /\ currentAnswer \in Nat
      /\ buffer.line <= Before /\ Before <= Len(file) /\ buffer.line - 1 \in 0 .. Len(file)
      /\ file \in Seq(Line)
  BY InQuestionTyped DEF TypeInv, TypeOK, FileTypeOK
<1> HIDE DEF n
<1>3. /\ kinds \in [1 .. n -> {"wrong", "right"}]
      /\ \A m \in 1 .. n : kinds[m] = IF m = 1 /\ buffer.correct = -1 THEN "right" ELSE "wrong"
  OBVIOUS
<1> HIDE DEF kinds
<1>4. /\ Extends(g, file) /\ Len(g) = Len(file) + n
      /\ \A m \in 1 .. n : g[Len(file) + m] = AnswerLine(kinds[m])
  BY ZenonT(60), <1>1, <1>2, <1>3, AnsweredExtends
<1> HIDE DEF g
<1>5. /\ g \in Seq(Line) /\ \A m \in 1 .. Len(file) : g[m] = file[m]
      /\ \A m \in Len(file) + 1 .. Len(file) + n : g[m] = AnswerLine(kinds[m - Len(file)])
  <2>1. ASSUME NEW m \in Len(file) + 1 .. Len(file) + n
        PROVE  g[m] = AnswerLine(kinds[m - Len(file)])
    <3>1. m - Len(file) \in 1 .. n /\ Len(file) + (m - Len(file)) = m
      BY <1>1, <1>2
    <3> QED BY <1>4, <3>1
  <2> QED BY <1>4, <2>1 DEF Extends
<1>6. /\ b.first = buffer.line /\ b.last = Len(file) + n /\ AnswersFrom(b) = Before + 1
      /\ b \in Block
  <2>1. b.first = buffer.line /\ b.last = Len(file) + n
    OBVIOUS
  <2>2. AnswersFrom(b) = Before + 1
    BY <1>1, <1>2, <2>1 DEF AnswersFrom
  <2>3. b.first \in 1 .. MaxLines + NUM_ANSWERS /\ b.last \in 1 .. MaxLines + NUM_ANSWERS
    BY <1>1, <1>2
  <2>4. b \in Block
    BY <2>3 DEF Block
  <2> QED BY <2>1, <2>2, <2>4
<1> HIDE DEF b
<1>7. \A m \in Before + 1 .. Len(file) + n : IsAnswer(g[m])
  <2> TAKE m \in Before + 1 .. Len(file) + n
  <2>1. CASE m <= Len(file)
    BY <1>1, <1>2, <1>5, <2>1 DEF InQuestion
  <2>2. CASE m > Len(file)
    <3>1. m - Len(file) \in 1 .. n /\ g[m] = AnswerLine(kinds[m - Len(file)])
      BY <1>1, <1>2, <1>5, <2>2
    <3>2. kinds[m - Len(file)] \in {"wrong", "right"}
      BY <1>3, <3>1
    <3> QED BY <3>1, <3>2 DEF AnswerLine, IsAnswer
  <2> QED BY <1>1, <1>2, <2>1, <2>2
<1>8. \E r : Rights(g, b) = {r}
  <2>1. Rights(g, b) = {m \in Before + 1 .. Len(file) + n : g[m].kind = "right"}
    BY <1>6 DEF Rights
  <2>2. \A m \in Before + 1 .. Len(file) : g[m].kind = "right" <=> m \in RightLines
    BY <1>2, <1>5 DEF RightLines
  <2>3. \A m \in Len(file) + 1 .. Len(file) + n :
          g[m].kind = "right" <=> m = Len(file) + 1 /\ buffer.correct = -1
    <3> TAKE m \in Len(file) + 1 .. Len(file) + n
    <3>1. m - Len(file) \in 1 .. n /\ (m - Len(file) = 1 <=> m = Len(file) + 1)
      BY <1>1, <1>2
    <3>2. g[m].kind = kinds[m - Len(file)]
      <4>1. \A kind : AnswerLine(kind).kind = kind
        BY DEF AnswerLine
      <4> QED BY <1>5, <4>1
    <3> QED BY <1>3, <3>1, <3>2
  <2>4. RightLines \subseteq Before + 1 .. Len(file)
    BY DEF RightLines
  <2>5. CASE buffer.correct = -1
    <3>1. RightLines = {}
      BY <2>5 DEF InQuestion
    <3>2. Len(file) + 1 \in Before + 1 .. Len(file) + n
      BY <1>1, <1>2, <2>5
    <3>3. ASSUME NEW m \in Before + 1 .. Len(file) + n
          PROVE  g[m].kind = "right" <=> m = Len(file) + 1
      <4>1. CASE m \in Before + 1 .. Len(file)
        BY <1>2, <2>2, <3>1, <4>1
      <4>2. CASE m \in Len(file) + 1 .. Len(file) + n
        BY <2>3, <2>5, <4>2
      <4> QED BY <1>1, <1>2, <4>1, <4>2
    <3>4. Rights(g, b) = {Len(file) + 1}
      BY <2>1, <3>2, <3>3, Zenon
    <3> QED BY <3>4
  <2>6. CASE buffer.correct # -1
    <3> DEFINE r == Before + 1 + buffer.correct
    <3>1. RightLines = {r}
      BY <2>6 DEF InQuestion
    <3>2. r \in Before + 1 .. Len(file) /\ r \in Before + 1 .. Len(file) + n
      <4>1. r \in Before + 1 .. Len(file)
        BY <2>4, <3>1
      <4> QED BY <1>1, <1>2, <4>1
    <3> HIDE DEF r
    <3>3. ASSUME NEW m \in Before + 1 .. Len(file) + n
          PROVE  g[m].kind = "right" <=> m = r
      <4>1. CASE m \in Before + 1 .. Len(file)
        BY <2>2, <3>1, <4>1
      <4>2. CASE m \in Len(file) + 1 .. Len(file) + n
        BY <1>1, <1>2, <2>3, <2>6, <3>2, <4>2
      <4> QED BY <1>1, <1>2, <4>1, <4>2
    <3>4. Rights(g, b) = {r}
      BY <2>1, <3>2, <3>3, Zenon
    <3> QED BY <3>4
  <2> QED BY <2>5, <2>6
<1>9. BlockIn(g, b)
  <2>1. Cardinality(Rights(g, b)) = 1
    BY <1>8, FS_Singleton
  <2>2. IsQuestion(g[b.first])
    <3>1. buffer.line \in 1 .. Len(file)
      BY <1>2
    <3>2. g[b.first] = file[buffer.line]
      BY <1>5, <1>6, <3>1
    <3> QED BY <3>2 DEF InQuestion
  <2>3. \A m \in b.first + 1 .. AnswersFrom(b) - 1 : IsTimeout(g[m])
    <3> TAKE m \in b.first + 1 .. AnswersFrom(b) - 1
    <3>1. m \in buffer.line + 1 .. Before /\ m \in 1 .. Len(file)
      BY SMTT(60), <1>2, <1>6
    <3>2. g[m] = file[m]
      BY <1>5, <3>1
    <3> QED BY <3>1, <3>2 DEF InQuestion
  <2>4. \A m \in AnswersFrom(b) .. b.last : IsAnswer(g[m])
    BY <1>6, <1>7
  <2>5. b.first < AnswersFrom(b) /\ b.last <= Len(g)
    BY <1>1, <1>2, <1>4, <1>6
  <2> QED BY <2>1, <2>2, <2>3, <2>4, <2>5 DEF BlockIn
<1>10. PICK bs : Parsed(file, bs, buffer.line - 1)
  BY DEF InQuestion, ParsedTo
<1> DEFINE now == Append(bs, b)
<1>11. /\ bs \in Seq(Block) /\ Len(bs) \in Nat
       /\ now \in Seq(Block) /\ Len(now) = Len(bs) + 1
       /\ \A k \in 1 .. Len(bs) : now[k] = bs[k] /\ bs[k] \in Block
       /\ now[Len(bs) + 1] = b
  BY SMTT(60), <1>6, <1>10 DEF Parsed
<1> HIDE DEF now
<1>12. \A k \in 1 .. Len(bs) :
         /\ BlockIn(g, bs[k]) /\ bs[k].last \in Nat /\ bs[k].last <= buffer.line - 1
  <2> TAKE k \in 1 .. Len(bs)
  <2>1. bs[k] \in Block /\ BlockIn(file, bs[k]) /\ bs[k].last <= buffer.line - 1
    BY <1>10, <1>11 DEF Parsed
  <2>2. bs[k].last \in Nat
    BY <1>1, <2>1 DEF Block
  <2> QED BY <1>2, <1>4, <2>1, <2>2, BlockExtends
<1>13. \A k \in 1 .. Len(now) : BlockIn(g, now[k])
  <2> TAKE k \in 1 .. Len(now)
  <2>1. CASE k \in 1 .. Len(bs)
    BY <1>11, <1>12, <2>1
  <2>2. CASE k = Len(bs) + 1
    BY <1>9, <1>11, <2>2
  <2> QED BY <1>11, <2>1, <2>2
<1>14. \A k, l \in 1 .. Len(now) : k < l => Behind(now[k], now[l])
  <2> TAKE k, l \in 1 .. Len(now)
  <2> HAVE k < l
  <2>1. k \in 1 .. Len(bs)
    BY <1>11
  <2>2. CASE l \in 1 .. Len(bs)
    BY <1>10, <1>11, <2>1, <2>2 DEF Parsed
  <2>3. CASE l = Len(bs) + 1
    <3>1. now[k] = bs[k] /\ now[l] = b /\ bs[k].last \in Nat /\ bs[k].last <= buffer.line - 1
      BY <1>11, <1>12, <2>1, <2>3
    <3> QED BY SMTT(60), <1>2, <1>6, <3>1 DEF Behind
  <2> QED BY <1>11, <2>2, <2>3
<1>15. \A m \in 1 .. Len(g) : IsBlank(g[m]) \/ \E k \in 1 .. Len(now) : Within(now[k], m)
  <2> TAKE m \in 1 .. Len(g)
  <2>1. CASE m \in 1 .. buffer.line - 1
    <3>1. g[m] = file[m]
      BY <1>2, <1>5, <2>1
    <3>2. IsBlank(file[m]) \/ \E k \in 1 .. Len(bs) : Within(bs[k], m)
      BY <1>10, <2>1 DEF Parsed
    <3> QED BY <1>11, <3>1, <3>2
  <2>2. CASE m \notin 1 .. buffer.line - 1
    <3>1. Within(b, m)
      BY SMTT(60), <1>1, <1>2, <1>4, <1>6, <2>2 DEF Within
    <3>2. Len(bs) + 1 \in 1 .. Len(now) /\ now[Len(bs) + 1] = b
      BY <1>11
    <3> QED BY <3>1, <3>2
  <2> QED BY <2>1, <2>2
<1>16. BlocksOf(g) # {}
  BY <1>5, <1>11, <1>13, <1>14, <1>15, BlocksInOrder
<1> QED BY <1>1, <1>3, <1>16 DEF Viable, g, Answered, AnswerLine

\* No block of a catalog that begins with the file goes over the end of line n.
Bounded(n) ==
  \A g : Extends(g, file) => \A blocks \in BlocksOf(g) : \A b \in blocks :
    b.last <= n \/ b.first > n

RejectInv ==
  /\ at = "question" => Bounded(Len(file))
  /\ at \in {"answer", "push"} => Bounded(buffer.line - 1)
  /\ at = "done" /\ res.status \in LineErrors /\ tail = "none" => ~Viable(file)

\* The blocks of a catalog, as numbers.
LEMMA CatalogBlocks ==
  ASSUME NEW g \in Seq(Line), NEW blocks \in BlocksOf(g)
  PROVE  /\ \A b \in blocks :
              /\ b \in Block /\ BlockIn(g, b)
              /\ b.first \in Nat \ {0} /\ b.last \in Nat /\ AnswersFrom(b) \in Nat
              /\ b.last = AnswersFrom(b) + (NUM_ANSWERS - 1)
              /\ b.first < AnswersFrom(b) /\ AnswersFrom(b) <= b.last /\ b.last <= Len(g)
         /\ \A b, c \in blocks : Apart(b, c)
         /\ \A n \in 1 .. Len(g) : IsBlank(g[n]) \/ \E b \in blocks : n \in b.first .. b.last
<1>1. ASSUME NEW b \in blocks
      PROVE  /\ b \in Block /\ BlockIn(g, b)
             /\ b.first \in Nat \ {0} /\ b.last \in Nat /\ AnswersFrom(b) \in Nat
             /\ b.last = AnswersFrom(b) + (NUM_ANSWERS - 1)
             /\ b.first < AnswersFrom(b) /\ AnswersFrom(b) <= b.last /\ b.last <= Len(g)
  <2>1. b \in Block /\ BlockIn(g, b)
    BY DEF BlocksOf
  <2>2. b.first \in Nat \ {0} /\ b.last \in Nat /\ NUM_ANSWERS \in Nat \ {0}
    BY <2>1, CatalogAssumption DEF Block
  <2>3. b.first < AnswersFrom(b) /\ b.last <= Len(g)
    BY <2>1 DEF BlockIn
  <2> QED BY <2>1, <2>2, <2>3 DEF AnswersFrom
<1>2. DOMAIN g = 1 .. Len(g) /\ Catalog(g, blocks)
  BY DEF BlocksOf
<1> QED BY <1>1, <1>2 DEF Catalog

\* A line of a block is its question, a timeout before the answers, or an answer.
LEMMA LineOfBlock ==
  ASSUME NEW g \in Seq(Line), NEW blocks \in BlocksOf(g), NEW b \in blocks,
         NEW n \in b.first .. b.last
  PROVE  /\ n = b.first => IsQuestion(g[n])
         /\ n > b.first /\ n < AnswersFrom(b) => IsTimeout(g[n])
         /\ n >= AnswersFrom(b) => IsAnswer(g[n])
         /\ n > b.first => IsTimeout(g[n]) \/ IsAnswer(g[n])
<1>1. /\ BlockIn(g, b) /\ b.first \in Nat \ {0} /\ b.last \in Nat /\ AnswersFrom(b) \in Nat
      /\ b.first < AnswersFrom(b) /\ n \in Nat /\ b.first <= n /\ n <= b.last
  BY CatalogBlocks
<1>2. n = b.first => IsQuestion(g[n])
  BY <1>1 DEF BlockIn
<1>3. ASSUME n > b.first, n < AnswersFrom(b)
      PROVE  IsTimeout(g[n])
  <2>1. n \in b.first + 1 .. AnswersFrom(b) - 1
    BY <1>1, <1>3
  <2> QED BY <1>1, <2>1 DEF BlockIn
<1>4. ASSUME n >= AnswersFrom(b)
      PROVE  IsAnswer(g[n])
  <2>1. n \in AnswersFrom(b) .. b.last
    BY <1>1, <1>4
  <2> QED BY <1>1, <2>1 DEF BlockIn
<1> QED BY <1>1, <1>2, <1>3, <1>4

\* The question being read begins a block of every catalog, and its answers are that
\* block's answers.
LEMMA BlockUnderWay ==
  ASSUME TypeInv, InQuestion, Bounded(buffer.line - 1),
         NEW g, Extends(g, file), NEW blocks \in BlocksOf(g)
  PROVE  \E b \in blocks :
           /\ b.first = buffer.line /\ AnswersFrom(b) >= Before + 1
           /\ currentAnswer > 0 => AnswersFrom(b) = Before + 1
<1>1. /\ buffer.line \in Nat \ {0} /\ Len(file) \in Nat /\ Before \in Nat
      /\ Before = Len(file) - currentAnswer /\ currentAnswer \in Nat
      /\ buffer.line <= Before /\ Before <= Len(file)
      /\ g \in Seq(Line) /\ Len(g) \in Nat /\ Len(file) <= Len(g)
      /\ \A n \in 1 .. Len(file) : g[n] = file[n]
  BY InQuestionTyped DEF Extends
<1>2. buffer.line \in 1 .. Len(g) /\ buffer.line \in 1 .. Len(file)
  BY <1>1
<1>3. ~IsBlank(g[buffer.line])
  BY <1>1, <1>2 DEF InQuestion, IsBlank, IsQuestion
<1>4. PICK b \in blocks : buffer.line \in b.first .. b.last
  BY <1>1, <1>2, <1>3, CatalogBlocks
<1>5. /\ b.first \in Nat \ {0} /\ b.last \in Nat /\ AnswersFrom(b) \in Nat
      /\ b.first < AnswersFrom(b) /\ AnswersFrom(b) <= b.last
  BY <1>1, CatalogBlocks
<1>6. b.first = buffer.line
  <2>1. b.last <= buffer.line - 1 \/ b.first > buffer.line - 1
    BY DEF Bounded
  <2> QED BY <1>1, <1>4, <1>5, <2>1
<1>7. AnswersFrom(b) >= Before + 1
  <2> SUFFICES ASSUME AnswersFrom(b) <= Before PROVE FALSE
    BY <1>1, <1>5
  <2> DEFINE n == AnswersFrom(b)
  <2>1. n \in buffer.line + 1 .. Before /\ n \in 1 .. Len(file) /\ n \in b.first .. b.last
    BY <1>1, <1>5, <1>6
  <2>2. IsTimeout(g[n])
    BY <1>1, <2>1 DEF InQuestion
  <2>3. IsAnswer(g[n])
    BY <1>1, <1>5, <2>1, LineOfBlock
  <2> QED BY <2>2, <2>3 DEF IsTimeout, IsAnswer
<1>8. ASSUME currentAnswer > 0, AnswersFrom(b) > Before + 1
      PROVE  FALSE
  <2> DEFINE n == Before + 1
  <2>1. n \in Before + 1 .. Len(file) /\ n \in 1 .. Len(file) /\ n \in b.first .. b.last
        /\ n > b.first /\ n < AnswersFrom(b)
    BY <1>1, <1>5, <1>6, <1>8
  <2> HIDE DEF n
  <2>2. IsAnswer(g[n])
    BY <1>1, <2>1 DEF InQuestion
  <2>3. IsTimeout(g[n])
    BY <1>1, <2>1, LineOfBlock
  <2> QED BY <2>2, <2>3 DEF IsTimeout, IsAnswer
<1> QED BY <1>1, <1>5, <1>6, <1>7, <1>8

\* A continuation of the file with one more line continues the file too.
LEMMA ExtendsShorter ==
  ASSUME NEW f \in Seq(Line), NEW line \in Line, NEW g, Extends(g, Append(f, line))
  PROVE  /\ Extends(g, f) /\ g \in Seq(Line) /\ Len(f) + 1 \in 1 .. Len(g)
         /\ g[Len(f) + 1] = line
<1>1. /\ Len(f) \in Nat /\ Len(Append(f, line)) = Len(f) + 1
      /\ \A n \in 1 .. Len(f) : Append(f, line)[n] = f[n]
      /\ Append(f, line)[Len(f) + 1] = line
  OBVIOUS
<1>2. /\ g \in Seq(Line) /\ Len(g) \in Nat /\ Len(f) + 1 <= Len(g)
      /\ \A n \in 1 .. Len(f) + 1 : g[n] = Append(f, line)[n]
  BY <1>1 DEF Extends
<1> QED BY <1>1, <1>2 DEF Extends

\* What holds for every continuation of the file holds for those of the longer one.
LEMMA BoundedStays ==
  ASSUME file \in Seq(Line), NEW line \in Line, file' = Append(file, line), NEW n, Bounded(n)
  PROVE  Bounded(n)'
BY ExtendsShorter DEF Bounded

\* A blank line belongs to no block.
LEMMA BlankBounded ==
  ASSUME file \in Seq(Line), NEW line \in Line, file' = Append(file, line), IsBlank(line),
         Bounded(Len(file))
  PROVE  Bounded(Len(file))'
<1> SUFFICES ASSUME NEW g, Extends(g, file'), NEW blocks \in BlocksOf(g), NEW b \in blocks
             PROVE  b.last <= Len(file) + 1 \/ b.first > Len(file) + 1
  <2>1. Len(file') = Len(file) + 1
    OBVIOUS
  <2> QED BY <2>1 DEF Bounded
<1>1. /\ Extends(g, file) /\ g \in Seq(Line) /\ Len(file) + 1 \in 1 .. Len(g)
      /\ g[Len(file) + 1] = line /\ Len(file) \in Nat
  BY ExtendsShorter
<1>2. b.last <= Len(file) \/ b.first > Len(file)
  BY <1>1 DEF Bounded
<1>3. b.first \in Nat /\ b.last \in Nat /\ b.first < AnswersFrom(b) /\ AnswersFrom(b) <= b.last
      /\ AnswersFrom(b) \in Nat
  BY <1>1, CatalogBlocks
<1>4. b.first # Len(file) + 1
  <2> SUFFICES ASSUME b.first = Len(file) + 1 PROVE FALSE
    OBVIOUS
  <2>1. b.first \in b.first .. b.last
    BY <1>3
  <2>2. IsQuestion(line)
    BY <1>1, <2>1, LineOfBlock
  <2> QED BY <2>2 DEF IsQuestion, IsBlank
<1> QED BY <1>1, <1>2, <1>3, <1>4

\* After the last answer of a question no block goes on.
LEMMA PushBounded ==
  ASSUME TypeInv, InQuestion, currentAnswer = NUM_ANSWERS, Bounded(buffer.line - 1),
         file' = file
  PROVE  Bounded(Len(file))'
<1> SUFFICES ASSUME NEW g, Extends(g, file), NEW blocks \in BlocksOf(g), NEW c \in blocks
             PROVE  c.last <= Len(file) \/ c.first > Len(file)
  BY DEF Bounded
<1>1. PICK b \in blocks :
        /\ b.first = buffer.line /\ AnswersFrom(b) >= Before + 1
        /\ currentAnswer > 0 => AnswersFrom(b) = Before + 1
  BY BlockUnderWay
<1>2. NUM_ANSWERS \in Nat \ {0} /\ Before = Len(file) - NUM_ANSWERS /\ Before \in Nat
      /\ Len(file) \in Nat /\ g \in Seq(Line) /\ buffer.line \in Nat \ {0}
  BY InQuestionTyped, CatalogAssumption DEF Extends
<1>3. b.last = Len(file)
  <2>1. AnswersFrom(b) = Before + 1 /\ b.last = AnswersFrom(b) + (NUM_ANSWERS - 1)
    BY <1>1, <1>2, CatalogBlocks
  <2> QED BY <1>2, <2>1
<1>4. c.last \in Nat /\ c.first \in Nat /\ Apart(b, c)
  BY <1>2, CatalogBlocks
<1>5. c = b \/ c.first > Len(file) \/ c.last < buffer.line
  BY <1>1, <1>3, <1>4 DEF Apart
<1>6. c.last <= c.last
  BY <1>4
<1>7. buffer.line <= Len(file)
  BY InQuestionTyped
<1> QED BY <1>2, <1>3, <1>4, <1>5, <1>7

\* A file is beyond repair when none of its continuations is a catalog.
LEMMA NotViable ==
  ASSUME NEW f \in Seq(Line), \A g : Extends(g, f) => BlocksOf(g) = {}
  PROVE  ~Viable(f)
<1> SUFFICES ASSUME NEW n \in 0 .. NUM_ANSWERS, NEW kinds \in [1 .. n -> {"wrong", "right"}],
                    BlocksOf(Answered(f, n, kinds)) # {}
             PROVE  FALSE
  BY DEF Viable, Answered, AnswerLine
<1>1. n \in Nat
  BY CatalogAssumption
<1> QED BY <1>1, AnsweredExtends

\* Between two questions a line that is neither blank nor a question has no place.
LEMMA QuestionRefused ==
  ASSUME file \in Seq(Line), Bounded(Len(file)), NEW line \in Line,
         file' = Append(file, line), ~IsBlank(line), ~IsQuestion(line)
  PROVE  ~Viable(file')
<1>1. ASSUME NEW g, Extends(g, file'), NEW blocks \in BlocksOf(g)
      PROVE  FALSE
  <2>1. /\ Extends(g, file) /\ g \in Seq(Line) /\ Len(file) + 1 \in 1 .. Len(g)
        /\ g[Len(file) + 1] = line /\ Len(file) \in Nat
    BY <1>1, ExtendsShorter
  <2>2. PICK b \in blocks : Len(file) + 1 \in b.first .. b.last
    BY <2>1, CatalogBlocks
  <2>3. b.first \in Nat /\ b.last \in Nat
    BY <2>1, CatalogBlocks
  <2>4. b.first = Len(file) + 1
    <3>1. b.last <= Len(file) \/ b.first > Len(file)
      BY <2>1 DEF Bounded
    <3> QED BY <2>1, <2>2, <2>3, <3>1
  <2>5. IsQuestion(line)
    BY <2>1, <2>2, <2>4, LineOfBlock
  <2> QED BY <2>5
<1>2. file' \in Seq(Line)
  OBVIOUS
<1> QED BY <1>1, <1>2, NotViable

\* In a question the next line belongs to its block, in front of the answers or as one.
LEMMA NextOfBlock ==
  ASSUME TypeInv, InQuestion, Bounded(buffer.line - 1), currentAnswer < NUM_ANSWERS,
         NEW line \in Line, NEW g, Extends(g, Append(file, line)), NEW blocks \in BlocksOf(g)
  PROVE  /\ IsAnswer(line) \/ (IsTimeout(line) /\ currentAnswer = 0)
         /\ \E b \in blocks :
              /\ IsAnswer(line) => AnswersFrom(b) = Before + 1
              /\ b.last = AnswersFrom(b) + (NUM_ANSWERS - 1) /\ BlockIn(g, b)
<1>1. /\ buffer.line \in Nat \ {0} /\ Len(file) \in Nat /\ Before \in Nat
      /\ Before = Len(file) - currentAnswer /\ currentAnswer \in Nat
      /\ buffer.line <= Before /\ Before <= Len(file) /\ NUM_ANSWERS \in Nat \ {0}
      /\ file \in Seq(Line)
  BY InQuestionTyped, CatalogAssumption DEF TypeInv, TypeOK, FileTypeOK
<1>2. /\ Extends(g, file) /\ g \in Seq(Line) /\ Len(file) + 1 \in 1 .. Len(g)
      /\ g[Len(file) + 1] = line
  BY <1>1, ExtendsShorter
<1>3. PICK b \in blocks :
        /\ b.first = buffer.line /\ AnswersFrom(b) >= Before + 1
        /\ currentAnswer > 0 => AnswersFrom(b) = Before + 1
  BY <1>2, BlockUnderWay
<1>4. /\ BlockIn(g, b) /\ b.first \in Nat /\ b.last \in Nat /\ AnswersFrom(b) \in Nat
      /\ b.last = AnswersFrom(b) + (NUM_ANSWERS - 1) /\ b.first < AnswersFrom(b)
  BY <1>2, CatalogBlocks
<1> DEFINE n == Len(file) + 1
<1>5. n \in b.first .. b.last /\ n > b.first /\ (currentAnswer > 0 => n >= AnswersFrom(b))
  BY <1>1, <1>3, <1>4
<1>6. /\ IsTimeout(line) \/ IsAnswer(line)
      /\ n < AnswersFrom(b) => IsTimeout(line)
      /\ n >= AnswersFrom(b) => IsAnswer(line)
  BY <1>2, <1>5, LineOfBlock
<1>7. IsAnswer(line) => n >= AnswersFrom(b)
  BY <1>1, <1>4, <1>5, <1>6 DEF IsAnswer, IsTimeout
<1>8. IsAnswer(line) => AnswersFrom(b) = Before + 1
  BY <1>1, <1>3, <1>4, <1>7
<1> QED BY <1>1, <1>4, <1>5, <1>6, <1>8

\* So a line that is no answer, and no timeout before the answers, has no place,
LEMMA AnswerRefused ==
  ASSUME TypeInv, InQuestion, Bounded(buffer.line - 1), currentAnswer < NUM_ANSWERS,
         NEW line \in Line, file' = Append(file, line),
         ~IsAnswer(line), ~IsTimeout(line) \/ currentAnswer # 0
  PROVE  ~Viable(file')
<1>1. file' \in Seq(Line)
  BY DEF TypeInv, TypeOK, FileTypeOK
<1>2. \A g : Extends(g, file') => BlocksOf(g) = {}
  BY NextOfBlock
<1> QED BY <1>1, <1>2, NotViable

\* nor has a second right answer,
LEMMA SecondRightRefused ==
  ASSUME TypeInv, InQuestion, Bounded(buffer.line - 1), currentAnswer < NUM_ANSWERS,
         NEW line \in Line, file' = Append(file, line),
         IsAnswer(line), line.kind = "right", buffer.correct # -1
  PROVE  ~Viable(file')
<1>1. file \in Seq(Line) /\ file' \in Seq(Line)
  BY DEF TypeInv, TypeOK, FileTypeOK
<1>2. /\ Len(file) \in Nat /\ Before \in Nat /\ Before = Len(file) - currentAnswer
      /\ currentAnswer \in Nat /\ NUM_ANSWERS \in Nat \ {0}
  BY InQuestionTyped, CatalogAssumption
<1>3. ASSUME NEW g, Extends(g, file'), NEW blocks \in BlocksOf(g)
      PROVE  FALSE
  <2>1. PICK b \in blocks :
          /\ AnswersFrom(b) = Before + 1
          /\ b.last = AnswersFrom(b) + (NUM_ANSWERS - 1) /\ BlockIn(g, b)
    BY <1>3, NextOfBlock
  <2>2. /\ g[Len(file) + 1] = line /\ Extends(g, file)
    BY <1>1, <1>3, ExtendsShorter
  <2>3. Len(file) + 1 \in Rights(g, b)
    BY <1>2, <2>1, <2>2 DEF Rights
  <2>4. PICK r : r \in RightLines
    BY DEF InQuestion
  <2>5. r \in Before + 1 .. Len(file) /\ file[r].kind = "right" /\ r \in 1 .. Len(file)
    BY <1>2, <2>4 DEF RightLines
  <2>6. r \in Rights(g, b) /\ r # Len(file) + 1
    BY <1>2, <2>1, <2>2, <2>5 DEF Rights, Extends
  <2>7. IsFiniteSet(Rights(g, b))
    <3>1. IsFiniteSet(AnswersFrom(b) .. b.last)
      BY <1>2, <2>1, FS_Interval
    <3>2. Rights(g, b) \in SUBSET (AnswersFrom(b) .. b.last)
      BY DEF Rights
    <3> QED BY <3>1, <3>2, FS_Subset
  <2>8. PICK x : Rights(g, b) = {x}
    BY <2>1, <2>7, FS_Singleton DEF BlockIn
  <2> QED BY <2>3, <2>6, <2>8
<1> QED BY <1>1, <1>3, NotViable

\* nor a last answer when none was right.
LEMMA NoRightRefused ==
  ASSUME TypeInv, InQuestion, Bounded(buffer.line - 1), currentAnswer < NUM_ANSWERS,
         NEW line \in Line, file' = Append(file, line),
         IsAnswer(line), line.kind = "wrong", buffer.correct = -1,
         ~(currentAnswer + 1 < NUM_ANSWERS)
  PROVE  ~Viable(file')
<1>1. file \in Seq(Line) /\ file' \in Seq(Line)
  BY DEF TypeInv, TypeOK, FileTypeOK
<1>2. /\ Len(file) \in Nat /\ Before \in Nat /\ Before = Len(file) - currentAnswer
      /\ currentAnswer \in Nat /\ NUM_ANSWERS \in Nat \ {0}
      /\ currentAnswer = NUM_ANSWERS - 1
  BY InQuestionTyped, CatalogAssumption
<1>3. ASSUME NEW g, Extends(g, file'), NEW blocks \in BlocksOf(g)
      PROVE  FALSE
  <2>1. PICK b \in blocks :
          /\ AnswersFrom(b) = Before + 1
          /\ b.last = AnswersFrom(b) + (NUM_ANSWERS - 1) /\ BlockIn(g, b)
    BY <1>3, NextOfBlock
  <2>2. g[Len(file) + 1] = line /\ Extends(g, file)
    BY <1>1, <1>3, ExtendsShorter
  <2>3. b.last = Len(file) + 1
    BY <1>2, <2>1
  <2>4. RightLines = {}
    BY DEF InQuestion
  <2>5. \A n \in AnswersFrom(b) .. b.last : g[n].kind # "right"
    <3> TAKE n \in AnswersFrom(b) .. b.last
    <3>1. CASE n = Len(file) + 1
      BY <2>2, <3>1
    <3>2. CASE n # Len(file) + 1
      <4>1. n \in Before + 1 .. Len(file) /\ n \in 1 .. Len(file)
        BY <1>2, <2>1, <2>3, <3>2
      <4>2. g[n] = file[n]
        BY <2>2, <4>1 DEF Extends
      <4> QED BY <2>4, <4>1, <4>2 DEF RightLines
    <3> QED BY <3>1, <3>2
  <2>6. Rights(g, b) = {}
    BY <2>5 DEF Rights
  <2> QED BY <2>1, <2>6, FS_EmptySet DEF BlockIn
<1> QED BY <1>1, <1>3, NotViable

\* The lines the parser refuses are those.
LEMMA ReadLineRejects ==
  ASSUME TypeInv, AcceptInv, RejectInv, NEW line \in Lines, ReadLine(line)
  PROVE  RejectInv'
<1>1. /\ at \in {"question", "answer"} /\ line \in Line /\ file \in Seq(Line)
      /\ file' = Append(file, line)
  BY OneMoreLine
  DEF ReadLine, SkipBlank, ReadQuestion, ReadWrong, ReadRight, ReadTimeout, ReadNoAnswer, Gets
<1>2. ASSUME at = "answer"
      PROVE  /\ InQuestion /\ Bounded(buffer.line - 1) /\ currentAnswer < NUM_ANSWERS
             /\ currentAnswer \in Nat /\ buffer \in Draft
  BY <1>2, InQuestionTyped DEF AcceptInv, RejectInv, TypeInv, TypeOK, Stage, QuestionTypeOK
<1>3. ASSUME NEW status, NEW n, Fails(status, n), ~Viable(file') PROVE RejectInv'
  BY <1>3 DEF RejectInv, Fails
<1>4. ASSUME at = "answer", at' \in {"answer", "push"}, buffer'.line = buffer.line
      PROVE  RejectInv'
  <2>1. Bounded(buffer.line - 1)'
    BY <1>1, <1>2, <1>4, BoundedStays DEF Bounded
  <2> QED BY <1>4, <2>1 DEF RejectInv
<1>5. CASE SkipBlank(line)
  <2>1. at' = at /\ at = "question" /\ IsBlank(line)
    BY <1>5 DEF SkipBlank, Gets, IsBlank
  <2>2. Bounded(Len(file))'
    BY <1>1, <2>1, BlankBounded DEF RejectInv
  <2> QED BY <2>1, <2>2 DEF RejectInv
<1>6. CASE ReadQuestion(line)
  <2>1. at = "question" /\ Bounded(Len(file))
    BY <1>6 DEF ReadQuestion, Gets, RejectInv
  <2>2. CASE line.fits = "nothing"
    <3>1. ~Viable(file')
      BY <1>1, <2>1, <2>2, QuestionRefused DEF IsBlank, IsQuestion
    <3> QED BY <1>3, <1>6, <2>2, <3>1 DEF ReadQuestion
  <2>3. CASE line.fits # "nothing"
    <3>1. at' = "answer" /\ buffer'.line = Len(file) + 1 /\ Len(file) \in Nat
      BY <1>1, <1>6, <2>3 DEF ReadQuestion
    <3>2. PICK n : n = Len(file)
      OBVIOUS
    <3>3. Bounded(n)'
      BY <1>1, <2>1, <3>2, BoundedStays
    <3>4. buffer'.line - 1 = n
      BY <3>1, <3>2
    <3> QED BY <3>1, <3>3, <3>4 DEF RejectInv
  <2> QED BY <2>2, <2>3
<1>7. ASSUME at = "answer", IsAnswer(line), NEW correct, Takes(correct),
             \/ line.kind = "wrong" /\ correct = buffer.correct
             \/ line.kind = "right" /\ correct = currentAnswer
      PROVE  RejectInv'
  <2>1. CASE Fails("CORRECT_MISSING", NextLine)
    <3>1. correct = -1 /\ ~(currentAnswer + 1 < NUM_ANSWERS)
      BY <1>1, <1>7, <2>1 DEF Takes, Fails
    <3>2. line.kind = "wrong" /\ buffer.correct = -1
      BY <1>2, <1>7, <3>1
    <3> QED BY <1>1, <1>2, <1>3, <1>7, <2>1, <3>1, <3>2, NoRightRefused
  <2>2. CASE ~Fails("CORRECT_MISSING", NextLine)
    <3>1. at' \in {"answer", "push"} /\ buffer' = [buffer EXCEPT !.correct = correct]
      BY <1>7, <2>2 DEF Takes
    <3>2. buffer'.line = buffer.line
      BY <1>2, <1>7, <3>1 DEF Draft
    <3> QED BY <1>4, <1>7, <3>1, <3>2
  <2> QED BY <2>1, <2>2
<1>8. CASE ReadWrong(line)
  BY <1>7, <1>8 DEF ReadWrong, Gets, IsAnswer
<1>9. CASE ReadRight(line)
  <2>1. at = "answer" /\ IsAnswer(line) /\ line.kind = "right"
    BY <1>9 DEF ReadRight, Gets, IsAnswer
  <2>2. CASE buffer.correct # -1
    <3>1. ~Viable(file')
      BY <1>1, <1>2, <2>1, <2>2, SecondRightRefused
    <3> QED BY <1>3, <1>9, <2>2, <3>1 DEF ReadRight
  <2>3. CASE buffer.correct = -1
    BY <1>7, <1>9, <2>1, <2>3 DEF ReadRight
  <2> QED BY <2>2, <2>3
<1>10. CASE ReadTimeout(line)
  <2>1. at = "answer" /\ line.kind = "timeout"
    BY <1>10 DEF ReadTimeout, Gets
  <2>2. CASE line.value \notin 1 .. MaxTimeout
    <3>1. ~Viable(file')
      BY <1>1, <1>2, <2>1, <2>2, AnswerRefused DEF IsAnswer, IsTimeout
    <3> QED BY <1>3, <1>10, <2>2, <3>1 DEF ReadTimeout
  <2>3. CASE line.value \in 1 .. MaxTimeout
    <3>1. at' = "answer" /\ buffer' = [buffer EXCEPT !.timeout = line.value]
      BY <1>10, <2>1, <2>3 DEF ReadTimeout
    <3>2. buffer'.line = buffer.line
      BY <1>2, <2>1, <3>1 DEF Draft
    <3> QED BY <1>4, <2>1, <3>1, <3>2
  <2> QED BY <2>2, <2>3
<1>11. CASE ReadNoAnswer(line)
  <2>1. at = "answer" /\ ~IsAnswer(line) /\ (~IsTimeout(line) \/ currentAnswer # 0)
    BY <1>11 DEF ReadNoAnswer, Gets, IsAnswer, IsTimeout
  <2>2. ~Viable(file')
    BY <1>1, <1>2, <2>1, AnswerRefused
  <2> QED BY <1>3, <1>11, <2>2 DEF ReadNoAnswer
<1> QED BY <1>5, <1>6, <1>8, <1>9, <1>10, <1>11 DEF ReadLine

LEMMA RejectStep ==
  ASSUME TypeInv, AcceptInv, RejectInv, [Next]_vars
  PROVE  RejectInv'
<1>1. ASSUME NEW status, status \notin LineErrors, NEW n, Fails(status, n) PROVE RejectInv'
  BY <1>1 DEF RejectInv, Fails
<1>2. \A status \in {"CANNOT_OPEN", "CANNOT_READ", "OOM", "UNEXPECTED_EOF", "OK", "EMPTY"} :
        status \notin LineErrors
  BY DEF LineErrors
<1>3. CASE Open
  <2>1. CASE Fails("CANNOT_OPEN", 0)
    BY <1>1, <1>2, <2>1
  <2>2. CASE ~Fails("CANNOT_OPEN", 0)
    <3>1. at' = "question" /\ file' = <<>>
      BY <1>3, <2>2 DEF Open, AcceptInv
    <3>2. ASSUME NEW g, Extends(g, file'), NEW blocks \in BlocksOf(g), NEW b \in blocks
          PROVE  b.first > 0
      <4>1. b.first \in Nat \ {0}
        BY <3>2, CatalogBlocks DEF Extends
      <4> QED BY <4>1
    <3>3. Len(file') = 0
      BY <3>1
    <3>4. Bounded(Len(file))'
      BY <3>2, <3>3 DEF Bounded
    <3> QED BY <3>1, <3>4 DEF RejectInv
  <2> QED BY <2>1, <2>2
<1>4. CASE Push
  <2>1. CASE Fails("OOM", res.lineNumber)
    BY <1>1, <1>2, <2>1
  <2>2. CASE ~Fails("OOM", res.lineNumber)
    <3>1. at' = "question" /\ file' = file /\ at = "push"
      BY <1>4, <2>2 DEF Push
    <3>2. Bounded(Len(file))'
      BY <3>1, PushBounded DEF AcceptInv, RejectInv
    <3> QED BY <3>1, <3>2 DEF RejectInv
  <2> QED BY <2>1, <2>2
<1>5. CASE \E line \in Lines : ReadLine(line)
  BY <1>5, ReadLineRejects
<1>6. CASE EndAtQuestion
  <2>1. at' = "done" /\ res'.status \in {"OK", "EMPTY"}
    BY <1>6 DEF EndAtQuestion, Succeeds, TypeInv, TypeOK, ParserResult
  <2> QED BY <1>2, <2>1 DEF RejectInv
<1>7. CASE EndAtAnswer
  <2>1. CASE tail' = "none" /\ Fails("UNEXPECTED_EOF", NextLine)
    BY <1>1, <1>2, <2>1
  <2>2. CASE tail' \in {"blank", "text"} /\ Fails("LINE_TOO_LONG", NextLine)
    BY <2>2 DEF RejectInv, Fails
  <2> QED BY <1>7, <2>1, <2>2 DEF EndAtAnswer
<1>8. CASE ReadError
  BY <1>1, <1>2, <1>8 DEF ReadError
<1>9. CASE UNCHANGED vars
  BY <1>9 DEF vars, RejectInv, Bounded, Viable
<1> QED BY <1>3, <1>4, <1>5, <1>6, <1>7, <1>8, <1>9 DEF Next, Returned

LEMMA RejectInit == Init => RejectInv
BY DEF Init, RejectInv

\* Whatever the file and the number of answers, the parser refuses a file at the first
\* line at which no continuation is a catalog any more, and at no earlier line: its
\* checks are neither too strict nor too late (parser.c:195-270).
THEOREM RejectsAtFirstFault == Spec => []RejectsFirstFault
<1>1. TypeInv /\ AcceptInv /\ RejectInv => RejectsFirstFault
  <2> SUFFICES ASSUME TypeInv, AcceptInv, RejectInv PROVE RejectsFirstFault
    OBVIOUS
  <2>1. at = "question" => Viable(file)
    BY ViableBetween DEF AcceptInv
  <2>2. ASSUME at \in {"answer", "push"} PROVE Viable(file)
    <3>1. InQuestion /\ Len(file) <= MaxLines /\ currentAnswer <= NUM_ANSWERS
      BY <2>2, CatalogAssumption DEF AcceptInv, TypeInv, TypeOK, QuestionTypeOK
    <3>2. currentAnswer = NUM_ANSWERS => buffer.correct # -1
      BY <2>2, CatalogAssumption DEF TypeInv, Stage
    <3> QED BY <3>1, <3>2, ViableInQuestion
  <2> QED BY <2>1, <2>2 DEF RejectsFirstFault, RejectInv
<1>2. TypeInv /\ AcceptInv /\ RejectInv /\ [Next]_vars => TypeInv' /\ AcceptInv' /\ RejectInv'
  BY TypeStep, AcceptStep, RejectStep
<1>3. Spec => [](TypeInv /\ AcceptInv /\ RejectInv)
  BY <1>2, TypeInit, AcceptInit, RejectInit, PTL DEF Spec
<1> QED BY <1>1, <1>3, PTL

-----------------------------------------------------------------------------
(* The loader's view of the parser.  While it reads, the questions pushed   *)
(* are the stack, and each of them began on a line of its own.              *)

Reading == {"question", "answer", "push"}

LoadInv ==
  /\ at = "open" => stack = <<>> /\ file = <<>>
  /\ at # "done" => pushed = stack
  /\ at \in Reading => Len(stack) <= Len(file) /\ Len(file) <= MaxLines
  /\ at \in {"answer", "push"} => Len(stack) < Len(file)

\* What a step of the parser that ends nothing and pushes nothing leaves.
LEMMA ReadLineLoads ==
  ASSUME TypeInv, LoadInv, NEW line \in Lines, ReadLine(line)
  PROVE  /\ LoadInv' /\ at \in {"question", "answer"}
         /\ \/ at' \in Reading /\ UNCHANGED <<stack, pushed>>
            \/ \E status \in LineErrors : \E n : Fails(status, n)
<1>1. /\ Len(file') = Len(file) + 1 /\ Len(file') <= MaxLines
      /\ at \in {"question", "answer"} /\ Len(file) \in Nat /\ Len(stack) \in Nat
  BY CatalogAssumption
  DEF TypeInv, TypeOK, FileTypeOK, StackTypeOK, ReadLine, SkipBlank, ReadQuestion, ReadWrong,
      ReadRight, ReadTimeout, ReadNoAnswer, Gets
<1>2. ASSUME NEW status \in LineErrors, NEW n, Fails(status, n)
      PROVE  LoadInv'
  BY <1>2 DEF Fails, LoadInv, Reading
<1>3. ASSUME NEW correct, at = "answer", Takes(correct)
      PROVE  \/ at' \in {"answer", "push"} /\ UNCHANGED <<stack, pushed>>
             \/ \E status \in LineErrors : \E n : Fails(status, n)
  BY <1>3, LineErrorsNamed DEF Takes
<1>4. \/ /\ UNCHANGED <<stack, pushed>>
         /\ at' \in {"answer", "push"} \/ (at' = "question" /\ at = "question")
      \/ \E status \in LineErrors : \E n : Fails(status, n)
  <2>1. CASE SkipBlank(line)
    BY <2>1 DEF SkipBlank, Gets
  <2>2. CASE ReadQuestion(line)
    BY <2>2, LineErrorsNamed DEF ReadQuestion
  <2>3. CASE ReadWrong(line)
    BY <1>3, <2>3 DEF ReadWrong, Gets
  <2>4. CASE ReadRight(line)
    BY <1>3, <2>4, LineErrorsNamed DEF ReadRight, Gets
  <2>5. CASE ReadTimeout(line)
    BY <2>5, LineErrorsNamed DEF ReadTimeout, Gets
  <2>6. CASE ReadNoAnswer(line)
    BY <2>6, LineErrorsNamed DEF ReadNoAnswer
  <2> QED BY <2>1, <2>2, <2>3, <2>4, <2>5, <2>6 DEF ReadLine
<1> QED BY <1>1, <1>2, <1>4 DEF LoadInv, Reading

LEMMA LoadStep ==
  ASSUME TypeInv, LoadInv, [Next]_vars
  PROVE  LoadInv'
<1>0. /\ stack \in Seq(Question) /\ Len(stack) \in Nat /\ Len(file) \in Nat /\ MaxLines \in Nat
      /\ file \in Seq(Line)
  BY CatalogAssumption DEF TypeInv, TypeOK, StackTypeOK, FileTypeOK
<1>1. ASSUME NEW status, NEW n, Fails(status, n)
      PROVE  LoadInv'
  BY <1>1 DEF Fails, LoadInv, Reading
<1>2. CASE UNCHANGED vars
  BY <1>2 DEF vars, LoadInv
<1>3. CASE Open
  <2>1. CASE Fails("CANNOT_OPEN", 0)
    BY <1>1, <2>1
  <2>2. CASE ~Fails("CANNOT_OPEN", 0)
    <3>1. /\ at = "open" /\ at' = "question" /\ UNCHANGED <<stack, pushed, file>>
          /\ stack = <<>> /\ file = <<>>
      BY <1>3, <2>2 DEF Open, LoadInv
    <3> QED BY <1>0, <3>1 DEF LoadInv, Reading
  <2> QED BY <2>1, <2>2
<1>4. CASE Push
  <2>1. CASE Fails("OOM", res.lineNumber)
    BY <1>1, <2>1
  <2>2. CASE ~Fails("OOM", res.lineNumber)
    <3>1. /\ stack' = Append(stack, buffer) /\ pushed' = Append(pushed, buffer)
          /\ at = "push" /\ at' = "question" /\ file' = file
      BY <1>4, <2>2 DEF Push
    <3>2. Len(stack') = Len(stack) + 1
      BY <1>0, <3>1
    <3> QED BY <1>0, <3>1, <3>2 DEF LoadInv, Reading
  <2> QED BY <2>1, <2>2
<1>5. CASE \E line \in Lines : ReadLine(line)
  BY <1>5, ReadLineLoads
<1>6. CASE EndAtQuestion
  BY <1>6 DEF EndAtQuestion, Succeeds, LoadInv, Reading
<1>7. CASE EndAtAnswer
  BY <1>1, <1>7 DEF EndAtAnswer
<1>8. CASE ReadError
  BY <1>1, <1>8 DEF ReadError
<1> QED BY <1>2, <1>3, <1>4, <1>5, <1>6, <1>7, <1>8 DEF Next, Returned

LEMMA LoadInit == Init => LoadInv
BY DEF Init, LoadInv, Reading

\* A step within the file that pushes nothing is none of the loader's.
LEMMA ReadsOn ==
  ASSUME at \in Reading, at' \in Reading, UNCHANGED <<stack, pushed>>
  PROVE  UNCHANGED Load!vars
BY DEF Reading, Failed, Load!vars, Load!dirVars, Load!mixVars, Load!fillVars, Load!shmVars,
       Load!pipeVars, Load!envVars

\* An error within the file is one the loader knows.
LEMMA FailsForLoad ==
  ASSUME at \in Reading, NEW status \in LineErrors \cup {"CANNOT_READ", "OOM", "UNEXPECTED_EOF"},
         NEW n, Fails(status, n)
  PROVE  Load!ParseFails
<1>1. status \in Statuses \ {"OK"} /\ Failed' /\ res'.status = status
  BY LineErrorsNamed DEF Statuses, Fails, Failed
<1>2. LoadError[status] \in {"CANNOT_READ", "OOM", "INVALID"}
  BY <1>1, LineErrorsNamed DEF LoadError
<1>3. /\ at' = "done" /\ stack' = <<>> /\ ~Failed /\ UNCHANGED pushed
      /\ at \notin {"open", "done"} /\ at \in {"question", "answer", "push"}
  BY DEF Fails, Failed, Reading
<1>4. [k \in DOMAIN stack' |-> [question |-> k, correct |-> stack'[k].correct]] = <<>>
  BY <1>3
<1> QED
  BY <1>1, <1>2, <1>3, <1>4
  DEF Load!ParseFails, Load!Finish, Load!Err, Load!dirVars, Load!mixVars, Load!fillVars,
      Load!shmVars, Load!pipeVars, Load!envVars

\* A sequence told by its elements.
LEMMA FunctionIsSequence ==
  ASSUME NEW S, NEW n \in Nat, NEW f \in [1 .. n -> S]
  PROVE  f \in Seq(S) /\ Len(f) = n /\ DOMAIN f = 1 .. n
OBVIOUS

\* One more element than another sequence has.
LEMMA AppendedTo ==
  ASSUME NEW S, NEW s \in Seq(S), NEW e \in S, NEW t \in [1 .. Len(s) + 1 -> S],
         \A k \in 1 .. Len(s) : t[k] = s[k], t[Len(s) + 1] = e
  PROVE  t = Append(s, e)
<1>1. Len(s) \in Nat /\ t \in Seq(S) /\ Len(t) = Len(s) + 1
  BY FunctionIsSequence
<1>2. /\ Append(s, e) \in Seq(S) /\ Len(Append(s, e)) = Len(s) + 1
      /\ \A k \in 1 .. Len(s) : Append(s, e)[k] = s[k]
      /\ Append(s, e)[Len(s) + 1] = e
  BY AppendProperties
<1>3. \A k \in 1 .. Len(t) : t[k] = Append(s, e)[k]
  BY <1>1, <1>2
<1> QED BY <1>1, <1>2, <1>3, SeqEqual

\* The push of a question.
LEMMA PushForLoad ==
  ASSUME TypeInv, LoadInv, Push
  PROVE  Load!ParseQuestion \/ Load!ParseFails
<1>1. CASE Fails("OOM", res.lineNumber)
  BY <1>1, FailsForLoad DEF Push, Reading
<1>2. CASE ~Fails("OOM", res.lineNumber)
  <2>1. /\ stack' = Append(stack, buffer) /\ pushed' = Append(pushed, buffer)
        /\ at = "push" /\ at' = "question" /\ pushed = stack /\ pushed' = stack'
    BY <1>2 DEF Push, LoadInv
  <2>2. /\ stack \in Seq(Question) /\ buffer \in Draft /\ buffer.correct \in 0 .. NUM_ANSWERS - 1
        /\ Len(stack) \in Nat /\ Len(stack) < MaxLines
    BY <2>1, CatalogAssumption
    DEF LoadInv, Reading, TypeInv, TypeOK, Stage, StackTypeOK, QuestionTypeOK, FileTypeOK, Draft
  <2> DEFINE Items(s) == [k \in DOMAIN s |-> [question |-> k, correct |-> s[k].correct]]
             Item == [question |-> Len(stack) + 1, correct |-> buffer.correct]
  <2>3. /\ stack' \in Seq(Question) /\ DOMAIN stack' = 1 .. Len(stack) + 1
        /\ DOMAIN stack = 1 .. Len(stack) /\ stack'[Len(stack) + 1] = buffer
        /\ \A k \in 1 .. Len(stack) : stack'[k] = stack[k]
    <3>1. buffer \in Question
      BY <2>1, <2>2, DraftTyped DEF TypeInv, Stage
    <3> QED BY <2>1, <2>2, <3>1
  <2> DEFINE S == [question : Nat, correct : Int]
             n == Len(stack)
  <2>4. \A k \in 1 .. n + 1 : /\ stack'[k].correct \in Int
                              /\ k \in 1 .. n => stack[k].correct \in Int
    <3>1. \A question \in Question : question.correct \in Int
      BY CatalogAssumption DEF Question
    <3>2. \A k \in 1 .. n : stack[k] \in Question
      BY <2>2
    <3>3. Len(stack') = n + 1
      BY <2>1, <2>2
    <3>4. \A k \in 1 .. n + 1 : stack'[k] \in Question
      BY <2>3, <3>3
    <3> QED BY <3>1, <3>2, <3>4
  <2>5. Items(stack') = Append(Items(stack), Item)
    <3>1. Items(stack) \in [1 .. n -> S] /\ Items(stack') \in [1 .. n + 1 -> S] /\ Item \in S
      BY <2>2, <2>3, <2>4
    <3>2. /\ \A k \in 1 .. n : Items(stack')[k] = Items(stack)[k]
          /\ Items(stack')[n + 1] = Item
      BY <2>2, <2>3
    <3>3. Items(stack) \in Seq(S) /\ Len(Items(stack)) = n
      BY <2>2, <3>1, FunctionIsSequence
    <3> HIDE DEF Items, Item, S
    <3> QED BY <2>2, <3>1, <3>2, <3>3, AppendedTo
  <2>6. Len(Items(stack)) = n
    <3>1. Items(stack) \in [1 .. n -> S]
      BY <2>2, <2>3, <2>4
    <3> HIDE DEF Items, S
    <3> QED BY <2>2, <3>1, FunctionIsSequence
  <2>7. Corrects(stack') = Append(Corrects(stack), buffer.correct)
    <3>1. /\ Corrects(stack) \in [1 .. n -> Int] /\ Corrects(stack') \in [1 .. n + 1 -> Int]
          /\ buffer.correct \in Int
      BY <2>2, <2>3, <2>4 DEF Corrects
    <3>2. /\ \A k \in 1 .. n : Corrects(stack')[k] = Corrects(stack)[k]
          /\ Corrects(stack')[n + 1] = buffer.correct
      BY <2>2, <2>3 DEF Corrects
    <3>3. Corrects(stack) \in Seq(Int) /\ Len(Corrects(stack)) = n
      BY <2>2, <3>1, FunctionIsSequence
    <3> QED BY <2>2, <3>1, <3>2, <3>3, AppendedTo
  <2> QED
    BY <2>1, <2>2, <2>5, <2>6, <2>7
    DEF Load!ParseQuestion, Load!Answers, Failed, Load!dirVars, Load!mixVars, Load!fillVars,
        Load!shmVars, Load!pipeVars, Load!envVars
<1> QED BY <1>1, <1>2

\* The end of the file.
LEMMA EndForLoad ==
  ASSUME TypeInv, EndAtQuestion
  PROVE  Load!ParseEnd
<1>1. /\ at = "question" /\ at' = "done" /\ UNCHANGED <<stack, pushed>>
      /\ res' = IF stack # <<>> THEN [status |-> "OK", lineNumber |-> 0]
                                ELSE [res EXCEPT !.status = "EMPTY"]
  BY DEF EndAtQuestion, Succeeds
<1>2. stack \in Seq(Question) /\ res \in ParserResult
  BY DEF TypeInv, TypeOK, StackTypeOK
<1> DEFINE Items(s) == [k \in DOMAIN s |-> [question |-> k, correct |-> s[k].correct]]
<1>3. Len(Items(stack)) = Len(stack) /\ (Items(stack) = <<>>) = (stack = <<>>)
  BY <1>2
<1>4. CASE stack = <<>>
  <2>1. res'.status = "EMPTY" /\ Failed' /\ ~Failed /\ LoadError["EMPTY"] = "INVALID"
    BY <1>1, <1>2, <1>4 DEF ParserResult, Failed, LoadError, Statuses
  <2> QED
    BY <1>1, <1>3, <1>4, <2>1
    DEF Load!ParseEnd, Load!Finish, Load!Err, Load!dirVars, Load!mixVars, Load!fillVars,
        Load!shmVars, Load!pipeVars, Load!envVars
<1>5. CASE stack # <<>>
  <2>1. res'.status = "OK" /\ ~Failed' /\ ~Failed
    BY <1>1, <1>5 DEF Failed
  <2> QED
    BY <1>1, <1>3, <1>5, <2>1
    DEF Load!ParseEnd, Load!Sequence, Load!Passes, Load!dirVars, Load!fillVars,
        Load!shmVars, Load!pipeVars, Load!envVars
<1> QED BY <1>4, <1>5

\* The begin of the file.
LEMMA OpenForLoad ==
  ASSUME TypeInv, LoadInv, Open
  PROVE  Load!ReadLoad
<1>1. at = "open" /\ stack = <<>> /\ pushed = <<>> /\ ~Failed
  BY DEF Open, LoadInv, Failed
<1>2. /\ stack' = <<>> /\ pushed' = <<>>
      /\ \/ at' = "question"
         \/ at' = "done" /\ res'.status = "CANNOT_OPEN"
  BY <1>1 DEF Open, Fails
<1>3. LoadError["CANNOT_OPEN"] = "CANNOT_OPEN"
  BY DEF LoadError, Statuses
<1>4. /\ [k \in DOMAIN stack' |-> [question |-> k, correct |-> stack'[k].correct]] = <<>>
      /\ Corrects(pushed') = <<>>
  BY <1>2 DEF Corrects
<1> QED
  BY <1>1, <1>2, <1>3, <1>4
  DEF Load!ReadLoad, Load!NextCommand, Load!Finish, Load!Err, Failed, Load!dirVars,
      Load!mixVars, Load!fillVars, Load!shmVars, Load!envVars

\* Whatever the file, the parser does what the model of the loader allows: the
\* questions it pushes, the reply its errors lead to and the state it hands to
\* moveToShmem (load.c:241-333).
THEOREM ParserLoads == Spec => ParsesForLoad
<1> DEFINE LoadNext ==
  Load!ReadLoad \/ Load!ParseQuestion \/ Load!ParseFails \/ Load!ParseEnd
<1>1. TypeInv /\ LoadInv /\ [Next]_vars => TypeInv' /\ LoadInv'
  BY TypeStep, LoadStep
<1>2. Spec => [](TypeInv /\ LoadInv)
  BY <1>1, TypeInit, LoadInit, PTL DEF Spec
<1>3. ASSUME TypeInv, LoadInv, [Next]_vars
      PROVE  LoadNext \/ UNCHANGED Load!vars
  <2>1. CASE UNCHANGED vars
    BY <2>1
    DEF vars, Failed, Load!vars, Load!dirVars, Load!mixVars, Load!fillVars, Load!shmVars,
        Load!pipeVars, Load!envVars
  <2>2. CASE Open
    BY <1>3, <2>2, OpenForLoad
  <2>3. CASE Push
    BY <1>3, <2>3, PushForLoad
  <2>4. CASE \E line \in Lines : ReadLine(line)
    BY <1>3, <2>4, ReadLineLoads, ReadsOn, FailsForLoad DEF Reading
  <2>5. CASE EndAtQuestion
    BY <1>3, <2>5, EndForLoad
  <2>6. CASE EndAtAnswer
    BY <2>6, FailsForLoad, LineErrorsNamed DEF EndAtAnswer, Reading
  <2>7. CASE ReadError
    BY <2>7, FailsForLoad DEF ReadError, Reading
  <2> QED BY <1>3, <2>1, <2>2, <2>3, <2>4, <2>5, <2>6, <2>7 DEF Next, Returned
<1>4. TypeInv /\ LoadInv /\ [Next]_vars => [LoadNext]_(Load!vars)
  BY <1>3
<1> QED BY <1>2, <1>4, PTL DEF Spec, ParsesForLoad

=============================================================================
