---------------------------- MODULE CatalogParser ----------------------------
(***************************************************************************)
(* The catalog parser of the loader (src/loader/parser.c): parseCatalog    *)
(* opens a file and calls parseQuestion until it finds no further question *)
(* or an error.  An action is one fgets and what the code does with the    *)
(* line, or one library call that ends the parse.                          *)
(*                                                                         *)
(* A line is what the parser tells apart: its beginning, the buffer it     *)
(* fits into with its line break, and the number behind TIMEOUT:.  The     *)
(* file is not fixed in advance: each fgets may meet any line, the end of  *)
(* the file or a read error.                                               *)
(***************************************************************************)
EXTENDS Integers, Sequences, FiniteSets

CONSTANTS
  NUM_ANSWERS,   \* answers of a question (4 in the code)
  Lines,         \* the lines a catalog may contain
  MaxLines,      \* bound: lines of a file
  Faults         \* the failures the run allows

AllFaults == {"open", "read", "memory"}

\* fits: both buffers, only the longer one for questions, or neither of them;
\* a line with a zero byte in it counts as one that fits nowhere.
\* value: what strtoul finds behind TIMEOUT:, -1 if more than a number is there.
Line == [kind : {"blank", "text", "wrong", "right", "timeout"},
         fits : {"answer", "question", "nothing"}, value : Nat \cup {-1}]

ASSUME CatalogAssumption ==
  /\ NUM_ANSWERS \in Nat \ {0} /\ MaxLines \in Nat
  /\ Lines \subseteq Line /\ Faults \subseteq AllFaults

DefaultTimeout == 10
MaxTimeout == 60
Question == [line : Nat \ {0}, correct : 0 .. NUM_ANSWERS - 1, timeout : 1 .. MaxTimeout]
Draft == [line : Nat \ {0}, correct : -1 .. NUM_ANSWERS - 1, timeout : 1 .. MaxTimeout]

\* the statuses that blame a line, and all of them (the code's PARSE_ constants)
LineErrors == {"LINE_TOO_LONG", "TOO_MANY_CORRECT", "CORRECT_MISSING",
               "INVALID_TIMEOUT", "INVALID_ANSWER"}
Statuses == LineErrors \cup
  {"OK", "CANNOT_OPEN", "CANNOT_READ", "OOM", "UNEXPECTED_EOF", "EMPTY"}
ParserResult == [status : Statuses, lineNumber : Nat]

VARIABLES
  at,             \* open, question, answer, push, done
  buffer,         \* the question being read; correct is -1 until it is known
  currentAnswer,
  stack,          \* the questions pushed so far, the head at the end
  res,            \* status and lineNumber; not assigned before open
  file,           \* history: the complete lines read so far
  tail,           \* history: the end of the file had no line break; what was there
  pushed          \* history: every question ever pushed

vars == <<at, buffer, currentAnswer, stack, res, file, tail, pushed>>

NoQuestion == [line |-> 1, correct |-> -1, timeout |-> DefaultTimeout]

Init ==
  /\ at = "open" /\ buffer = NoQuestion /\ currentAnswer = 0
  /\ stack = <<>> /\ res = [status |-> "OK", lineNumber |-> 0]
  /\ file = <<>> /\ tail = "none" /\ pushed = <<>>

-----------------------------------------------------------------------------
(* The ways a parse ends.                                                  *)

\* mutant: the questions read so far are left on the stack
FailsLeaks(status, lineNumber) ==
  /\ at' = "done" /\ UNCHANGED stack
  /\ res' = [status |-> status, lineNumber |-> lineNumber]
  /\ UNCHANGED <<buffer, currentAnswer, pushed>>
\* parseQuestion or stackPush reports an error; parseCatalog clears the stack.
Fails(status, lineNumber) ==
  /\ at' = "done" /\ stack' = <<>>
  /\ res' = [status |-> status, lineNumber |-> lineNumber]
  /\ UNCHANGED <<buffer, currentAnswer, pushed>>

\* parseQuestion finds the end of the file where a question may begin.
Succeeds ==
  /\ at' = "done"
  /\ res' = IF stack # <<>> THEN [status |-> "OK", lineNumber |-> 0]
                            ELSE [res EXCEPT !.status = "EMPTY"]
  /\ UNCHANGED <<buffer, currentAnswer, stack, pushed>>

-----------------------------------------------------------------------------
(* parseCatalog: fopen, and the push of a question.                        *)

Open ==
  /\ at = "open"
  /\ \/ "open" \in Faults /\ Fails("CANNOT_OPEN", 0)
     \/ /\ at' = "question" /\ res' = [res EXCEPT !.lineNumber = 1]
        /\ UNCHANGED <<buffer, currentAnswer, stack, pushed>>
  /\ UNCHANGED <<file, tail>>

Push ==
  /\ at = "push"
  /\ \/ "memory" \in Faults /\ Fails("OOM", res.lineNumber)
     \/ /\ stack' = Append(stack, buffer) /\ pushed' = Append(pushed, buffer)
        /\ at' = "question"
        /\ UNCHANGED <<buffer, currentAnswer, res>>
  /\ UNCHANGED <<file, tail>>

-----------------------------------------------------------------------------
(* parseQuestion.                                                          *)

\* fgets returns a complete line, or as much of a longer one as fits.
Gets(place, line) ==
  /\ at = place /\ Len(file) < MaxLines
  /\ file' = Append(file, line) /\ UNCHANGED tail

\* mutant: a blank line is not counted
SkipBlankUncounted(line) ==
  /\ Gets("question", line)
  /\ line.kind = "blank" /\ line.fits # "nothing"
  /\ UNCHANGED <<at, buffer, currentAnswer, stack, pushed, res>>
SkipBlank(line) ==
  /\ Gets("question", line)
  /\ line.kind = "blank" /\ line.fits # "nothing"
  /\ res' = [res EXCEPT !.lineNumber = @ + 1]
  /\ UNCHANGED <<at, buffer, currentAnswer, stack, pushed>>

\* any other line is a question, whatever it begins with
ReadQuestion(line) ==
  /\ Gets("question", line)
  /\ \/ /\ line.fits = "nothing"
        /\ Fails("LINE_TOO_LONG", res.lineNumber)
     \/ /\ line.fits # "nothing" /\ line.kind # "blank"
        /\ buffer' = [line |-> Len(file) + 1, correct |-> -1, timeout |-> DefaultTimeout]
        /\ currentAnswer' = 0 /\ at' = "answer"
        /\ UNCHANGED <<stack, pushed, res>>

\* The line number of the fgets for an answer, counted before it is called.
NextLine == res.lineNumber + 1

\* An answer line was taken; the loop goes on, or the question is complete.
Takes(correct) ==
  IF currentAnswer + 1 < NUM_ANSWERS
  THEN /\ currentAnswer' = currentAnswer + 1
       /\ buffer' = [buffer EXCEPT !.correct = correct]
       /\ res' = [res EXCEPT !.lineNumber = @ + 1]
       /\ UNCHANGED <<at, stack, pushed>>
  ELSE \/ correct = -1 /\ Fails("CORRECT_MISSING", NextLine)
       \/ /\ correct # -1 /\ at' = "push"
          /\ currentAnswer' = NUM_ANSWERS
          /\ buffer' = [buffer EXCEPT !.correct = correct]
          /\ res' = [status |-> "OK", lineNumber |-> res.lineNumber + 2]
          /\ UNCHANGED <<stack, pushed>>

ReadWrong(line) ==
  /\ Gets("answer", line)
  /\ line.fits = "answer" /\ line.kind = "wrong"
  /\ Takes(buffer.correct)

\* mutant: a second right answer replaces the first
ReadRightTwice(line) ==
  /\ Gets("answer", line)
  /\ line.fits = "answer" /\ line.kind = "right"
  /\ Takes(currentAnswer)
ReadRight(line) ==
  /\ Gets("answer", line)
  /\ line.fits = "answer" /\ line.kind = "right"
  /\ \/ buffer.correct # -1 /\ Fails("TOO_MANY_CORRECT", NextLine)
     \/ buffer.correct = -1 /\ Takes(currentAnswer)

\* before the first answer, as often as the file likes
\* mutant: the limits of the timeout are not checked
ReadTimeoutUnchecked(line) ==
  /\ Gets("answer", line)
  /\ line.fits = "answer" /\ line.kind = "timeout" /\ currentAnswer = 0
  /\ \/ line.value = -1 /\ Fails("INVALID_TIMEOUT", NextLine)
     \/ /\ line.value # -1
        /\ buffer' = [buffer EXCEPT !.timeout = line.value]
        /\ res' = [res EXCEPT !.lineNumber = @ + 1]
        /\ UNCHANGED <<at, currentAnswer, stack, pushed>>
ReadTimeout(line) ==
  /\ Gets("answer", line)
  /\ line.fits = "answer" /\ line.kind = "timeout" /\ currentAnswer = 0
  /\ \/ line.value \notin 1 .. MaxTimeout /\ Fails("INVALID_TIMEOUT", NextLine)
     \/ /\ line.value \in 1 .. MaxTimeout
        /\ buffer' = [buffer EXCEPT !.timeout = line.value]
        /\ res' = [res EXCEPT !.lineNumber = @ + 1]
        /\ UNCHANGED <<at, currentAnswer, stack, pushed>>

ReadNoAnswer(line) ==
  /\ Gets("answer", line)
  /\ \/ line.fits # "answer" /\ Fails("LINE_TOO_LONG", NextLine)
     \/ /\ line.fits = "answer"
        /\ line.kind \in {"blank", "text"} \/ (line.kind = "timeout" /\ currentAnswer # 0)
        /\ Fails("INVALID_ANSWER", NextLine)

-----------------------------------------------------------------------------
(* The end of the file, with or without a line break before it.            *)

\* what is left counts as the end, even if it is the text of a question
EndAtQuestion ==
  /\ at = "question"
  /\ tail' \in {"none", "blank", "text"}
  /\ Succeeds /\ UNCHANGED file

EndAtAnswer ==
  /\ at = "answer"
  /\ \/ tail' = "none" /\ Fails("UNEXPECTED_EOF", NextLine)
     \/ tail' \in {"blank", "text"} /\ Fails("LINE_TOO_LONG", NextLine)
  /\ UNCHANGED file

ReadError ==
  /\ "read" \in Faults
  /\ \/ at = "question" /\ Fails("CANNOT_READ", res.lineNumber)
     \/ at = "answer" /\ Fails("CANNOT_READ", NextLine)
  /\ UNCHANGED <<file, tail>>

Returned == at = "done" /\ UNCHANGED vars

ReadLine(line) ==
  \/ SkipBlank(line) \/ ReadQuestion(line)
  \/ ReadWrong(line) \/ ReadRight(line) \/ ReadTimeout(line) \/ ReadNoAnswer(line)

Next ==
  \/ Open \/ Push
  \/ \E line \in Lines : ReadLine(line)
  \/ EndAtQuestion \/ EndAtAnswer \/ ReadError
  \/ Returned

Spec == Init /\ [][Next]_vars

-----------------------------------------------------------------------------
(* The language of catalogs, told without the parser: which lines form a   *)
(* question, and which files are made of questions and blank lines.        *)

IsBlank(line) == line.kind = "blank" /\ line.fits # "nothing"
IsQuestion(line) == line.kind # "blank" /\ line.fits # "nothing"
IsTimeout(line) ==
  line.kind = "timeout" /\ line.fits = "answer" /\ line.value \in 1 .. MaxTimeout
IsAnswer(line) == line.kind \in {"wrong", "right"} /\ line.fits = "answer"

Block == [first : 1 .. MaxLines + NUM_ANSWERS, last : 1 .. MaxLines + NUM_ANSWERS]
AnswersFrom(b) == b.last - NUM_ANSWERS + 1
Rights(f, b) == {n \in AnswersFrom(b) .. b.last : f[n].kind = "right"}

\* A question, any number of timeouts, NUM_ANSWERS answers, one of them right.
BlockIn(f, b) ==
  /\ b.first < AnswersFrom(b) /\ b.last <= Len(f)
  /\ IsQuestion(f[b.first])
  /\ \A n \in b.first + 1 .. AnswersFrom(b) - 1 : IsTimeout(f[n])
  /\ \A n \in AnswersFrom(b) .. b.last : IsAnswer(f[n])
  /\ Cardinality(Rights(f, b)) = 1

Apart(b, c) == b = c \/ b.last < c.first \/ c.last < b.first

\* The blocks cover every line that is not blank, and each only once.
Catalog(f, blocks) ==
  /\ \A b, c \in blocks : Apart(b, c)
  /\ \A n \in DOMAIN f : IsBlank(f[n]) \/ \E b \in blocks : n \in b.first .. b.last

BlocksOf(f) ==
  {blocks \in SUBSET {b \in Block : BlockIn(f, b)} : Catalog(f, blocks)}

\* What the loader has to keep of a block.
QuestionOf(f, b) ==
  [line    |-> b.first,
   correct |-> (CHOOSE n \in Rights(f, b) : TRUE) - AnswersFrom(b),
   timeout |-> IF b.first + 1 = AnswersFrom(b) THEN DefaultTimeout
               ELSE f[AnswersFrom(b) - 1].value]

\* Some lines that can be added make a catalog of what has been read.
Viable(f) ==
  \E n \in 0 .. NUM_ANSWERS : \E kinds \in [1 .. n -> {"wrong", "right"}] :
    BlocksOf(f \o [m \in 1 .. n |->
                     [kind |-> kinds[m], fits |-> "answer", value |-> 0]]) # {}

-----------------------------------------------------------------------------

QuestionTypeOK == buffer \in Draft /\ currentAnswer \in 0 .. NUM_ANSWERS
StackTypeOK == stack \in Seq(Question) /\ pushed \in Seq(Question)
FileTypeOK == file \in Seq(Line) /\ tail \in {"none", "blank", "text"}
\* Every variable keeps its type.
TypeOK ==
  /\ at \in {"open", "question", "answer", "push", "done"} /\ res \in ParserResult
  /\ QuestionTypeOK /\ StackTypeOK /\ FileTypeOK

\* A parse that succeeds has pushed exactly the questions of the catalog, in
\* the order of the file, each with its right answer and its last timeout
\* (parser.c:161-277, 300-341).
AcceptsCatalog ==
  at = "done" /\ res.status = "OK" =>
    \E blocks \in BlocksOf(file) :
      /\ Len(stack) = Cardinality(blocks) /\ stack # <<>>
      /\ {stack[n] : n \in DOMAIN stack} = {QuestionOf(file, b) : b \in blocks}
      /\ \A n \in 1 .. Len(stack) - 1 : stack[n].line < stack[n + 1].line

\* The parser stops at the first line at which the file can no longer become
\* a catalog, and at no earlier one (parser.c:195-270).
RejectsFirstFault ==
  /\ at \in {"question", "answer", "push"} => Viable(file)
  /\ at = "done" /\ res.status \in LineErrors /\ tail = "none" => ~Viable(file)

\* The line number of an error is the line it is about, however many blank
\* lines, timeouts and questions came before (parser.h:37, load.c:286-318).
BlamesLine ==
  at = "done" =>
    /\ res.status \in LineErrors /\ tail = "none" => res.lineNumber = Len(file)
    /\ res.status = "UNEXPECTED_EOF" \/ (res.status \in LineErrors /\ tail # "none")
         => res.lineNumber = Len(file) + 1

\* All or nothing: an error leaves no question of the file on the stack, and
\* success leaves at least one (parser.c:286-288, 324-338).
AllOrNothing == at = "done" => (stack = <<>>) = (res.status # "OK")

=============================================================================
