---------------------------- MODULE QuestionRound ----------------------------
(***************************************************************************)
(* What the questions of a game promise the player: one after the other,   *)
(* each asked for before it is opened and closed before the next is asked  *)
(* for.  Who carries the round on, the command thread, a question change   *)
(* thread, the server's clock or the player, is not told here.             *)
(***************************************************************************)
EXTENDS Integers

CONSTANT NumQuestions      \* questions of a game

VARIABLES
  question,  \* how many questions have been opened
  round      \* before, asking, open, closing, over; left: the player closed a window

vars == <<question, round>>

Init == question = 0 /\ round = "before"

\* The game starts; it does so once.
Begin == round = "before" /\ round' = "asking" /\ UNCHANGED question

\* The question asked for is opened.
Open ==
  /\ round = "asking" /\ question < NumQuestions
  /\ round' = "open" /\ question' = question + 1

\* Somebody answers it, or its time is over.
Close == round = "open" /\ round' = "closing" /\ UNCHANGED question

\* Its result has been shown: the next one is asked for.
AskNext == round = "closing" /\ round' = "asking" /\ UNCHANGED question

\* No question is left, or a fault takes the round away.
Finish == round \in {"asking", "closing"} /\ round' = "over" /\ UNCHANGED question

\* The player leaves; what the others play is not shown any more.
Leave == round' = "left" /\ UNCHANGED question
PlayOn == round = "left" /\ question < NumQuestions /\ question' = question + 1 /\ UNCHANGED round

Next == Begin \/ Open \/ Close \/ AskNext \/ Finish \/ Leave \/ PlayOn

Spec == Init /\ [][Next]_vars

=============================================================================
