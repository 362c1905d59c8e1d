------------------------------- MODULE QuizStore -------------------------------
(***************************************************************************)
(* What the loader is to the server: a store for at most one quiz.  The    *)
(* server asks; the store answers in the order it was asked, and a LOAD    *)
(* that succeeds makes a whole file the quiz in one step.  The quiz stays  *)
(* until the server takes it away, also when the store dies and another    *)
(* one starts (load.c:28-337, main.c:28-56, the notes at load.c:108-138).  *)
(*                                                                         *)
(* A file is the sequence of its right answers.                            *)
(***************************************************************************)
EXTENDS Integers, Sequences

CONSTANTS
  Catalogs,   \* the names a BROWSE may list
  Answers,    \* the answers of a question
  Refusals    \* the error replies to a LOAD

Quizzes == Seq(Answers) \ {<<>>}
Name(c) == [type |-> "name", file |-> c]
Reply(type, size) == [type |-> type, size |-> size]

VARIABLES
  alive,     \* does the store run
  pending,   \* the commands not yet answered, in the order they came
  replies,   \* what it has answered and the server has not read
  quiz       \* the quiz the server may read, <<>> if there is none

vars == <<alive, pending, replies, quiz>>

Init == alive = TRUE /\ pending = <<>> /\ replies = <<>> /\ quiz = <<>>

-----------------------------------------------------------------------------
(* The server.                                                             *)

Ask(command) ==
  /\ alive /\ pending' = Append(pending, command)
  /\ UNCHANGED <<alive, replies, quiz>>

Receive ==
  /\ replies # <<>> /\ replies' = Tail(replies)
  /\ UNCHANGED <<alive, pending, quiz>>

TakeQuiz == quiz' = <<>> /\ UNCHANGED <<alive, pending, replies>>

-----------------------------------------------------------------------------
(* The store.                                                              *)

Answering(command) == alive /\ pending # <<>> /\ Head(pending) = command
Answer(reply) ==
  pending' = Tail(pending) /\ replies' = Append(replies, reply) /\ UNCHANGED alive

\* Names before the blank line; the store is still busy with the BROWSE.
List(c) ==
  /\ Answering("BROWSE") /\ replies' = Append(replies, Name(c))
  /\ UNCHANGED <<alive, pending, quiz>>

EndList == Answering("BROWSE") /\ Answer(Reply("blank", 0)) /\ UNCHANGED quiz

\* Only an empty store takes a quiz; the reply tells its size.
Load ==
  /\ Answering("LOAD") /\ quiz = <<>>
  /\ quiz' \in Quizzes
  /\ Answer(Reply("LOADED", Len(quiz')))

Refuse(e) == Answering("LOAD") /\ Answer(Reply(e, 0)) /\ UNCHANGED quiz

Ignore ==
  /\ Answering("other") /\ pending' = Tail(pending)
  /\ UNCHANGED <<alive, replies, quiz>>

\* With it go the commands it owes an answer; answers and quiz remain.
Die == alive /\ alive' = FALSE /\ pending' = <<>> /\ UNCHANGED <<replies, quiz>>

Restart ==
  /\ ~alive /\ alive' = TRUE /\ replies' = <<>>
  /\ UNCHANGED <<pending, quiz>>

Next ==
  \/ \E command \in {"BROWSE", "LOAD", "other"} : Ask(command)
  \/ Receive \/ TakeQuiz
  \/ \E c \in Catalogs : List(c)
  \/ EndList \/ Load \/ Ignore
  \/ \E e \in Refusals : Refuse(e)
  \/ Die \/ Restart

Spec == Init /\ [][Next]_vars

=============================================================================
