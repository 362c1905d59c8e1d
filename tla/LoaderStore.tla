------------------------------ MODULE LoaderStore ------------------------------
(***************************************************************************)
(* The loader implements the quiz store.  The command under way is told by *)
(* the place in the code; the quiz is read out of the shared memory the    *)
(* way the server reads it, question by question, wherever mix has put     *)
(* it, and counts as published from its LOADED on.                         *)
(***************************************************************************)
EXTENDS Loader

\* A LOAD is a LOAD for the server, also when its file name is refused.
Asked(command) == IF command = "HIDE" THEN "LOAD" ELSE command

UnderWay ==
  IF pc = "read" THEN <<>>
  ELSE IF pc \in {"browse", "blank"} THEN <<"BROWSE">> ELSE <<"LOAD">>

Pending ==
  IF pc \in Gone THEN <<>> ELSE UnderWay \o [n \in DOMAIN stdin |-> Asked(stdin[n])]

\* The right answer of question q, by the text the shared memory marks.
RightAnswer(q) ==
  LET s == CHOOSE s \in DOMAIN shmem : shmem[s].question = q
  IN  shmem[s].answers[shmem[s].correct] - 1

Quiz ==
  IF published = <<>> THEN <<>>
  ELSE [q \in 1 .. Cardinality(DOMAIN shmem) |-> RightAnswer(q)]

Store == INSTANCE QuizStore WITH
  Refusals <- Errors, alive <- pc \notin Gone, pending <- Pending,
  replies <- stdout, quiz <- Quiz

\* The loader is a quiz store: whatever its system calls, mix, the server and
\* deaths do, commands are answered in order, a quiz appears whole and only
\* in an empty store, and nobody but the server takes it away (load.c:108-188,
\* 201-337, main.c:28-56, browse.c:44-79).
ImplementsStore == Store!Spec

=============================================================================
