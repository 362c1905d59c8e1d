----------------------------- MODULE CatalogLoad -----------------------------
(***************************************************************************)
(* The parser inside the loader: load (src/loader/load.c) answers with one *)
(* of five errors or goes on to the shared memory.  Module Loader has a    *)
(* choice there between a question, an error and the end of the file; the  *)
(* parser, read line by line, is one way to make that choice.              *)
(***************************************************************************)
EXTENDS CatalogParser

\* mutant: the case of a file that cannot be opened writes cannotReadMsg
LoadErrorCopied ==
  [status \in Statuses \ {"OK"} |->
     CASE status = "CANNOT_OPEN" -> "CANNOT_READ"
       [] status \in {"CANNOT_READ", "OOM"} -> status
       [] OTHER -> "INVALID"]
\* The reply of load's switch for a status other than OK.
LoadError ==
  [status \in Statuses \ {"OK"} |->
     IF status \in {"CANNOT_OPEN", "CANNOT_READ", "OOM"} THEN status ELSE "INVALID"]

Failed == at = "done" /\ res.status # "OK"
Corrects(questions) == [n \in DOMAIN questions |-> questions[n].correct]

\* A LOAD is in the pipe until the file is open; no BROWSE came before it.
Load == INSTANCE Loader WITH
  Catalogs <- {}, MaxQuestions <- MaxLines, MaxCommands <- 1, MaxDirs <- 1,
  MaxKills <- 0, Faults <- {"file", "memory"},
  pc <- CASE at = "open" -> "read"
          [] at \in {"question", "answer", "push"} -> "parse"
          [] at = "done" -> IF Failed THEN "reply" ELSE "mix",
  stdin <- IF at = "open" THEN <<"LOAD">> ELSE <<>>,
  stack <- [n \in DOMAIN stack |-> [question |-> n, correct |-> stack[n].correct]],
  parsed <- Corrects(pushed),
  reply <- IF Failed THEN [type |-> LoadError[res.status], size |-> 0]
                     ELSE [type |-> "OOM", size |-> 0],
  order <- IF at = "done" /\ ~Failed THEN [n \in 0 .. Len(stack) - 1 |-> n] ELSE <<>>,
  passesLeft <- IF at = "done" /\ ~Failed THEN 2 * Len(stack) ELSE 0,
  openDirs <- 0, shown <- {}, answerOrder <- <<>>, i <- 0,
  current <- [question |-> 1, correct |-> 0],
  exists <- FALSE, shmem <- <<>>, published <- <<>>,
  stdout <- <<>>, stdinOpen <- TRUE, stdoutOpen <- TRUE,
  asked <- 1, answered <- 0, kills <- 0

\* Every step of the parser is a step of Loader's LOAD or none: the questions
\* it pushes, the replies its errors lead to and the state it hands to
\* moveToShmem are those module Loader allows (load.c:241-333).
ParsesForLoad ==
  [][Load!ReadLoad \/ Load!ParseQuestion \/ Load!ParseFails \/ Load!ParseEnd]_(Load!vars)

=============================================================================
