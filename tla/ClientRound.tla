----------------------------- MODULE ClientRound -----------------------------
(***************************************************************************)
(* The client's threads and the server's clock carry the questions of a    *)
(* game on as QuestionRound promises.                                      *)
(***************************************************************************)
EXTENDS Client

\* Somebody is about to ask for a question, or has asked and got no answer.
Asking ==
  \/ pc["main"] = "request" \/ threads.sleeping > 0
  \/ \E n \in DOMAIN outbox : outbox[n].type = "QU_RQ"

\* A result is on its way to the player.
Closing ==
  \/ \E n \in DOMAIN inbox : inbox[n].type = "QU_RE"
  \/ pc["listener"] \in {"size", "case", "gui", "spawn"} /\ hdr.type = "QU_RE"

\* main has left its wait for the start of the game.
Started ==
  \/ pc["main"] \in {"request", "waitEnd"}
  \/ pc["main"] \in {"errDialog", "errWait"} /\ cont["main"] = "waitEnd"

\* How far the round is, as long as the player plays.
RoundState ==
  CASE closeOnEnd -> "left"
    [] ~closeOnEnd /\ Asking -> "asking"
    [] ~closeOnEnd /\ ~Asking /\ srvActive -> "open"
    [] ~closeOnEnd /\ ~Asking /\ ~srvActive /\ Closing -> "closing"
    [] ~closeOnEnd /\ ~Asking /\ ~srvActive /\ ~Closing /\ Started -> "over"
    [] OTHER -> "before"

Round == INSTANCE QuestionRound WITH question <- srvQ, round <- RoundState

\* The question requests of main and of the change threads, the server's open
\* question and the results the listener works off make up one round after the
\* other: none is asked for twice, opened over another or closed unopened,
\* whichever thread or connection fails (main.c:177-187, li_qu_thread.c:31-50,
\* 263-356).
ImplementsRound == Round!Spec

=============================================================================
