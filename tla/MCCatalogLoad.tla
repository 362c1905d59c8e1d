---------------------------- MODULE MCCatalogLoad ----------------------------
(* Lines for model checking: each beginning in the lengths that matter for  *)
(* it, and numbers around both ends of the range of timeouts.               *)
EXTENDS CatalogLoad

L(kind, fits) == [kind |-> kind, fits |-> fits, value |-> 0]
Timeout(value) == [kind |-> "timeout", fits |-> "answer", value |-> value]

MCLines ==
  {L("blank", "answer"), L("blank", "nothing"), L("text", "question"), L("text", "nothing"),
   L("wrong", "answer"), L("right", "answer"), L("right", "question")}
  \cup {Timeout(value) : value \in {-1, 0, 1, 60, 61}}

=============================================================================
