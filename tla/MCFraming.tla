------------------------------- MODULE MCFraming -------------------------------
(* Two bytes for every field longer than one, and each case of the listener  *)
(* with a payload and, where there is one, without.                          *)
EXTENDS Framing

MCWidth == [f \in Fields |-> IF f = "id" THEN 1 ELSE 2]
Msg(type, size) == [type |-> type, size |-> size]
MCMessages ==
  {Msg("LG_RQ_OK", 1), Msg("CA_RP", 0), Msg("CA_RP", 2), Msg("PL_LI", 2 * EntrySize),
   Msg("QU", 0), Msg("QU", QuestionSize), Msg("QU_RE", 2), Msg("GA_OV", 1), Msg("ER_WA", 2)}

=============================================================================
