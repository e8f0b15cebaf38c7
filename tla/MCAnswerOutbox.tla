--------------------------- MODULE MCAnswerOutbox ---------------------------
(* Instances of AnswerOutbox for TLC. *)
EXTENDS AnswerOutbox

CONSTANTS a, t1, final

MCSlot1  == {a}
MCTick1  == {t1}
=============================================================================
