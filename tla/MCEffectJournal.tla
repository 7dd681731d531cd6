--------------------------- MODULE MCEffectJournal ---------------------------
(* The effect journal instantiated for TLC. *)
EXTENDS EffectJournal
=============================================================================
