-------------------------- MODULE MCOutcomeHistory --------------------------
(***************************************************************************)
(* OutcomeHistory on pages of two entries, page numbers 0..2 and counters  *)
(* that give up at 2: roll-overs, resets on both sides of a full page and  *)
(* every refusal of submit_outcome are within reach.                       *)
(***************************************************************************)
EXTENDS OutcomeHistory
=============================================================================
