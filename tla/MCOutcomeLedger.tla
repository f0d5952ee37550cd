--------------------------- MODULE MCOutcomeLedger ---------------------------
(***************************************************************************)
(* OutcomeLedger with two intents, two accounts, a transaction each of     *)
(* them paid with and one that carries no payment, and two reconcile runs. *)
(***************************************************************************)
EXTENDS OutcomeLedger, TLC

CONSTANTS a1, a2, t1, t2

MCSource == (t1 :> a1) @@ (t2 :> Nobody)
=============================================================================
