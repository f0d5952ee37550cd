---------------------------- MODULE MCWithdrawFlow ----------------------------
(***************************************************************************)
(* WithdrawFlow with a rate of each protocol.                              *)
(***************************************************************************)
EXTENDS WithdrawFlow, TLC

CONSTANTS firm, indicative, form

MCKind == (firm :> "firm") @@ (indicative :> "indicative") @@ (form :> "form")
=============================================================================
