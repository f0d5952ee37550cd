-------------------------- MODULE OutcomeLifecycle --------------------------
(***************************************************************************)
(* What the off-chain pipeline promises about an outcome row, whichever    *)
(* routes, runs and ticks overlap: it is recorded once, then either        *)
(* matched with its payment on the ledger and published, or set aside as   *)
(* disputed.  No stage is skipped or left backwards.                       *)
(***************************************************************************)
CONSTANT Row

VARIABLE stage

Edges ==
    { <<"absent", "recorded">>,
      <<"recorded", "reconciled">>, <<"recorded", "disputed">>,
      <<"reconciled", "published">> }

Init == stage \in [Row -> {"absent", "recorded"}]

Advance(r) ==
    \E edge \in Edges :
        /\ stage[r] = edge[1]
        /\ stage' = [stage EXCEPT ![r] = edge[2]]

Next == \E r \in Row : Advance(r)

Spec == Init /\ [][Next]_stage
=============================================================================
