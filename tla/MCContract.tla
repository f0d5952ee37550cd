------------------------------ MODULE MCContract ------------------------------
(***************************************************************************)
(* The corridor data of the contract and its custody, which share no state *)
(* but the admin gate.  One of them runs, chosen in the initial state; the *)
(* other stays as it begins.                                               *)
(*                                                                         *)
(* CorridorOracle with one anchor and publisher and two corridors, one of  *)
(* them in the default list, on a scale of 100 basis points.  The sample   *)
(* metrics reach both clamps, the rounding, a settle time of 0, a score of *)
(* 0 with and without a count, and every refusal; the rates include the    *)
(* odd one and one whose double overflows, and two increments of MAX_DELTA *)
(* fill the volume.                                                        *)
(*                                                                         *)
(* ContractCustody with three accounts and two hashes, a delay of two      *)
(* ledgers in a history of five and up to four upgrade calls: a proposal   *)
(* may be replaced, withdrawn, handed to a new holder or applied, and a    *)
(* second upgrade may follow.                                              *)
(***************************************************************************)
EXTENDS CorridorOracle, ContractCustody, TLC

VARIABLE part

M(f, s, t, k) == [fill |-> f, slippage |-> s, settle |-> t, n |-> k]

MCMetric ==
    { M(100, 0, 1, 1), M(90, 1, 300, 3), M(90, 1, 0, 3),
      M(50, 100, 60, 0), M(101, 0, 1, 1), M(1, -1, 1, 1), M(1, 0, 601, 1) }
MCLegacy == { M(90, 2, 301, 3), M(50, 100, 60, 0) }
MCRate == {0, 1, 3, 6, 7}
MCProbe ==
    { [uptime |-> 99, p50 |-> 1, p95 |-> 2, drift |-> 0],
      [uptime |-> 99, p50 |-> 2, p95 |-> 1, drift |-> 0] }
MCDelta == {-1, 6, 8}

ContractInit ==
    /\ part \in {"corridor data", "custody"}
    /\ Init /\ (part = "corridor data" \/ ~Upgraded)
    /\ CustodyInit /\ (part = "custody" \/ \E a \in Address : holder = [r \in Role |-> a])

ContractNext ==
    \/ part = "corridor data" /\ Next /\ UNCHANGED <<part, custodyVars>>
    \/ part = "custody" /\ CustodyNext /\ UNCHANGED <<part, vars>>

ContractSpec == ContractInit /\ [][ContractNext]_<<part, vars, custodyVars>>

Symmetry == Permutations(Address) \cup Permutations(Hash)
=============================================================================
