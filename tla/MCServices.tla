------------------------------ MODULE MCServices ------------------------------
(***************************************************************************)
(* Services of the server, and the deposit page, that share no state.  One *)
(* of them runs, chosen in the initial state; the others stay as they      *)
(* begin, so the run checks each one on its own.                           *)
(***************************************************************************)
EXTENDS RateCache, DepositFlow, RecurringIntents, Webhooks, ProbeLedger, HopChain,
        HealthLedger, Router, OracleRefresh, TLC

CONSTANTS key1, key2, ramp, swap1, swap2, supply

VARIABLE service

servicesVars == <<service, recurringVars, vars, hooksVars, probeVars, routerVars, hopVars,
                  depositVars, refreshVars, nightlyVars>>

\* A weekly intent with a bound, due at once; a cron schedule with a stop date.
MCTemplate ==
    {[kind |-> "named", every |-> 2, limit |-> 2, stop |-> 9, wait |-> 0],
     [kind |-> "cron", every |-> 2, limit |-> 0, stop |-> 3, wait |-> 1]}

\* A document in order, and one with another key that names nobody.
MCPublished ==
    {[state |-> "parsed", key |-> {key1}, urls |-> TRUE, names |-> TRUE],
     [state |-> "parsed", key |-> {key2}, urls |-> FALSE, names |-> FALSE]}

\* Quotes of two prices and three sizes; one with a fee, one that expired.
MCQuote ==
    [live : {TRUE}, sell : {0, 1, 2}, buy : {1}, price : {2, 8}, fee : {0}]
    \cup [live : {TRUE}, sell : {2}, buy : {2}, price : {3}, fee : {0, 1}]
    \cup [live : {FALSE}, sell : {2}, buy : {2}, price : {3}, fee : {0}]
MCRequest ==
    [sell : {3}, floor : {2, 7}, live : {TRUE}, budget : {1, 100}, cap : {1, 3}]
    \cup [sell : {1}, floor : {1}, live : BOOLEAN, budget : {100}, cap : {2}]

MCType == (ramp :> "on-ramp") @@ (swap1 :> "swap") @@ (swap2 :> "swap") @@ (supply :> "yield")
MCHopId == (ramp :> ramp) @@ (swap1 :> swap1) @@ (swap2 :> swap1) @@ (supply :> supply)

\* Two withdrawals of one pair that straddle the quote, one more without a settle time, a
\* failed one of another pair, and one that took longer than the contract accepts.
MCOutcome ==
    {[anchor |-> 1, corridor |-> 1, completed |-> TRUE, delivered |-> 2, timed |-> TRUE,
      settle |-> 1],
     [anchor |-> 1, corridor |-> 1, completed |-> TRUE, delivered |-> 7, timed |-> TRUE,
      settle |-> 4],
     [anchor |-> 1, corridor |-> 1, completed |-> TRUE, delivered |-> 3, timed |-> FALSE,
      settle |-> 0],
     [anchor |-> 2, corridor |-> 1, completed |-> FALSE, delivered |-> 0, timed |-> TRUE,
      settle |-> 2],
     [anchor |-> 1, corridor |-> 2, completed |-> TRUE, delivered |-> 3, timed |-> TRUE,
      settle |-> 9]}

\* The first anchor had another domain before.  Probes that answered, late and not.
MCAnchorOf == <<1, 1, 2>>
MCSample ==
    [domain : {1}, kind : {"uptime"}, up : BOOLEAN, latency : {0}]
    \cup [domain : {2}, kind : {"uptime"}, up : {FALSE}, latency : {0}]
    \cup [domain : {1}, kind : {"quote"}, up : {TRUE}, latency : {3, 5}]
    \cup [domain : {3}, kind : {"quote"}, up : {FALSE}, latency : {0}]

\* Many withdrawals without a probe, or a few with probes.
MCLogBound == {[rows |-> 3, samples |-> 0], [rows |-> 1, samples |-> 3]}

\* The other kinds of probe.
Q == INSTANCE ProbeLedger WITH
        ProbedKind <- {"issuer-mismatch", "deposit"}, MaxDay <- 1

ASSUME AccusingAssumed == Q!ProbeAssumption

ServicesInit ==
    /\ service \in {"recurring", "cache", "webhooks", "probes", "accusing probes", "solver",
                   "hops", "deposits", "refresh", "nightly ledger"}
    /\ Init /\ RecurringInit
    /\ HooksInit /\ (service = "webhooks" \/ (committed = NoLedger /\ subs = <<>>))
    /\ ProbeInit
    /\ \/ service \in {"probes", "accusing probes"}
       \/ \A d \in Domain : served[d].key = {key1}
    /\ IF service = "solver" THEN RouterInit
       ELSE /\ request = [sell |-> 1, floor |-> 1, live |-> TRUE, budget |-> 100, cap |-> 2]
            /\ quotes = <<>> /\ RouterInit
    /\ IF service = "hops" THEN HopInit ELSE chain = <<>> /\ HopInit
    /\ DepositInit /\ RefreshInit /\ NightlyInit
    /\ \/ service = "deposits"
       \/ \A w \in Wallet : standing[w] = "ready"

ServicesNext ==
    \/ /\ service = "recurring" /\ RecurringNext
       /\ UNCHANGED <<service, vars, hooksVars, probeVars, routerVars, hopVars, depositVars,
                      refreshVars, nightlyVars>>
    \/ /\ service = "cache" /\ Next
       /\ UNCHANGED <<service, recurringVars, hooksVars, probeVars, routerVars, hopVars,
                      depositVars, refreshVars, nightlyVars>>
    \/ /\ service = "webhooks" /\ HooksNext
       /\ UNCHANGED <<service, recurringVars, vars, probeVars, routerVars, hopVars,
                      depositVars, refreshVars, nightlyVars>>
    \/ /\ service = "probes" /\ ProbeNext
       /\ UNCHANGED <<service, recurringVars, vars, hooksVars, routerVars, hopVars,
                      depositVars, refreshVars, nightlyVars>>
    \/ /\ service = "accusing probes" /\ Q!ProbeNext
       /\ UNCHANGED <<service, recurringVars, vars, hooksVars, routerVars, hopVars,
                      depositVars, refreshVars, nightlyVars>>
    \/ /\ service = "solver" /\ RouterNext
       /\ UNCHANGED <<service, recurringVars, vars, hooksVars, probeVars, hopVars,
                      depositVars, refreshVars, nightlyVars>>
    \/ /\ service = "hops" /\ HopNext
       /\ UNCHANGED <<service, recurringVars, vars, hooksVars, probeVars, routerVars,
                      depositVars, refreshVars, nightlyVars>>
    \/ /\ service = "deposits" /\ DepositNext
       /\ UNCHANGED <<service, recurringVars, vars, hooksVars, probeVars, routerVars, hopVars,
                      refreshVars, nightlyVars>>
    \/ /\ service = "refresh" /\ RefreshNext
       /\ UNCHANGED <<service, recurringVars, vars, hooksVars, probeVars, routerVars, hopVars,
                      depositVars, nightlyVars>>
    \/ /\ service = "nightly ledger" /\ NightlyNext
       /\ UNCHANGED <<service, recurringVars, vars, hooksVars, probeVars, routerVars, hopVars,
                      depositVars, refreshVars>>

ServicesSpec == ServicesInit /\ [][ServicesNext]_servicesVars

\* The deposit page on its own, for the run that shows what it does not do.
DepositsAlone ==
    (service = "deposits" /\ ServicesInit) /\ [][ServicesNext]_<<service, depositVars>>

\* The properties are stated and explained in the modules of their services; these say
\* which instance is meant.

\* Every variable of the services keeps its type.
ServicesTypeOK ==
    CASE service = "recurring" -> RecurringTypeOK
      [] service = "cache" -> TypeOK
      [] service = "webhooks" -> HooksTypeOK
      [] service = "probes" -> ProbeTypeOK
      [] service = "accusing probes" -> Q!ProbeTypeOK
      [] service = "solver" -> RouterTypeOK
      [] service = "hops" -> HopTypeOK
      [] service = "deposits" -> DepositTypeOK
      [] service = "refresh" -> RefreshTypeOK
      [] service = "nightly ledger" -> NightlyTypeOK

\* The cfg names evaluations, wallets, anchors and sweeps alike: one permutation for them all.
Symmetry == Permutations(Anchor)
=============================================================================
