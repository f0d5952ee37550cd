-------------------------------- MODULE Router --------------------------------
(***************************************************************************)
(* The solvers of lib/router/solve.ts: the best single quote, a split over *)
(* several anchors, and the fallback that asks again without the anchors   *)
(* that were rejected.                                                     *)
(*                                                                         *)
(* Amounts are numbers of the least unit and a price is per Scale of them, *)
(* so that a product is rounded down as the code's is.  The score of a     *)
(* quote's metrics is floating point and left out: the scored strategy is  *)
(* modelled without metrics, when it ranks by amount.                      *)
(***************************************************************************)
EXTENDS Naturals, FiniteSets, Sequences, SequencesExt

CONSTANTS
    Quote,        \* evaluated quotes: live, sell, buy, price and fee
    Request,      \* intents: sell, floor, live, budget in percent, cap on anchors
    MaxQuotes,    \* bound on the quotes of a request
    Scale,        \* DECIMAL_SCALE
    RouteAnchor,  \* anchors of the corridor, in the order of their ids
    MaxReceived   \* bound on totalReceived

MaxFallbackAttempts == 2

ASSUME RouterAssumption ==
    /\ Quote \subseteq [live : BOOLEAN, sell : Nat, buy : Nat, price : Nat, fee : Nat]
    /\ Request \subseteq [sell : Nat, floor : Nat, live : BOOLEAN, budget : Nat, cap : Nat]
    /\ MaxQuotes \in Nat /\ Scale \in Nat \ {0}
    /\ RouteAnchor \subseteq Nat /\ IsFiniteSet(RouteAnchor) /\ MaxReceived \in Nat

VARIABLES
    request,
    quotes,      \* the evaluated quotes, in candidate order
    answer,      \* the solver's: a refusal, or a plan and its legs
    round,
    excluded,    \* excludeIds
    attempts,    \* anchors tried, in order, and whether each succeeded
    offered,     \* the rates of the last fetch: anchors to totalReceived
    winner       \* the anchor of solveWithFallback's result, an optional set

routerVars == <<request, quotes, answer, round, excluded, attempts, offered, winner>>
fallback == <<round, excluded, attempts, offered, winner>>

Refusal == {"no_eligible_route", "all_quotes_expired", "fee_budget_exceeded",
            "floor_not_met", "insufficient_liquidity"}
Leg == [quote : 1..MaxQuotes, sell : Nat, net : Nat, fee : Nat]

Solver == {"first-match", "scored", "multi", "fallback"}

\* A single-anchor plan has one leg.
Refused(solver, error) == [by |-> solver, kind |-> error, legs |-> <<>>]
Planned(solver, legs) == [by |-> solver, kind |-> "plan", legs |-> legs]

RouterTypeOK ==
    /\ request \in Request /\ quotes \in Seq(Quote) /\ Len(quotes) <= MaxQuotes
    /\ answer.by \in Solver \cup {"none"} /\ answer.kind \in Refusal \cup {"none", "plan"}
    /\ answer.legs \in Seq(Leg)
    /\ round \in 0..(1 + MaxFallbackAttempts) /\ excluded \subseteq RouteAnchor
    /\ attempts \in Seq([anchor : RouteAnchor, succeeded : BOOLEAN])
    /\ DOMAIN offered \subseteq RouteAnchor
    /\ winner \subseteq RouteAnchor

\* A behaviour is one call: of a solver with its quotes, or of the fallback, which
\* takes none.
RouterInit ==
    /\ request \in Request
    /\ quotes \in BoundedSeq(Quote, MaxQuotes)
    /\ answer = Refused("none", "none")
    /\ round = 0 /\ excluded = {} /\ attempts = <<>> /\ offered = <<>> /\ winner = {}

-----------------------------------------------------------------------------
(* solveSingleAnchor. *)

ExceedsFeeBudget(q) ==
    request.budget < 100 /\ q.sell # 0 /\ q.fee * 100 > q.sell * request.budget

Live == {i \in DOMAIN quotes : quotes[i].live}
BelowFloor == {i \in Live : quotes[i].buy < request.floor}
OverBudget == {i \in Live \ BelowFloor : ExceedsFeeBudget(quotes[i])}
Valid == (Live \ BelowFloor) \ OverBudget

\* Of equal amounts the first in candidate order stays the best.
Earliest(is) == {i \in is : \A j \in is : i <= j}
BestOf(is) == Earliest({i \in is : \A j \in is : quotes[j].buy <= quotes[i].buy})

SingleLeg(i) == [quote |-> i, sell |-> quotes[i].sell, net |-> quotes[i].buy,
                 fee |-> quotes[i].fee]

SingleRefusal ==
    CASE quotes = <<>> -> "no_eligible_route"
      [] quotes # <<>> /\ Live = {} -> "all_quotes_expired"
      [] Live # {} /\ OverBudget # {} -> "fee_budget_exceeded"
      [] Live # {} /\ OverBudget = {} -> "floor_not_met"

SolveSingleAnchor(strategy) ==
    /\ answer.kind = "none" /\ round = 0
    /\ LET best == IF strategy = "scored" THEN BestOf(Valid) ELSE Earliest(Valid) IN
       answer' = IF ~request.live THEN Refused(strategy, "all_quotes_expired")
                 ELSE IF Valid = {} THEN Refused(strategy, SingleRefusal)
                 ELSE Planned(strategy, <<SingleLeg(CHOOSE i \in best : TRUE)>>)
    /\ UNCHANGED <<request, quotes, fallback>>

-----------------------------------------------------------------------------
(* solveMultiAnchor. *)

\* What the numbers of a sequence add up to.
Total(parts) ==
    LET sum[n \in 0..Len(parts)] == IF n = 0 THEN 0 ELSE sum[n - 1] + parts[n]
    IN  sum[Len(parts)]

Sold(legs) == Total([n \in DOMAIN legs |-> legs[n].sell])
Net(legs) == Total([n \in DOMAIN legs |-> legs[n].net])

Cheapest(is) ==
    {i \in is : \A j \in is : quotes[i].price < quotes[j].price
                              \/ (quotes[i].price = quotes[j].price /\ i <= j)}

\* Of the quotes not walked yet, the next in the ranking: by falling price, and as the
\* sort is stable, in candidate order where prices are equal.
Foremost(is) ==
    {i \in is : \A j \in is : quotes[i].price > quotes[j].price
                              \/ (quotes[i].price = quotes[j].price /\ i <= j)}

MaxAnchors == IF request.cap > 1 THEN request.cap ELSE 1

Proceeds(i, alloc) == (alloc * quotes[i].price) \div Scale
MultiLeg(i, alloc) ==
    [quote |-> i, sell |-> alloc, net |-> Proceeds(i, alloc),
     fee |-> (quotes[i].fee * alloc) \div quotes[i].sell]

\* The next quote of the walk takes what it can of what remains.
FillUncapped(walk, i) ==
    LET capacity == quotes[i].sell
        alloc == IF capacity < walk.remaining THEN capacity ELSE walk.remaining
    IN  [left |-> walk.left \ {i},
         remaining |-> walk.remaining - alloc,
         legs |-> IF alloc = 0 THEN walk.legs ELSE Append(walk.legs, MultiLeg(i, alloc))]
Fill(walk, i) ==
    LET capacity == IF Len(walk.legs) < MaxAnchors THEN quotes[i].sell ELSE 0
        alloc == IF capacity < walk.remaining THEN capacity ELSE walk.remaining
    IN  [left |-> walk.left \ {i},
         remaining |-> walk.remaining - alloc,
         legs |-> IF alloc = 0 THEN walk.legs ELSE Append(walk.legs, MultiLeg(i, alloc))]

\* The walk over the first n quotes of the ranking, which is all of it at last.
Walked ==
    LET walk[n \in 0..Cardinality(Live)] ==
            IF n = 0 THEN [left |-> Live, remaining |-> request.sell, legs |-> <<>>]
            ELSE LET before == walk[n - 1]
                 IN  Fill(before, CHOOSE i \in Foremost(before.left) : TRUE)
    IN  walk[Cardinality(Live)]

SolveMultiAnchor ==
    /\ answer.kind = "none" /\ round = 0
    /\ LET legs == Walked.legs
           error == IF ~request.live THEN "all_quotes_expired"
                    ELSE IF quotes = <<>> THEN "no_eligible_route"
                    ELSE IF Live = {} THEN "all_quotes_expired"
                    ELSE IF Walked.remaining > 0 THEN "insufficient_liquidity"
                    ELSE IF Net(legs) < request.floor THEN "floor_not_met"
                    ELSE "none"
       IN answer' = IF error = "none" THEN Planned("multi", legs) ELSE Refused("multi", error)
    /\ UNCHANGED <<request, quotes, fallback>>

-----------------------------------------------------------------------------
(* solveWithFallback: every round asks all anchors of the corridor again.  *)

\* computeRateComparison of the rates that are not excluded.
BetterRate(rates, a, b) == rates[a] > rates[b] \/ (rates[a] = rates[b] /\ a <= b)
BestRate(rates) == {a \in DOMAIN rates : \A b \in DOMAIN rates : BetterRate(rates, a, b)}

Kept(rates) == [a \in DOMAIN rates \ excluded |-> rates[a]]

FetchBestRate ==
    /\ quotes = <<>> /\ answer.kind = "none" /\ winner = {}
    /\ \E up \in SUBSET RouteAnchor : \E rates \in [up -> 0..MaxReceived] :
          /\ offered' = rates
          /\ IF BestRate(Kept(rates)) = {}
             THEN answer' = Refused("fallback", "no_eligible_route")
                  /\ UNCHANGED <<round, excluded, attempts, winner>>
             ELSE \E a \in BestRate(Kept(rates)), rejected \in BOOLEAN :
                    /\ round' = round + 1
                    /\ attempts' = Append(attempts, [anchor |-> a, succeeded |-> ~rejected])
                    /\ winner' = IF rejected THEN {} ELSE {a}
                    /\ excluded' = IF rejected THEN excluded \cup {a} ELSE excluded
                    /\ answer' = IF rejected /\ round = MaxFallbackAttempts
                                 THEN Refused("fallback", "no_eligible_route") ELSE answer
    /\ UNCHANGED <<request, quotes>>

RouterNext ==
    \/ \E strategy \in {"first-match", "scored"} : SolveSingleAnchor(strategy)
    \/ SolveMultiAnchor
    \/ FetchBestRate

RouterSpec == RouterInit /\ [][RouterNext]_routerVars

-----------------------------------------------------------------------------
(* What a solver answers with keeps the user's terms: a single quote is    *)
(* live, meets the floor and the fee budget, and under the scored strategy *)
(* no other such quote delivers more; the legs of a split are live quotes, *)
(* each once and within its size, no more of them than the cap, that sell  *)
(* the order exactly and together meet the floor; and a fallback never     *)
(* ends with an anchor it had rejected or asks one twice                   *)
(* (solve.ts:184-323, 370-468, 518-547).                                   *)
PlansKeepTheTerms ==
    LET legs == answer.legs IN
    /\ (answer.kind = "plan" /\ answer.by # "multi") =>
          \E i \in Valid : legs[1].quote = i
             /\ answer.by = "scored" => \A j \in Valid : quotes[j].buy <= legs[1].net
    /\ (answer.kind = "plan" /\ answer.by = "multi") =>
          /\ \A n \in DOMAIN legs : legs[n].quote \in Live
                /\ legs[n].sell \in 1..quotes[legs[n].quote].sell
                /\ legs[n].fee <= quotes[legs[n].quote].fee
          /\ \A n, k \in DOMAIN legs : legs[n].quote = legs[k].quote => n = k
          /\ Len(legs) <= MaxAnchors /\ Sold(legs) = request.sell
          /\ Net(legs) >= request.floor
    /\ \A n, k \in DOMAIN attempts : attempts[n].anchor = attempts[k].anchor => n = k
    /\ winner \cap excluded = {}

\* The ways to sell the order to the live quotes, and what one of them delivers.
Allocations ==
    {f \in [DOMAIN quotes -> 0..request.sell] :
        /\ \A i \in DOMAIN quotes : f[i] <= (IF i \in Live THEN quotes[i].sell ELSE 0)
        /\ Total(f) = request.sell}
Delivered(f) == Total([i \in DOMAIN quotes |-> Proceeds(i, f[i])])

(* A solver refuses only what cannot be had.  A single quote is refused if *)
(* none keeps the terms; a split whose cap admits every live quote is      *)
(* refused only if no allocation sells the order, or if none meets the     *)
(* floor by more than the rounding of its legs; and a fallback gives up    *)
(* only after all its attempts or when nobody else answers.                *)
RefusalsAreFounded ==
    LET uncapped == answer.by = "multi" /\ request.cap >= Cardinality(Live) IN
    /\ (answer.by \in {"first-match", "scored"} /\ answer.kind # "plan" /\ request.live)
          => Valid = {}
    /\ (uncapped /\ answer.kind = "insufficient_liquidity") => Allocations = {}
    /\ (uncapped /\ answer.kind = "floor_not_met")
          => \A f \in Allocations : Delivered(f) < request.floor + Cardinality(Live)
    /\ (answer.by = "fallback" /\ answer.kind # "plan")
          => Len(attempts) = 1 + MaxFallbackAttempts \/ DOMAIN offered \subseteq excluded
=============================================================================
