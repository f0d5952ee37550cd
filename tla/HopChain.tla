------------------------------- MODULE HopChain -------------------------------
(***************************************************************************)
(* A chain of hops (lib/router/hops.ts) over the three connectors          *)
(* (lib/router/connectors/): planned as a whole, then executed in order up *)
(* to the first failure, whose message advises the user.                   *)
(*                                                                         *)
(* No connector moves funds.  An on-ramp opens a session in which the user *)
(* may pay the anchor; a swap and a supply return a transaction that the   *)
(* wallet may sign.  What the user does with them comes later, or never.   *)
(***************************************************************************)
EXTENDS Naturals, Sequences, SequencesExt

CONSTANTS
    Hop,     \* connector instances
    Type,    \* the type of each hop
    HopId,   \* the id of each hop: two swaps share theirs
    MaxHops  \* bound on the length of a chain

ASSUME HopAssumption ==
    /\ Type \in [Hop -> {"on-ramp", "swap", "yield"}]
    /\ \A h, g \in Hop : HopId[h] = HopId[g] => Type[h] = Type[g]
    /\ MaxHops \in Nat

VARIABLES
    chain,    \* the hops, a sequence
    pc,
    steps,    \* the plan so far
    results,  \* completed: whether each attempt succeeded, and who made it
    advice,   \* the guidance of the message
    handed,   \* steps whose session or transaction the user holds
    moved     \* steps whose funds have moved

hopVars == <<chain, pc, steps, results, advice, handed, moved>>

\* How an asset is named: a currency, a SEP identifier or a contract.
Asset == {"fiat", "sep", "contract"}
PlanStep == [hopId : {HopId[h] : h \in Hop}, input : Asset, output : Asset]
HopAttempt == [ok : BOOLEAN, by : {{}} \cup {{h} : h \in Hop}]

HopTypeOK ==
    /\ chain \in BoundedSeq(Hop, MaxHops)
    /\ pc \in {"planning", "aborted", "planned", "executing", "ok", "failed"}
    /\ steps \in BoundedSeq(PlanStep, MaxHops)
    /\ results \in BoundedSeq(HopAttempt, MaxHops)
    /\ advice \in {"none", "retry_all", "do_not_repeat"}
    /\ handed \subseteq 1..MaxHops /\ moved \subseteq handed

HopInit ==
    /\ chain \in BoundedSeq(Hop, MaxHops)
    /\ pc = "planning" /\ steps = <<>> /\ results = <<>> /\ advice = "none"
    /\ handed = {} /\ moved = {}

-----------------------------------------------------------------------------
(* planHopChain: each hop plans on the output of the hop before it. *)

\* What a connector's plan makes of an asset; it fails on any other.
Plannable(h, asset) == asset = (IF Type[h] = "on-ramp" THEN "fiat" ELSE "contract")
Produces(h) == IF Type[h] = "on-ramp" THEN "sep" ELSE "contract"

EmptyChain ==
    /\ pc = "planning" /\ chain = <<>>
    /\ pc' = "aborted"
    /\ UNCHANGED <<chain, steps, results, advice, handed, moved>>

\* The input of the first hop is the caller's.
PlanHop ==
    /\ pc = "planning" /\ Len(steps) < Len(chain)
    /\ LET h == chain[Len(steps) + 1] IN
       \/ /\ \E input \in (IF steps = <<>> THEN Asset ELSE {Last(steps).output}) :
                /\ Plannable(h, input)
                /\ steps' = Append(steps, [hopId |-> HopId[h], input |-> input,
                                           output |-> Produces(h)])
          /\ pc' = IF Len(steps') = Len(chain) THEN "planned" ELSE pc
       \/ pc' = "aborted" /\ UNCHANGED steps
    /\ UNCHANGED <<chain, results, advice, handed, moved>>

-----------------------------------------------------------------------------
(* executeHopChain, with a list of hops that holds at least some of the    *)
(* chain's.                                                                *)

ExecuteChain ==
    /\ pc = "planned"
    /\ pc' = "executing"
    /\ UNCHANGED <<chain, steps, results, advice, handed, moved>>

\* hopById: of two hops with one id the later is kept.  A caller may pass a
\* list that lacks some hops.
HopById(id) == {chain[i] : i \in {j \in DOMAIN chain : HopId[chain[j]] = id
                        /\ \A k \in (j + 1)..Len(chain) : HopId[chain[k]] # id}}

\* describeExecutionFailure: the failed attempt is the last of `attempts'.
AdviceForEarlier(attempts) ==
    IF \E i \in 1..(Len(attempts) - 2) : attempts[i].ok THEN "do_not_repeat" ELSE "retry_all"
AdviceFor(attempts) ==
    IF \E i \in 1..(Len(attempts) - 1) : attempts[i].ok THEN "do_not_repeat" ELSE "retry_all"

Ends(attempt) ==
    /\ results' = Append(results, attempt)
    /\ IF attempt.ok
       THEN /\ handed' = handed \cup {Len(results')}
            /\ pc' = IF Len(results') = Len(steps) THEN "ok" ELSE pc
            /\ UNCHANGED advice
       ELSE /\ pc' = "failed" /\ advice' = AdviceFor(results')
            /\ UNCHANGED handed

ExecuteHop ==
    /\ pc = "executing"
    /\ LET step == steps[Len(results) + 1] IN
       \/ Ends([ok |-> FALSE, by |-> {}])   \* hop_not_registered
       \/ \E h \in HopById(step.hopId), ok \in BOOLEAN : Ends([ok |-> ok, by |-> {h}])
    /\ UNCHANGED <<chain, steps, moved>>

\* The user pays the anchor, or signs and submits; a transaction whose input is
\* not there yet is refused by the network.
Move(i) ==
    /\ i \in handed \ moved
    /\ i = 1 \/ i - 1 \in moved
    /\ moved' = moved \cup {i}
    /\ UNCHANGED <<chain, pc, steps, results, advice, handed>>

HopNext ==
    \/ EmptyChain \/ PlanHop \/ ExecuteChain \/ ExecuteHop
    \/ \E i \in 1..MaxHops : Move(i)

HopSpec == HopInit /\ [][HopNext]_hopVars

-----------------------------------------------------------------------------
(* A failed chain tells the user that the whole route may be retried only  *)
(* if nothing of it has moved funds and nothing the user holds can still   *)
(* do so (hops.ts:71-74).                                                  *)
RetryAdviceIsSafe == advice = "retry_all" => (handed = {} /\ moved = {})

(* types/index.ts:612: "Execution still stops at the first failed hop so   *)
(* no downstream hop ever spends an output that was never produced."       *)
SpendsOnlyWhatWasProduced ==
    \A i \in 2..Len(results) : results[i].ok => i - 1 \in moved
=============================================================================
