--------------------------- MODULE CorridorOracle ---------------------------
(***************************************************************************)
(* What publishers keep per corridor in the reputation contract            *)
(* (contracts/reputation/src/{score,migration,corridor_rate,               *)
(* volume_savings,probe_signals}.rs), behind the same registries.          *)
(*                                                                         *)
(* The metrics of an anchor in a corridor are stored twice: v1, and v2     *)
(* with the composite score beside them.  An earlier version of the        *)
(* contract wrote v1 only, so a deployment starts with v1 records that     *)
(* nobody has migrated.  A missing v1 record or volume reads as zeros;     *)
(* whether a v2 record or a rate exists is asked, so those are sets of at  *)
(* most one.  Stamps (time and author) decide nothing and are left out.    *)
(***************************************************************************)
EXTENDS Registry, Integers, FiniteSets

CONSTANTS
    Metric,          \* metrics a publisher may send, out of range ones too
    Legacy,          \* metrics the earlier version may have stored
    DefaultCorridor, \* V2_CORRIDORS
    MaxBps,          \* MAX_BPS, 10 000 in the code
    NormSettle,      \* NORM_SETTLE_SECONDS, 300 in the code
    MaxSettle,       \* MAX_SETTLE_SECONDS, 1 000 000 in the code
    Rate,            \* scaled rates a publisher may send, 0 and less too
    Decimals,        \* scales it may send
    MaxDecimals,     \* MAX_DECIMALS, 18 in the code
    MaxAmount,       \* i128::MAX, where checked arithmetic gives up
    Delta,           \* volume and savings increments, negative ones too
    MaxDelta,        \* MAX_DELTA, 10^18 in the code
    MaxCount,        \* u32::MAX, where the settlement count gives up
    Probe            \* probe signals a publisher may send

Metrics(F, S, T, N) == [fill : F, slippage : S, settle : T, n : N]

\* The OutOfRange refusals.
InRange(m) ==
    /\ m.fill \in 0..MaxBps
    /\ m.slippage \in 0..MaxBps
    /\ m.settle <= MaxSettle

ASSUME OracleAssumption ==
    /\ MaxBps \in Nat \ {0} /\ NormSettle \in Nat /\ MaxSettle \in Nat
    /\ Metric \subseteq Metrics(Int, Int, Nat, Nat)
    /\ Legacy \subseteq Metrics(0..MaxBps, 0..MaxBps, 0..MaxSettle, Nat)
    /\ DefaultCorridor \subseteq Corridor
    /\ Rate \cap Nat \subseteq 0..MaxAmount /\ Rate \subseteq Int
    /\ Decimals \subseteq Nat /\ MaxDecimals \in Nat /\ MaxAmount \in Nat
    /\ Delta \subseteq Int
    /\ MaxDelta \in Nat /\ MaxCount \in Nat
    /\ MaxDelta * MaxCount <= MaxAmount
    /\ Probe \subseteq [uptime : Nat, p50 : Nat, p95 : Nat, drift : Nat]

VARIABLES
    v1,      \* Corridor(anchor, corridor)
    v2,      \* CorridorV2(anchor, corridor), optional
    rate,    \* CorridorRate(corridor), optional
    volume,  \* VolumeSavings(corridor)
    probe    \* ProbeSignals(anchor), optional

metricVars == <<v1, v2>>
oracleVars == <<metricVars, rate, volume, probe>>
vars == <<registryVars, oracleVars>>

Stored1 == Metrics(0..MaxBps, 0..MaxBps, 0..MaxSettle, Nat)
Stored2 == [fill : 0..MaxBps, slippage : 0..MaxBps, settle : 0..MaxSettle, n : Nat,
            composite : 0..MaxBps]
AtMostOne(S) == \A x, y \in S : x = y

OracleTypeOK ==
    /\ v1 \in [Anchor -> [Corridor -> Stored1]]
    /\ v2 \in [Anchor -> [Corridor -> SUBSET Stored2]]
    /\ \A a \in Anchor, c \in Corridor : AtMostOne(v2[a][c])
    /\ rate \in [Corridor -> SUBSET [rate : 1..MaxAmount, decimals : 0..MaxDecimals]]
    /\ \A c \in Corridor : AtMostOne(rate[c])
    /\ volume \in [Corridor -> [volume : 0..MaxAmount, savings : 0..MaxAmount, count : 0..MaxCount]]
    /\ probe \in [Anchor -> SUBSET Probe]
    /\ \A a \in Anchor : AtMostOne(probe[a])

TypeOK == RegistryTypeOK /\ OracleTypeOK

Zero == [fill |-> 0, slippage |-> 0, settle |-> 0, n |-> 0]
NoVolume == [volume |-> 0, savings |-> 0, count |-> 0]

Orders(S) ==
    {l \in [1..Cardinality(S) -> S] : \A i, j \in DOMAIN l : l[i] = l[j] => i = j}

\* A new contract, or one that the earlier version leaves behind with its
\* anchors, publishers and v1 records; corridors were not registered then.
Upgraded ==
    /\ anchorTags = Anchor
    /\ anchorList \in Orders(Anchor)
    /\ publisherFlags = Publisher
    /\ publisherList \in Orders(Publisher)
    /\ corridorTags = {} /\ corridorList = <<>> /\ scope = <<>>
    /\ v1 \in [Anchor -> [Corridor -> Legacy \cup {Zero}]]

Init ==
    /\ \/ RegistryInit /\ v1 = [a \in Anchor |-> [c \in Corridor |-> Zero]]
       \/ Upgraded
    /\ v2 = [a \in Anchor |-> [c \in Corridor |-> {}]]
    /\ rate = [c \in Corridor |-> {}]
    /\ volume = [c \in Corridor |-> NoVolume]
    /\ probe = [a \in Anchor |-> {}]

-----------------------------------------------------------------------------
(* The composite score.                                                    *)

ClampBps(x) == IF x < 0 THEN 0 ELSE IF x > MaxBps THEN MaxBps ELSE x

\* MIN_SETTLE_SECONDS is 1: a settle time of 0 counts as one second.  And a
\* score that leaves it at 0.
NormalizeNothing(settle) == settle
NormalizeSettle(settle) == IF settle < 1 THEN 1 ELSE settle

\* Rounded half up; an empty fill rate or a zero denominator scores 0.
Composite(m) ==
    LET fill == ClampBps(m.fill)
        numerator == fill * (MaxBps - ClampBps(m.slippage)) * NormSettle
        denominator == MaxBps * NormalizeSettle(m.settle)
    IN  IF fill = 0 \/ denominator = 0
        THEN 0
        ELSE ClampBps((numerator + denominator \div 2) \div denominator)

Expand(m) ==
    [fill |-> m.fill, slippage |-> m.slippage, settle |-> m.settle, n |-> m.n,
     composite |-> Composite(m)]

-----------------------------------------------------------------------------
(* Metrics and their migration.                                            *)

\* The v2 record a metrics write leaves: the new one, and the one there was.
KeepV2(a, c, m) == v2[a][c]
WriteV2(a, c, m) == {Expand(m)}

\* The corridor of a metrics write need not be registered.
SetCorridorMetrics(p, a, c, m) ==
    /\ MayWrite(p, c)
    /\ a \in anchorTags
    /\ InRange(m)
    /\ v1' = [v1 EXCEPT ![a][c] = m]
    /\ v2' = [v2 EXCEPT ![a][c] = WriteV2(a, c, m)]
    /\ UNCHANGED <<registryVars, rate, volume, probe>>

\* migrate_corridor_unchecked: a pair that has a v2 record is left alone, one
\* without v1 metrics gets a record of zeros.
MigratedPair(a, c) == IF v2[a][c] = {} THEN {Expand(v1[a][c])} ELSE v2[a][c]

\* The pair need not be registered.
MigrateCorridor(a, c) ==
    /\ v2' = [v2 EXCEPT ![a][c] = MigratedPair(a, c)]
    /\ UNCHANGED <<registryVars, v1, rate, volume, probe>>

MigrateAll ==
    /\ v2' = [a \in Anchor |-> [c \in Corridor |->
                 IF (\E i \in 1..Len(anchorList) : anchorList[i] = a) /\ c \in DefaultCorridor
                 THEN MigratedPair(a, c)
                 ELSE v2[a][c]]]
    /\ UNCHANGED <<registryVars, v1, rate, volume, probe>>

-----------------------------------------------------------------------------
(* Rates, volume and probe signals.                                        *)

\* corridors::require_registered (audit M-5).
IsKnown(c) == c \in corridorTags

\* A rate of the same scale may at most double or halve, with the half rounded
\* down; doubling the stored rate must not overflow.
WithinBand(old, new) == 2 * old <= MaxAmount /\ old \div 2 <= new /\ new <= 2 * old

PublishRate(p, c, r, decimals) ==
    /\ MayWrite(p, c)
    /\ IsKnown(c)
    /\ r > 0 /\ decimals <= MaxDecimals
    /\ \A old \in rate[c] : old.decimals = decimals => WithinBand(old.rate, r)
    /\ rate' = [rate EXCEPT ![c] = {[rate |-> r, decimals |-> decimals]}]
    /\ UNCHANGED <<registryVars, metricVars, volume, probe>>

ResetCorridorRate(c) ==
    /\ rate' = [rate EXCEPT ![c] = {}]
    /\ UNCHANGED <<registryVars, metricVars, volume, probe>>

\* A negative increment is refused, and so is one beyond MAX_DELTA.
ValidDelta(d) == d \in 0..MaxDelta

AddVolumeSavings(p, c, v, s) ==
    /\ MayWrite(p, c)
    /\ IsKnown(c)
    /\ ValidDelta(v) /\ ValidDelta(s)
    /\ volume[c].volume + v <= MaxAmount
    /\ volume[c].savings + s <= MaxAmount
    /\ volume[c].count < MaxCount
    /\ volume' = [volume EXCEPT ![c] =
           [volume |-> @.volume + v, savings |-> @.savings + s, count |-> @.count + 1]]
    /\ UNCHANGED <<registryVars, metricVars, rate, probe>>

ResetVolumeSavings(c) ==
    /\ volume' = [volume EXCEPT ![c] = NoVolume]
    /\ UNCHANGED <<registryVars, metricVars, rate, probe>>

\* Probe signals belong to an anchor, so a publisher's scope does not matter.
PublishProbeSignals(p, a, signals) ==
    /\ IsAuthorized(p)
    /\ a \in anchorTags
    /\ signals.uptime <= MaxBps /\ signals.p50 <= signals.p95
    /\ probe' = [probe EXCEPT ![a] = {signals}]
    /\ UNCHANGED <<registryVars, metricVars, rate, volume>>

OracleNext ==
    \/ \E p \in Publisher, a \in Anchor, c \in Corridor, m \in Metric :
           SetCorridorMetrics(p, a, c, m)
    \/ \E a \in Anchor, c \in Corridor : MigrateCorridor(a, c)
    \/ MigrateAll
    \/ \E p \in Publisher, c \in Corridor, r \in Rate, decimals \in Decimals :
           PublishRate(p, c, r, decimals)
    \/ \E c \in Corridor : ResetCorridorRate(c)
    \/ \E p \in Publisher, c \in Corridor, v, s \in Delta : AddVolumeSavings(p, c, v, s)
    \/ \E c \in Corridor : ResetVolumeSavings(c)
    \/ \E p \in Publisher, a \in Anchor, signals \in Probe : PublishProbeSignals(p, a, signals)

Next ==
    \/ RegistryNext /\ UNCHANGED oracleVars
    \/ OracleNext

Spec == Init /\ [][Next]_vars

-----------------------------------------------------------------------------
(* The readers.                                                            *)

\* get_score_for_corridor computes the composite of the v1 record.
ScoreV1(a, c) ==
    LET m == v1[a][c]
    IN  [composite |-> Composite(m), fill |-> m.fill, settle |-> m.settle, n |-> m.n]

\* get_score_for_corridor_v2 answers from the v2 record; without one, or with one
\* whose composite and count are 0, from v1 and with a slippage of 0.
ScoreV2(a, c) ==
    LET used == {m \in v2[a][c] : m.composite # 0 \/ m.n # 0}
        old == ScoreV1(a, c)
    IN  IF used # {}
        THEN CHOOSE m \in used : TRUE
        ELSE [composite |-> old.composite, fill |-> old.fill, slippage |-> 0,
              settle |-> old.settle, n |-> old.n]

-----------------------------------------------------------------------------
(* Properties.                                                             *)

\* "Writing both keys keeps the two views in lock-step": whatever the order of
\* migrations and metric writes, on a new contract or an upgraded one, readers of
\* v1 and v2 see the same score, fill rate, settle time and count.
ViewsAgree ==
    \A a \in Anchor, c \in Corridor, f \in {"composite", "fill", "settle", "n"} :
        ScoreV2(a, c)[f] = ScoreV1(a, c)[f]

\* The published score ranks: metrics at least as good in every respect never
\* score lower than the record, nor worse ones higher, through clamping, rounding
\* and the settle time of 0.
AtLeastAsGood(m, other) ==
    m.fill >= other.fill /\ m.slippage <= other.slippage /\ m.settle <= other.settle
BetterNeverScoresLower ==
    \A a \in Anchor, c \in Corridor, m \in Metric :
        InRange(m) =>
            /\ AtLeastAsGood(m, v1[a][c]) => Composite(m) >= ScoreV2(a, c).composite
            /\ AtLeastAsGood(v1[a][c], m) => Composite(m) <= ScoreV2(a, c).composite

\* "The cap keeps the cumulative accumulators away from overflow": only the u32
\* count can ever refuse a valid increment.
OnlyTheCountRefusesVolume ==
    \A c \in Corridor, v \in 0..MaxDelta :
        volume[c].count < MaxCount =>
            volume[c].volume + v <= MaxAmount /\ volume[c].savings + v <= MaxAmount

\* No publisher creates entries under corridor ids nobody registered (audit M-5).
RecordsAreRegistered ==
    \A c \in Corridor : rate[c] # {} \/ volume[c].count > 0 => c \in corridorTags

\* No single step moves a published rate of one scale by more than a factor of
\* two and rounding; further moves need the admin's reset in between.
RateMovesAreBounded ==
    [][\A c \in Corridor : \A old \in rate[c], new \in rate'[c] :
          old.decimals = new.decimals =>
              new.rate <= 2 * old.rate /\ old.rate <= 2 * new.rate + 1]_vars
=============================================================================
