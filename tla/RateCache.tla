------------------------------ MODULE RateCache ------------------------------
(***************************************************************************)
(* The rate comparisons an instance keeps (lib/api/rate-cache.ts), as      *)
(* resolveCorridorRates and the admin's invalidation route use them.       *)
(*                                                                         *)
(* A request awaits a fetch only after a miss; behind a stale answer the   *)
(* fetch is started and left.  Fetches of all requests overlap, and what   *)
(* they return is stored in the order they return.                         *)
(*                                                                         *)
(* An anchor is degraded for as long as its deployment runs, and is never  *)
(* quoted then: a comparison that holds a degraded anchor, which the       *)
(* resolver would drop, cannot have been stored.                           *)
(***************************************************************************)
EXTENDS Naturals, FiniteSets

CONSTANTS
    Key,         \* corridor and amount
    Anchor,
    FreshTTL,    \* FRESH_TTL_MS, in ticks
    StaleTTL,    \* STALE_TTL_MS, in ticks
    MaxFetches,  \* bound on the fetches of a key that run at once
    MaxClears,   \* bound on the calls of clearRateCache
    MaxTime      \* bound on the clock

ASSUME CacheAssumption ==
    /\ FreshTTL \in Nat \ {0} /\ StaleTTL \in Nat /\ FreshTTL < StaleTTL
    /\ MaxFetches \in Nat /\ MaxClears \in Nat /\ MaxTime \in Nat

VARIABLES
    clock,
    entries,     \* cache.entries, at most one entry for a key
    index,       \* cache.anchorIndex: the keys of each anchor
    inFlight,    \* the keys with a promise in inFlight
    refreshing,  \* refreshes in progress behind a stale answer, by key
    fetching,    \* fetches a request waits for, by key
    clears       \* calls of clearRateCache

vars == <<clock, entries, index, inFlight, refreshing, fetching, clears>>
fetches == <<refreshing, fetching>>

Entry == [anchors : (SUBSET Anchor) \ {{}}, freshUntil : Nat, staleUntil : Nat]

TypeOK ==
    /\ clock \in 0..MaxTime
    /\ entries \in [Key -> SUBSET Entry] /\ \A k \in Key : Cardinality(entries[k]) <= 1
    /\ index \in [Anchor -> SUBSET Key]
    /\ inFlight \subseteq Key
    /\ refreshing \in [Key -> 0..MaxFetches]
    /\ fetching \in [Key -> 0..MaxFetches]
    /\ clears \in 0..MaxClears

Init ==
    /\ clock = 0
    /\ entries = [k \in Key |-> {}]
    /\ index = [a \in Anchor |-> {}]
    /\ inFlight = {}
    /\ refreshing = [k \in Key |-> 0]
    /\ fetching = [k \in Key |-> 0]
    /\ clears = 0

-----------------------------------------------------------------------------
(* pruneExpired comes first in every operation but clearRateCache.         *)

Expired == {k \in Key : \E e \in entries[k] : e.staleUntil <= clock}

\* removeEntry of each key of `keys'.
RemoveKeys(keys) ==
    /\ entries' = [k \in Key |-> IF k \in keys THEN {} ELSE entries[k]]
    /\ index' = [a \in Anchor |-> index[a] \ keys]

Fresh(k) == \E e \in entries[k] : clock < e.freshUntil
Stale(k) == k \notin Expired /\ \E e \in entries[k] : clock >= e.freshUntil
Miss(k) == k \in Expired \/ entries[k] = {}

-----------------------------------------------------------------------------
(* resolveCorridorRates(k). *)

AnswerFresh(k) ==
    /\ Fresh(k)
    /\ RemoveKeys(Expired)
    /\ UNCHANGED <<clock, inFlight, fetches, clears>>

\* reviveInBackground.
ReviveAlways(k) ==
    /\ refreshing[k] < MaxFetches
    /\ inFlight' = inFlight \cup {k}
    /\ refreshing' = [refreshing EXCEPT ![k] = @ + 1]
Revive(k) ==
    IF k \in inFlight
    THEN UNCHANGED <<inFlight, refreshing>>
    ELSE /\ refreshing[k] < MaxFetches
         /\ inFlight' = inFlight \cup {k}
         /\ refreshing' = [refreshing EXCEPT ![k] = @ + 1]

AnswerStale(k) ==
    /\ Stale(k)
    /\ RemoveKeys(Expired)
    /\ Revive(k)
    /\ UNCHANGED <<clock, fetching, clears>>

BeginFetch(k) ==
    /\ fetching[k] < MaxFetches
    /\ fetching' = [fetching EXCEPT ![k] = @ + 1]
    /\ UNCHANGED <<clock, inFlight, refreshing, clears>>

AnswerMiss(k) == Miss(k) /\ RemoveKeys(Expired) /\ BeginFetch(k)

ForceRefresh(k) == BeginFetch(k) /\ UNCHANGED <<entries, index>>

-----------------------------------------------------------------------------
(* setCachedRate(k, _, quoted), which neither caller does without a quote. *)

SetIndexAfresh(k, quoted) ==
    /\ entries' = [entries EXCEPT ![k] =
            {[anchors |-> quoted, freshUntil |-> clock + FreshTTL,
              staleUntil |-> clock + StaleTTL]}]
    /\ index' = [a \in Anchor |-> IF a \in quoted THEN {k} ELSE index[a]]
SetCachedRate(k, quoted) ==
    /\ entries' = [l \in Key |->
            IF l = k THEN {[anchors |-> quoted, freshUntil |-> clock + FreshTTL,
                            staleUntil |-> clock + StaleTTL]}
            ELSE IF l \in Expired THEN {} ELSE entries[l]]
    /\ index' = [a \in Anchor |-> (index[a] \ Expired)
                                  \cup (IF a \in quoted THEN {k} ELSE {})]

Store(k, quoted) ==
    IF quoted # {} THEN SetCachedRate(k, quoted) ELSE UNCHANGED <<entries, index>>

\* No quote stands for a fetch that fails, too.
Fetched(k) ==
    /\ fetching[k] > 0
    /\ fetching' = [fetching EXCEPT ![k] = @ - 1]
    /\ \E quoted \in SUBSET Anchor : Store(k, quoted)
    /\ UNCHANGED <<clock, inFlight, refreshing, clears>>

\* `finally' removes the key whosever promise is there by now.
Refreshed(k) ==
    /\ refreshing[k] > 0
    /\ refreshing' = [refreshing EXCEPT ![k] = @ - 1]
    /\ inFlight' = inFlight \ {k}
    /\ \E quoted \in SUBSET Anchor : Store(k, quoted)
    /\ UNCHANGED <<clock, fetching, clears>>

-----------------------------------------------------------------------------
(* POST /api/admin/cache/invalidate. *)

InvalidateAnchor(a) ==
    /\ RemoveKeys(Expired \cup index[a])
    /\ UNCHANGED <<clock, inFlight, fetches, clears>>

ClearRateCache ==
    /\ clears < MaxClears
    /\ clears' = clears + 1
    /\ entries' = [k \in Key |-> {}]
    /\ index' = [a \in Anchor |-> {}]
    /\ inFlight' = {}
    /\ UNCHANGED <<clock, fetches>>

Tick ==
    /\ clock < MaxTime
    /\ clock' = clock + 1
    /\ UNCHANGED <<entries, index, inFlight, fetches, clears>>

Next ==
    \/ \E k \in Key : \/ AnswerFresh(k) \/ AnswerStale(k) \/ AnswerMiss(k)
                      \/ ForceRefresh(k) \/ Fetched(k) \/ Refreshed(k)
    \/ \E a \in Anchor : InvalidateAnchor(a)
    \/ ClearRateCache
    \/ Tick

Spec == Init /\ [][Next]_vars

-----------------------------------------------------------------------------
(* However fetches and invalidations overlap, the index knows every entry  *)
(* an anchor's quote is in: invalidating the anchor leaves no entry with   *)
(* its quote behind (rate-cache.ts:54-62, 105-121).                        *)
InvalidationReachesAll ==
    \A k \in Key : \A e \in entries[k] : \A a \in e.anchors : k \in index[a]

(* A stale key is refreshed by one fetch at a time, and each clearing of   *)
(* the cache may add one: the clearing forgets the refresh in progress,    *)
(* which then forgets its successor (rate-cache.ts:134-173).               *)
RefreshesAreFew ==
    \A k \in Key : refreshing[k] + (IF k \in inFlight THEN 0 ELSE 1) <= clears + 1
=============================================================================
