---------------------------- MODULE ServicesProofs ----------------------------
(***************************************************************************)
(* Proofs about the services that MCServices runs, each for any values of  *)
(* its constants: the rate cache, the deposits of a browser, the hops of a *)
(* route, webhooks, recurring intents and the router.  (ScheduledProofs    *)
(* has the others.)  At the end, about the run itself: whichever service   *)
(* it chooses keeps to that service's own specification.                   *)
(***************************************************************************)
EXTENDS MCServices, ScheduledProofs

-----------------------------------------------------------------------------
(* The rate cache.  Both properties are inductive together with the types: *)
(* an entry is only ever dropped together with its key in every index set, *)
(* and a refresh starts only where no mark is, which a clearing alone can  *)
(* take away.                                                              *)

\* The part of the types that the stored comparisons are about.
StoredOK ==
    /\ entries \in [Key -> SUBSET Entry] /\ \A k \in Key : Cardinality(entries[k]) <= 1
    /\ index \in [Anchor -> SUBSET Key]

\* Dropping keys from the entries and from the index of every anchor
\* (rate-cache.ts:54-71) keeps their types and leaves no entry unindexed.
LEMMA RemoveKeeps ==
    ASSUME StoredOK, InvalidationReachesAll, NEW keys, RemoveKeys(keys)
    PROVE  StoredOK' /\ InvalidationReachesAll'
<1>1. entries' \in [Key -> SUBSET Entry] /\ index' \in [Anchor -> SUBSET Key]
  BY DEF StoredOK, RemoveKeys
<1>2. ASSUME NEW k \in Key PROVE Cardinality(entries'[k]) <= 1
  <2>1. CASE k \in keys
    <3>1. entries'[k] = {}
      BY <2>1 DEF RemoveKeys
    <3> QED BY <3>1, FS_EmptySet
  <2>2. CASE k \notin keys
    BY <2>2 DEF RemoveKeys, StoredOK
  <2> QED BY <2>1, <2>2
<1>3. ASSUME NEW k \in Key, NEW e \in entries'[k], NEW a \in e.anchors
      PROVE  k \in index'[a]
  <2>1. k \notin keys /\ e \in entries[k]
    BY <1>3 DEF RemoveKeys
  <2>2. a \in Anchor
    BY <2>1 DEF StoredOK, Entry
  <2>3. k \in index[a]
    BY <2>1 DEF InvalidationReachesAll
  <2> QED BY <2>1, <2>2, <2>3 DEF RemoveKeys
<1> QED BY <1>1, <1>2, <1>3 DEF StoredOK, InvalidationReachesAll

\* Storing a comparison (rate-cache.ts:93-110) indexes it under every anchor it
\* quotes and keeps the index of what is not expired.
LEMMA StoreKeeps ==
    ASSUME StoredOK, InvalidationReachesAll, clock \in Nat,
           NEW k \in Key, NEW quoted \in SUBSET Anchor, Store(k, quoted)
    PROVE  StoredOK' /\ InvalidationReachesAll'
<1>1. CASE quoted = {}
  BY <1>1 DEF Store, StoredOK, InvalidationReachesAll
<1>2. CASE quoted # {}
  <2> DEFINE new == [anchors |-> quoted, freshUntil |-> clock + FreshTTL,
                     staleUntil |-> clock + StaleTTL]
  <2>0. new \in Entry
    BY <1>2, CacheAssumption DEF Entry
  <2>1. /\ entries' = [l \in Key |-> IF l = k THEN {new}
                                     ELSE IF l \in Expired THEN {} ELSE entries[l]]
        /\ index' = [a \in Anchor |-> (index[a] \ Expired)
                                      \cup (IF a \in quoted THEN {k} ELSE {})]
    BY <1>2 DEF Store, SetCachedRate
  <2> HIDE DEF new
  <2>2. entries' \in [Key -> SUBSET Entry] /\ index' \in [Anchor -> SUBSET Key]
    BY <2>0, <2>1 DEF StoredOK
  <2>3. ASSUME NEW l \in Key PROVE Cardinality(entries'[l]) <= 1
    <3>1. CASE l = k
      <4>1. entries'[l] = {new}
        BY <2>1, <3>1
      <4> QED BY <4>1, FS_Singleton
    <3>2. CASE l # k /\ l \in Expired
      <4>1. entries'[l] = {}
        BY <2>1, <3>2
      <4> QED BY <4>1, FS_EmptySet
    <3>3. CASE l # k /\ l \notin Expired
      BY <2>1, <3>3 DEF StoredOK
    <3> QED BY <3>1, <3>2, <3>3
  <2>4. ASSUME NEW l \in Key, NEW e \in entries'[l], NEW a \in e.anchors
        PROVE  l \in index'[a]
    <3>0. a \in Anchor
      BY <2>2 DEF Entry
    <3>1. CASE l = k
      <4>1. e = new
        BY <2>1, <3>1
      <4>2. a \in quoted
        BY <4>1 DEF new
      <4> QED BY <2>1, <3>0, <3>1, <4>2
    <3>2. CASE l # k
      <4>1. l \notin Expired /\ e \in entries[l]
        BY <2>1, <3>2
      <4>2. l \in index[a]
        BY <4>1 DEF InvalidationReachesAll
      <4> QED BY <2>1, <3>0, <4>1, <4>2
    <3> QED BY <3>1, <3>2
  <2> QED BY <2>2, <2>3, <2>4 DEF StoredOK, InvalidationReachesAll
<1> QED BY <1>1, <1>2

CacheInv == TypeOK /\ InvalidationReachesAll /\ RefreshesAreFew

LEMMA CacheInvInit == Init => CacheInv
<1> SUFFICES ASSUME Init PROVE CacheInv
  OBVIOUS
<1>1. \A k \in Key : Cardinality(entries[k]) <= 1
  BY FS_EmptySet DEF Init
<1>2. TypeOK
  BY <1>1, CacheAssumption DEF Init, TypeOK
<1>3. InvalidationReachesAll
  BY DEF Init, InvalidationReachesAll
<1>4. RefreshesAreFew
  BY DEF Init, RefreshesAreFew
<1> QED BY <1>2, <1>3, <1>4 DEF CacheInv


\* A step that leaves entries and index alone.
LEMMA StoredStutters ==
    ASSUME StoredOK, InvalidationReachesAll, UNCHANGED <<entries, index>>
    PROVE  StoredOK' /\ InvalidationReachesAll'
BY DEF StoredOK, InvalidationReachesAll

\* What every step does to the stored comparisons.
LEMMA StoredStep ==
    ASSUME TypeOK, InvalidationReachesAll, [Next]_vars
    PROVE  StoredOK' /\ InvalidationReachesAll'
<1>0. StoredOK /\ clock \in Nat
  BY DEF TypeOK, StoredOK
<1>1. CASE \E k \in Key : AnswerFresh(k) \/ AnswerStale(k) \/ AnswerMiss(k)
  <2>1. RemoveKeys(Expired)
    BY <1>1 DEF AnswerFresh, AnswerStale, AnswerMiss
  <2> QED BY <1>0, <2>1, RemoveKeeps
<1>2. CASE \E k \in Key : Fetched(k) \/ Refreshed(k)
  <2>1. PICK k \in Key : \E quoted \in SUBSET Anchor : Store(k, quoted)
    BY <1>2 DEF Fetched, Refreshed
  <2>2. PICK quoted \in SUBSET Anchor : Store(k, quoted)
    BY <2>1
  <2> QED BY <1>0, <2>2, StoreKeeps
<1>3. CASE \E a \in Anchor : InvalidateAnchor(a)
  <2>1. PICK a \in Anchor : RemoveKeys(Expired \cup index[a])
    BY <1>3 DEF InvalidateAnchor
  <2> QED BY <1>0, <2>1, RemoveKeeps
<1>4. CASE ClearRateCache
  <2>1. entries' = [k \in Key |-> {}] /\ index' = [a \in Anchor |-> {}]
    BY <1>4 DEF ClearRateCache
  <2>2. \A k \in Key : Cardinality(entries'[k]) <= 1
    BY <2>1, FS_EmptySet
  <2> QED BY <2>1, <2>2 DEF StoredOK, InvalidationReachesAll
<1>5. CASE \E k \in Key : ForceRefresh(k)
  BY <1>0, <1>5, StoredStutters DEF ForceRefresh
<1>6. CASE Tick \/ UNCHANGED vars
  BY <1>0, <1>6, StoredStutters DEF Tick, vars
<1> QED BY <1>1, <1>2, <1>3, <1>4, <1>5, <1>6 DEF Next

CountersOK ==
    /\ clock \in 0..MaxTime /\ inFlight \subseteq Key /\ clears \in 0..MaxClears
    /\ refreshing \in [Key -> 0..MaxFetches] /\ fetching \in [Key -> 0..MaxFetches]

\* What every step does to the marks and counts of running fetches.
LEMMA CountersStep ==
    ASSUME TypeOK, RefreshesAreFew, [Next]_vars
    PROVE  CountersOK' /\ RefreshesAreFew'
<1>0. CountersOK
  BY DEF TypeOK, CountersOK
<1>a. \A k \in Key : refreshing[k] \in 0..MaxFetches /\ fetching[k] \in 0..MaxFetches
  BY <1>0 DEF CountersOK
<1>1. CASE \E k \in Key : AnswerFresh(k)
  BY <1>0, <1>1 DEF AnswerFresh, fetches, CountersOK, RefreshesAreFew
<1>2. ASSUME NEW k \in Key, AnswerStale(k) PROVE CountersOK' /\ RefreshesAreFew'
  <2>0. UNCHANGED <<clock, fetching, clears>>
    BY <1>2 DEF AnswerStale
  <2>1. CASE k \in inFlight
    <3>1. UNCHANGED <<inFlight, refreshing>>
      BY <1>2, <2>1 DEF AnswerStale, Revive
    <3> QED BY <1>0, <2>0, <3>1 DEF CountersOK, RefreshesAreFew
  <2>2. CASE k \notin inFlight
    <3>1. /\ refreshing[k] < MaxFetches /\ inFlight' = inFlight \cup {k}
          /\ refreshing' = [refreshing EXCEPT ![k] = @ + 1]
      BY <1>2, <2>2 DEF AnswerStale, Revive
    <3>2. CountersOK'
      BY <1>0, <1>a, <2>0, <3>1, CacheAssumption DEF CountersOK
    <3>3. ASSUME NEW l \in Key
          PROVE  refreshing'[l] + (IF l \in inFlight' THEN 0 ELSE 1) <= clears' + 1
      <4>0. refreshing[l] + (IF l \in inFlight THEN 0 ELSE 1) <= clears + 1
        BY DEF RefreshesAreFew
      <4>1. CASE l = k
        <5>1. refreshing'[l] = refreshing[k] + 1 /\ l \in inFlight'
          BY <1>0, <3>1, <4>1 DEF CountersOK
        <5> QED BY <1>a, <2>0, <2>2, <4>0, <4>1, <5>1
      <4>2. CASE l # k
        <5>1. refreshing'[l] = refreshing[l] /\ (l \in inFlight' <=> l \in inFlight)
          BY <1>0, <3>1, <4>2 DEF CountersOK
        <5> QED BY <2>0, <4>0, <5>1
      <4> QED BY <4>1, <4>2
    <3> QED BY <3>2, <3>3 DEF RefreshesAreFew
  <2> QED BY <2>1, <2>2
<1>3. ASSUME NEW k \in Key, AnswerMiss(k) \/ ForceRefresh(k)
      PROVE  CountersOK' /\ RefreshesAreFew'
  <2>1. BeginFetch(k)
    BY <1>3 DEF AnswerMiss, ForceRefresh
  <2> QED BY <1>0, <1>a, <2>1, CacheAssumption DEF BeginFetch, CountersOK, RefreshesAreFew
<1>4. ASSUME NEW k \in Key, Fetched(k) PROVE CountersOK' /\ RefreshesAreFew'
  BY <1>0, <1>a, <1>4, CacheAssumption DEF Fetched, CountersOK, RefreshesAreFew
<1>5. ASSUME NEW k \in Key, Refreshed(k) PROVE CountersOK' /\ RefreshesAreFew'
  <2>1. /\ refreshing[k] > 0 /\ refreshing' = [refreshing EXCEPT ![k] = @ - 1]
        /\ inFlight' = inFlight \ {k} /\ UNCHANGED <<clock, fetching, clears>>
    BY <1>5 DEF Refreshed
  <2>2. CountersOK'
    BY <1>0, <1>a, <2>1, CacheAssumption DEF CountersOK
  <2>3. ASSUME NEW l \in Key
        PROVE  refreshing'[l] + (IF l \in inFlight' THEN 0 ELSE 1) <= clears' + 1
    <3>0. refreshing[l] + (IF l \in inFlight THEN 0 ELSE 1) <= clears + 1
      BY DEF RefreshesAreFew
    <3>b. clears \in Nat /\ refreshing[l] \in Nat
      BY <1>0, <1>a, CacheAssumption DEF CountersOK
    <3>1. CASE l = k
      <4>1. refreshing'[l] = refreshing[l] - 1 /\ l \notin inFlight'
        BY <1>0, <2>1, <3>1 DEF CountersOK
      <4>2. refreshing[l] <= clears + 1
        BY <3>0, <3>b
      <4> QED BY <2>1, <3>b, <4>1, <4>2
    <3>2. CASE l # k
      <4>1. refreshing'[l] = refreshing[l] /\ (l \in inFlight' <=> l \in inFlight)
        BY <1>0, <2>1, <3>2 DEF CountersOK
      <4> QED BY <2>1, <3>0, <4>1
    <3> QED BY <3>1, <3>2
  <2> QED BY <2>2, <2>3 DEF RefreshesAreFew
<1>6. CASE \E a \in Anchor : InvalidateAnchor(a)
  BY <1>0, <1>6 DEF InvalidateAnchor, fetches, CountersOK, RefreshesAreFew
<1>7. CASE ClearRateCache
  <2>1. /\ clears < MaxClears /\ clears' = clears + 1 /\ inFlight' = {}
        /\ UNCHANGED <<clock, refreshing, fetching>>
    BY <1>7 DEF ClearRateCache, fetches
  <2>2. CountersOK'
    BY <1>0, <2>1, CacheAssumption DEF CountersOK
  <2>3. ASSUME NEW l \in Key
        PROVE  refreshing'[l] + (IF l \in inFlight' THEN 0 ELSE 1) <= clears' + 1
    <3>0. refreshing[l] + (IF l \in inFlight THEN 0 ELSE 1) <= clears + 1
      BY DEF RefreshesAreFew
    <3>1. clears \in Nat /\ refreshing[l] \in Nat
      BY <1>0, <1>a, CacheAssumption DEF CountersOK
    <3> QED BY <2>1, <3>0, <3>1
  <2> QED BY <2>2, <2>3 DEF RefreshesAreFew
<1>8. CASE Tick
  BY <1>0, <1>8, CacheAssumption DEF Tick, fetches, CountersOK, RefreshesAreFew
<1>9. CASE UNCHANGED vars
  BY <1>0, <1>9 DEF vars, CountersOK, RefreshesAreFew
<1> QED BY <1>1, <1>2, <1>3, <1>4, <1>5, <1>6, <1>7, <1>8, <1>9 DEF Next

\* Every state of the cache (rate-cache.ts) keeps its types and both properties.
THEOREM CacheInvariant == Spec => []CacheInv
<1>1. Init => CacheInv
  BY CacheInvInit
<1>2. CacheInv /\ [Next]_vars => CacheInv'
  <2> SUFFICES ASSUME CacheInv, [Next]_vars PROVE CacheInv'
    OBVIOUS
  <2>1. StoredOK' /\ InvalidationReachesAll'
    BY StoredStep DEF CacheInv
  <2>2. CountersOK' /\ RefreshesAreFew'
    BY CountersStep DEF CacheInv
  <2>3. TypeOK'
    BY <2>1, <2>2 DEF TypeOK, StoredOK, CountersOK
  <2> QED BY <2>1, <2>2, <2>3 DEF CacheInv
<1> QED BY <1>1, <1>2, PTL DEF Spec

\* Invalidating an anchor leaves no stored comparison with its quote behind,
\* however fetches and invalidations overlap (rate-cache.ts:54-62, 105-121).
THEOREM InvalidationReachesAllHolds == Spec => []InvalidationReachesAll
BY CacheInvariant, PTL DEF CacheInv

\* A stale key is refreshed by at most one fetch more than there were clearings
\* (rate-cache.ts:134-173).
THEOREM RefreshesAreFewHolds == Spec => []RefreshesAreFew
BY CacheInvariant, PTL DEF CacheInv

-----------------------------------------------------------------------------
(* A reload.  The URL of the page holds the deposit it follows, and no     *)
(* other once it was seen to end; so what leaving the page finds by its    *)
(* URL is that deposit or none.                                            *)

AddressIsTracked ==
    /\ tracking # None /\ ~seen => address = tracking
    /\ seen => address = None

\* What leaves the page's parameters and its tracked deposit alone keeps the address.
LEMMA PageUntouched ==
    ASSUME AddressIsTracked, UNCHANGED <<tracking, seen, address>>
    PROVE  AddressIsTracked'
BY DEF AddressIsTracked

\* The page comes back with what it finds (app/onramp/page.tsx, the restoring effect).
LEMMA LeaveFinds ==
    ASSUME NEW ends, NEW url, Leave(ends, url)
    PROVE  AddressIsTracked'
<1>1. /\ address' = url /\ tracking' = IF url \in stored THEN url ELSE None
      /\ seen' = FALSE
  BY DEF Leave
<1> QED BY <1>1 DEF AddressIsTracked

\* Every step keeps the address of the deposit that is tracked.
LEMMA ReloadStep == AddressIsTracked /\ [DepositNext]_depositVars => AddressIsTracked'
<1> SUFFICES ASSUME AddressIsTracked, [DepositNext]_depositVars PROVE AddressIsTracked'
  OBVIOUS
<1>1. CASE \/ HandleSelectAnchor \/ OnClose \/ AskConsent \/ ConsentDecline \/ PreflightRetry
           \/ \E w \in Wallet : SwitchWallet(w) \/ Improve(w)
           \/ UNCHANGED depositVars
  BY <1>1, PageUntouched DEF HandleSelectAnchor, OnClose, AskConsent, ConsentDecline,
     PreflightRetry, SwitchWallet, Improve, depositVars, page
<1>2. CASE \E f \in Deposit : DepositStep(f)
  <2>1. PICK f \in Deposit : DepositStep(f)
    BY <1>2
  <2>2. CASE KycComplete(f)
    BY <2>2 DEF KycComplete, HandleDepositStarted, NewAddress, AddressIsTracked
  <2>3. CASE SignIntent(f)
    BY <2>3, PageUntouched DEF SignIntent
  <2>4. CASE \/ HandleDeposit(f) \/ HandleConsentAccept(f) \/ HandleCancel(f)
             \/ CheckDepositPreflight(f) \/ AddTrustline(f)
             \/ Authenticate(f) \/ StartDepositFlow(f) \/ KycError(f) \/ Settle(f)
    BY <2>4, PageUntouched DEF HandleDeposit, HandleConsentAccept, HandleCancel,
       CheckDepositPreflight, AddTrustline, Authenticate, StartDepositFlow, KycError,
       Settle, page
  <2> QED BY <2>1, <2>2, <2>3, <2>4 DEF DepositStep
<1>3. CASE Poll \/ HandleStartAnother
  BY <1>3 DEF Poll, HandleStartAnother, AddressIsTracked
<1>4. CASE Unmount \/ Reload
  BY <1>4, LeaveFinds DEF Unmount, Reload
<1> QED BY <1>1, <1>2, <1>3, <1>4 DEF DepositNext

\* Leaving the page with the URL of the deposit it follows comes back to that deposit
\* where the storage took its token, and otherwise to none.
LEMMA LeavingFinds ==
    ASSUME AddressIsTracked, [DepositNext]_depositVars
    PROVE  /\ Reload /\ tracking # None /\ ~seen
                  => tracking' = IF tracking \in stored THEN tracking ELSE None
           /\ Unmount /\ tracking # None => tracking' \in {None, tracking}
<1>1. ASSUME Reload, tracking # None, ~seen
      PROVE  tracking' = IF tracking \in stored THEN tracking ELSE None
  <2>1. tracking' = IF address \in stored THEN address ELSE None
    BY <1>1 DEF Reload, Leave
  <2>2. address = tracking
    BY <1>1 DEF AddressIsTracked
  <2> QED BY <2>1, <2>2
<1>2. ASSUME Unmount, tracking # None PROVE tracking' \in {None, tracking}
  <2>1. PICK url \in {None, address} : tracking' = IF url \in stored THEN url ELSE None
    BY <1>2 DEF Unmount, Leave
  <2>2. url \in {None, tracking}
    BY <1>2, <2>1 DEF AddressIsTracked
  <2> QED BY <2>1, <2>2
<1> QED BY <1>1, <1>2

\* Leaving the page never comes back to another deposit, and a reload comes back to the
\* one followed whenever the storage took its token (app/onramp/page.tsx,
\* lib/session.ts).
THEOREM ReloadsAlwaysFindTheDeposit == DepositSpec => ReloadsFindTheDeposit
<1>1. DepositInit => AddressIsTracked
  BY DEF DepositInit, AddressIsTracked
<1>2. AddressIsTracked /\ [DepositNext]_depositVars
        => [ /\ Reload /\ tracking # None /\ ~seen
                  => tracking' = IF tracking \in stored THEN tracking ELSE None
             /\ Unmount /\ tracking # None => tracking' \in {None, tracking} ]_depositVars
  BY LeavingFinds
<1> QED BY <1>1, <1>2, ReloadStep, PTL DEF DepositSpec, ReloadsFindTheDeposit

-----------------------------------------------------------------------------
(* What an open deposit pays to.  PayoutsCanLand speaks of the deposits    *)
(* the anchor has opened; LandInv follows each one there from its check,   *)
(* which is of the wallet connected then.                                  *)

\* The part of the types the payees are about.
PayeeTypes ==
    /\ wallet \in Wallet \cup {Disconnected}
    /\ standing \in [Wallet -> Standing]
    /\ deposit \in [Deposit -> Await \cup {"unused", "over"}]
    /\ payee \in [Deposit -> Wallet \cup {Disconnected}]
    /\ opened \subseteq Deposit

\* A deposit is begun from an open drawer, which opens for a connected wallet.
Connected ==
    /\ open \/ consent => wallet \in Wallet
    /\ \A f \in Deposit : deposit[f] # "unused" => payee[f] \in Wallet

\* The check is of the payee, unless the wallet was switched, and one that is passed
\* stays so: whatever happens to an account here only improves it.
CheckedIsReady ==
    \A f \in Deposit \ switched :
        /\ deposit[f] = "preflight" => payee[f] = wallet
        /\ deposit[f] \in {"auth", "initiate", "interactive"} => standing[payee[f]] = "ready"

OpenedIsReady == \A f \in opened : deposit[f] # "unused" /\ f \in Deposit

LandInv == PayeeTypes /\ Connected /\ CheckedIsReady /\ OpenedIsReady /\ PayoutsCanLand

\* What begins no deposit, takes none further along and switches no wallet.
LEMMA LandUntouched ==
    ASSUME LandInv, UNCHANGED <<wallet, standing, payee, switched, opened>>,
           open' \/ consent' => open \/ consent,
           deposit' \in [Deposit -> Await \cup {"unused", "over"}],
           \A f \in Deposit : \/ deposit'[f] = deposit[f]
                              \/ deposit'[f] = "over" /\ deposit[f] # "unused"
                              \/ /\ deposit[f] \in {"auth", "initiate"}
                                 /\ deposit'[f] \in {"initiate", "interactive"}
    PROVE  LandInv'
<1>1. PayeeTypes'
  BY DEF LandInv, PayeeTypes
<1>2. Connected'
  BY DEF LandInv, Connected
<1>3. CheckedIsReady'
  BY DEF LandInv, CheckedIsReady
<1>4. OpenedIsReady' /\ PayoutsCanLand'
  BY DEF LandInv, OpenedIsReady, PayoutsCanLand
<1> QED BY <1>1, <1>2, <1>3, <1>4 DEF LandInv

\* One deposit that moves on (the setters of DepositDrawer.tsx).
LEMMA LandGoes ==
    ASSUME LandInv, UNCHANGED <<wallet, standing, payee, switched, opened>>,
           open' \/ consent' => open \/ consent,
           NEW f \in Deposit, NEW to, Goes(f, to),
           \/ to = "over" /\ deposit[f] # "unused"
           \/ deposit[f] \in {"auth", "initiate"} /\ to \in {"initiate", "interactive"}
    PROVE  LandInv'
<1>1. deposit' = [deposit EXCEPT ![f] = to] /\ to \in Await \cup {"over"}
  BY DEF Goes, Await
<1>2. deposit' \in [Deposit -> Await \cup {"unused", "over"}]
  BY <1>1 DEF LandInv, PayeeTypes
<1>3. \A g \in Deposit : g # f => deposit'[g] = deposit[g]
  BY <1>1 DEF LandInv, PayeeTypes
<1>4. deposit'[f] = to
  BY <1>1 DEF LandInv, PayeeTypes
<1> QED BY <1>2, <1>3, <1>4, LandUntouched

\* Standing only improves (TrustlinePreflight.tsx adds the line; everything else that
\* happens to an account comes from outside).
LEMMA LandImproves ==
    ASSUME LandInv, UNCHANGED <<wallet, payee, switched, opened, open, consent, deposit>>,
           standing' \in [Wallet -> Standing],
           \A w \in Wallet : standing[w] = "ready" => standing'[w] = "ready"
    PROVE  LandInv'
<1>1. PayeeTypes' /\ Connected' /\ OpenedIsReady'
  BY DEF LandInv, PayeeTypes, Connected, OpenedIsReady
<1>2. CheckedIsReady'
  BY DEF LandInv, CheckedIsReady, Connected
<1>3. PayoutsCanLand'
  BY DEF LandInv, PayoutsCanLand, OpenedIsReady, Connected
<1> QED BY <1>1, <1>2, <1>3 DEF LandInv

\* A deposit is begun for the wallet connected (DepositDrawer.tsx handleDeposit).
LEMMA LandStart ==
    ASSUME LandInv, NEW f \in Deposit, Start(f), wallet \in Wallet,
           UNCHANGED <<wallet, standing>>
    PROVE  LandInv'
<1>1. deposit[f] = "unused" /\ f \notin opened
  BY DEF Start, Deposit, LandInv, OpenedIsReady
<1>2. /\ deposit' = [deposit EXCEPT ![f] = "preflight"]
      /\ payee' = [payee EXCEPT ![f] = wallet]
      /\ UNCHANGED <<switched, opened>>
  BY DEF Start, Goes
<1>3. \A g \in Deposit : g # f => deposit'[g] = deposit[g] /\ payee'[g] = payee[g]
  BY <1>2 DEF LandInv, PayeeTypes
<1>4. deposit'[f] = "preflight" /\ payee'[f] = wallet
  BY <1>2 DEF LandInv, PayeeTypes
<1>5. PayeeTypes'
  BY <1>2 DEF LandInv, PayeeTypes, Await
<1>6. Connected'
  BY <1>3, <1>4 DEF LandInv, Connected
<1>7. CheckedIsReady'
  BY <1>2, <1>3, <1>4 DEF LandInv, CheckedIsReady
<1>8. OpenedIsReady' /\ PayoutsCanLand'
  BY <1>1, <1>2, <1>3, <1>4 DEF LandInv, OpenedIsReady, PayoutsCanLand
<1> QED BY <1>5, <1>6, <1>7, <1>8 DEF LandInv

\* A switch excepts the deposits that are being checked (WalletContext.tsx).
LEMMA LandSwitch == ASSUME LandInv, NEW w \in Wallet, SwitchWallet(w) PROVE LandInv'
<1>1. /\ wallet' = w
      /\ switched' = switched \cup {f \in Deposit : deposit[f] = "preflight"}
      /\ UNCHANGED <<standing, deposit, payee, opened, open, consent>>
  BY DEF SwitchWallet, outside
<1>2. PayeeTypes' /\ Connected' /\ OpenedIsReady'
  BY <1>1 DEF LandInv, PayeeTypes, Connected, OpenedIsReady
<1>3. CheckedIsReady' /\ PayoutsCanLand'
  BY <1>1 DEF LandInv, CheckedIsReady, PayoutsCanLand
<1> QED BY <1>2, <1>3 DEF LandInv

\* A deposit passes its check when the wallet connected could receive the asset
\* (checkDepositPreflight in horizon.ts).
LEMMA LandReady ==
    ASSUME LandInv, NEW f \in Deposit, deposit[f] = "preflight", standing[wallet] = "ready",
           Ready(f), UNCHANGED <<wallet, standing, payee, switched, opened, open, consent>>
    PROVE  LandInv'
<1>1. deposit' = [deposit EXCEPT ![f] = "auth"]
  BY DEF Ready, Goes
<1>2. \A g \in Deposit : g # f => deposit'[g] = deposit[g]
  BY <1>1 DEF LandInv, PayeeTypes
<1>3. deposit'[f] = "auth"
  BY <1>1 DEF LandInv, PayeeTypes
<1>4. PayeeTypes'
  BY <1>1 DEF LandInv, PayeeTypes, Await
<1>5. Connected' /\ OpenedIsReady' /\ PayoutsCanLand'
  BY <1>2, <1>3 DEF LandInv, Connected, OpenedIsReady, PayoutsCanLand
<1>6. CheckedIsReady'
  BY <1>2, <1>3 DEF LandInv, CheckedIsReady
<1> QED BY <1>4, <1>5, <1>6 DEF LandInv

\* The anchor opens a transaction for a deposit that has passed (lib/stellar/sep24.ts).
LEMMA LandOpens == ASSUME LandInv, NEW f \in Deposit, StartDepositFlow(f) PROVE LandInv'
<1>1. /\ deposit[f] = "initiate"
      /\ UNCHANGED <<wallet, standing, payee, switched, open, consent>>
  BY DEF StartDepositFlow, undrawn, outside
<1>2. CASE Fails(f) /\ UNCHANGED opened
  BY <1>1, <1>2, LandGoes DEF Fails
<1>3. CASE opened' = opened \cup {f} /\ Goes(f, "interactive")
  <2>1. deposit' = [deposit EXCEPT ![f] = "interactive"]
    BY <1>3 DEF Goes
  <2>2. \A g \in Deposit : g # f => deposit'[g] = deposit[g]
    BY <2>1 DEF LandInv, PayeeTypes
  <2>3. deposit'[f] = "interactive"
    BY <2>1 DEF LandInv, PayeeTypes
  <2>4. PayeeTypes'
    BY <1>1, <1>3, <2>1 DEF LandInv, PayeeTypes, Await
  <2>5. Connected' /\ CheckedIsReady' /\ OpenedIsReady'
    BY <1>1, <1>3, <2>2, <2>3 DEF LandInv, Connected, CheckedIsReady, OpenedIsReady
  <2>6. PayoutsCanLand'
    BY <1>1, <1>3 DEF LandInv, CheckedIsReady, PayoutsCanLand
  <2> QED BY <2>4, <2>5, <2>6 DEF LandInv
<1> QED BY <1>2, <1>3 DEF StartDepositFlow

\* The line is added to the wallet connected, which had none.
LEMMA LandTrusts == ASSUME LandInv, NEW f \in Deposit, AddTrustline(f) PROVE LandInv'
<1>1. UNCHANGED <<wallet, payee, switched, opened, open, consent, deposit>>
  BY DEF AddTrustline, LooksAgain
<1>2. CASE UNCHANGED standing
  BY <1>1, <1>2, LandImproves DEF LandInv, PayeeTypes
<1>3. CASE /\ standing[wallet] = "no-trustline"
           /\ \E s \in {"unauthorized", "ready"} : standing' = [standing EXCEPT ![wallet] = s]
  <2>1. PICK s \in {"unauthorized", "ready"} : standing' = [standing EXCEPT ![wallet] = s]
    BY <1>3
  <2>2. standing' \in [Wallet -> Standing]
    BY <2>1 DEF LandInv, PayeeTypes, Standing
  <2>3. \A w \in Wallet : standing[w] = "ready" => standing'[w] = "ready"
    BY <1>3, <2>1 DEF LandInv, PayeeTypes
  <2> QED BY <1>1, <2>2, <2>3, LandImproves
<1> QED BY <1>2, <1>3 DEF AddTrustline

\* An account that improves is not one that was ready.
LEMMA LandBetter == ASSUME LandInv, NEW w \in Wallet, Improve(w) PROVE LandInv'
<1>1. UNCHANGED <<wallet, payee, switched, opened, open, consent, deposit>>
  BY DEF Improve, drawer, deposits
<1>2. PICK s \in Better(standing[w]) : standing' = [standing EXCEPT ![w] = s]
  BY DEF Improve
<1>3. standing[w] \in Standing
  BY DEF LandInv, PayeeTypes
<1>4. standing[w] # "ready" /\ s \in Standing
  BY <1>2, <1>3 DEF Better, Standing
<1>5. standing' \in [Wallet -> Standing]
  BY <1>2, <1>4 DEF LandInv, PayeeTypes
<1>6. \A v \in Wallet : standing[v] = "ready" => standing'[v] = "ready"
  BY <1>2, <1>4 DEF LandInv, PayeeTypes
<1> QED BY <1>1, <1>5, <1>6, LandImproves

\* What a deposit does keeps the invariant.
LEMMA LandDeposit == ASSUME LandInv, NEW f \in Deposit, DepositStep(f) PROVE LandInv'
<1>1. CASE HandleDeposit(f) \/ HandleConsentAccept(f)
  <2>1. Start(f) /\ UNCHANGED <<wallet, standing>> /\ (open \/ consent)
    BY <1>1 DEF HandleDeposit, HandleConsentAccept, Offered, outside
  <2> QED BY <2>1, LandStart DEF LandInv, Connected
<1>2. CASE CheckDepositPreflight(f)
  <2>1. /\ deposit[f] = "preflight"
        /\ UNCHANGED <<wallet, standing, payee, switched, opened, open, consent>>
    BY <1>2 DEF CheckDepositPreflight, outside
  <2>2. CASE standing[wallet] = "ready" /\ Ready(f)
    BY <2>1, <2>2, LandReady
  <2>3. CASE UNCHANGED deposit
    BY <2>1, <2>3, LandUntouched DEF LandInv, PayeeTypes
  <2> QED BY <1>2, <2>2, <2>3 DEF CheckDepositPreflight
<1>3. CASE AddTrustline(f)
  BY <1>3, LandTrusts
<1>4. CASE StartDepositFlow(f)
  BY <1>4, LandOpens
<1>5. CASE HandleCancel(f)
  BY <1>5, LandGoes DEF HandleCancel, outside
<1>6. CASE Authenticate(f)
  <2>1. /\ deposit[f] = "auth"
        /\ UNCHANGED <<wallet, standing, payee, switched, opened, open, consent>>
    BY <1>6 DEF Authenticate, undrawn, outside
  <2>2. Goes(f, "over") \/ Goes(f, "initiate")
    BY <1>6 DEF Authenticate, Fails
  <2> QED BY <2>1, <2>2, LandGoes
<1>7. CASE KycError(f)
  BY <1>7, LandGoes DEF KycError, Fails, undrawn, outside
<1>8. CASE KycComplete(f)
  <2>1. /\ deposit[f] = "interactive" /\ Goes(f, "over") /\ open' = FALSE /\ consent' = consent
        /\ UNCHANGED <<wallet, standing, payee, switched, opened>>
    BY <1>8 DEF KycComplete, SetSelectedRate, outside
  <2> QED BY <2>1, LandGoes
<1>9. CASE Settle(f) \/ SignIntent(f)
  <2>1. UNCHANGED <<wallet, standing, drawer, deposits>>
    BY <1>9 DEF Settle, SignIntent, outside
  <2> QED BY <2>1, LandUntouched DEF drawer, deposits, LandInv, PayeeTypes
<1> QED BY <1>1, <1>2, <1>3, <1>4, <1>5, <1>6, <1>7, <1>8, <1>9 DEF DepositStep

\* Leaving the page only ends deposits.
LEMMA LandLeave ==
    ASSUME LandInv, NEW ends \in SUBSET Await, NEW url, Leave(ends, url)
    PROVE  LandInv'
<1>1. /\ deposit' = [f \in Deposit |-> IF deposit[f] \in ends THEN "over" ELSE deposit[f]]
      /\ open' = FALSE /\ consent' = FALSE
      /\ UNCHANGED <<wallet, standing, payee, switched, opened>>
  BY DEF Leave, outside
<1>2. "unused" \notin ends
  BY DEF Await
<1>3. deposit' \in [Deposit -> Await \cup {"unused", "over"}]
  BY <1>1 DEF LandInv, PayeeTypes
<1>4. \A f \in Deposit : \/ deposit'[f] = deposit[f]
                         \/ deposit'[f] = "over" /\ deposit[f] # "unused"
  BY <1>1, <1>2
<1> QED BY <1>1, <1>3, <1>4, LandUntouched

\* Every step keeps the invariant of the payees.
LEMMA LandStep == LandInv /\ [DepositNext]_depositVars => LandInv'
<1> SUFFICES ASSUME LandInv, [DepositNext]_depositVars PROVE LandInv'
  OBVIOUS
<1>1. CASE HandleSelectAnchor
  <2>1. wallet \in Wallet /\ UNCHANGED <<wallet, standing, consent, deposits>>
    BY <1>1 DEF HandleSelectAnchor, LandInv, PayeeTypes, outside
  <2> QED BY <2>1 DEF deposits, LandInv, PayeeTypes, Connected, CheckedIsReady, OpenedIsReady,
                      PayoutsCanLand
<1>2. CASE OnClose \/ AskConsent \/ ConsentDecline \/ PreflightRetry
  <2>1. /\ UNCHANGED <<wallet, standing, deposits>>
        /\ open' \/ consent' => open \/ consent
    BY <1>2 DEF OnClose, AskConsent, ConsentDecline, PreflightRetry, SetSelectedRate, Offered,
                outside
  <2> QED BY <2>1, LandUntouched DEF deposits, LandInv, PayeeTypes
<1>3. ASSUME NEW w \in Wallet, SwitchWallet(w) \/ Improve(w) PROVE LandInv'
  BY <1>3, LandSwitch, LandBetter
<1>4. ASSUME NEW f \in Deposit, DepositStep(f) PROVE LandInv'
  BY <1>4, LandDeposit
<1>5. CASE Poll \/ HandleStartAnother \/ UNCHANGED depositVars
  <2>1. UNCHANGED <<wallet, standing, drawer, deposits>>
    BY <1>5 DEF Poll, HandleStartAnother, depositVars, outside
  <2> QED BY <2>1, LandUntouched DEF drawer, deposits, LandInv, PayeeTypes
<1>6. CASE Unmount
  <2>1. PICK url \in {None, address} : Leave(Await \ {"auth"}, url)
    BY <1>6 DEF Unmount
  <2> QED BY <2>1, LandLeave
<1>7. CASE Reload
  BY <1>7, LandLeave DEF Reload
<1> QED BY <1>1, <1>2, <1>3, <1>4, <1>5, <1>6, <1>7 DEF DepositNext

\* No anchor is ever asked to open a deposit to a wallet that could not receive the
\* asset, unless the wallet was switched under the check (DepositDrawer.tsx
\* handleDeposit with TrustlinePreflight.tsx).
THEOREM PayoutsCanAlwaysLand == DepositSpec => []PayoutsCanLand
<1>1. DepositInit => LandInv
  BY DEF DepositInit, LandInv, PayeeTypes, Connected, CheckedIsReady, OpenedIsReady, PayoutsCanLand
<1>2. LandInv => PayoutsCanLand
  BY DEF LandInv
<1> QED BY <1>1, <1>2, LandStep, PTL DEF DepositSpec

-----------------------------------------------------------------------------
(* Reports.  ReportedOnce says nothing of what could still be reported.    *)
(* A transaction is reported while it is tracked, and from then on it is   *)
(* marked as such or no longer found: its deposit is over and its token    *)
(* gone, so neither a new deposit nor a reload brings it back.             *)

ReportTypes ==
    /\ deposit \in [Deposit -> Await \cup {"unused", "over"}]
    /\ settled \subseteq Deposit
    /\ tracking \in Deposit \cup {None} /\ context \in Deposit \cup {None}
    /\ signing \subseteq Deposit /\ stored \subseteq Deposit
    /\ reports \in Seq([of : Deposit, tx : Deposit])

\* What is tracked or may be found again was handed over by a deposit that is over.
TrackedIsOver ==
    /\ \A f \in stored : deposit[f] = "over"
    /\ tracking # None => deposit[tracking] = "over"

\* A terminal state is of something tracked, whose token is given up.
SeenIsForgotten == seen => tracking # None /\ tracking \notin stored

ReportedIsGone ==
    \A i \in DOMAIN reports :
        /\ deposit[reports[i].tx] = "over"
        /\ reports[i].tx \notin stored
        /\ reports[i].tx = tracking => seen /\ appended

ReportInv ==
    ReportTypes /\ TrackedIsOver /\ SeenIsForgotten /\ ReportedIsGone /\ ReportedOnce

\* A report is of deposits.
LEMMA ReportsAreOfDeposits ==
    ReportTypes => \A i \in DOMAIN reports : reports[i].tx \in Deposit /\ reports[i].tx # None
<1> DEFINE Report == [of : Deposit, tx : Deposit]
<1> SUFFICES ASSUME ReportTypes, NEW i \in DOMAIN reports
             PROVE  reports[i].tx \in Deposit /\ reports[i].tx # None
  OBVIOUS
<1>1. reports \in Seq(Report)
  BY DEF ReportTypes
<1>2. \A r \in Report : r.tx \in Deposit
  OBVIOUS
<1> HIDE DEF Report
<1>3. reports[i] \in Report
  BY <1>1
<1>4. reports[i].tx \in Deposit
  BY <1>2, <1>3
<1> QED BY <1>4 DEF Deposit, None

\* What only moves deposits that are not over changes nothing about reports.
LEMMA ReportsUntouched ==
    ASSUME ReportInv,
           UNCHANGED <<tracking, seen, context, appended, stored, reports>>,
           signing' \subseteq Deposit, settled' \subseteq Deposit,
           deposit' \in [Deposit -> Await \cup {"unused", "over"}],
           \A f \in Deposit : deposit[f] = "over" => deposit'[f] = "over"
    PROVE  ReportInv'
<1>1. \A i \in DOMAIN reports : reports[i].tx \in Deposit
  BY ReportsAreOfDeposits DEF ReportInv
<1>2. ReportTypes'
  BY DEF ReportInv, ReportTypes
<1>3. TrackedIsOver'
  BY DEF ReportInv, ReportTypes, TrackedIsOver
<1>4. SeenIsForgotten' /\ ReportedOnce'
  BY DEF ReportInv, SeenIsForgotten, ReportedOnce
<1>5. ReportedIsGone'
  BY <1>1 DEF ReportInv, ReportedIsGone
<1> QED BY <1>2, <1>3, <1>4, <1>5 DEF ReportInv

\* One deposit that moves and was not over.
LEMMA ReportsGoes ==
    ASSUME ReportInv, UNCHANGED <<settled, page>>,
           NEW f \in Deposit, deposit[f] # "over",
           NEW to \in Await \cup {"over"}, Goes(f, to)
    PROVE  ReportInv'
<1>1. deposit' = [deposit EXCEPT ![f] = to]
  BY DEF Goes
<1>2. deposit' \in [Deposit -> Await \cup {"unused", "over"}]
  BY <1>1 DEF ReportInv, ReportTypes
<1>3. \A g \in Deposit : deposit[g] = "over" => deposit'[g] = "over"
  BY <1>1 DEF ReportInv, ReportTypes
<1> QED BY <1>2, <1>3, ReportsUntouched DEF page, ReportInv, ReportTypes

\* The page takes over a deposit that nothing was reported of
\* (app/onramp/page.tsx handleDepositStarted).
LEMMA ReportsComplete == ASSUME ReportInv, NEW f \in Deposit, KycComplete(f) PROVE ReportInv'
<1>1. /\ deposit[f] = "interactive" /\ deposit' = [deposit EXCEPT ![f] = "over"]
      /\ stored' \in {stored, stored \cup {f}} /\ tracking' = f /\ seen' = FALSE /\ appended' = FALSE
      /\ signing' = signing \cup {f} /\ UNCHANGED <<settled, context, reports>>
  BY DEF KycComplete, HandleDepositStarted, SaveJwtToSession, Goes, outside
<1>2. \A g \in Deposit : g # f => deposit'[g] = deposit[g]
  BY <1>1 DEF ReportInv, ReportTypes
<1>3. deposit'[f] = "over" /\ f # None
  BY <1>1 DEF ReportInv, ReportTypes, Deposit, None
<1>4. \A i \in DOMAIN reports : reports[i].tx \in Deposit /\ reports[i].tx # f
  BY <1>1, ReportsAreOfDeposits DEF ReportInv, ReportedIsGone
<1>5. ReportTypes'
  BY <1>1 DEF ReportInv, ReportTypes
<1>6. TrackedIsOver'
  BY <1>1, <1>2, <1>3 DEF ReportInv, ReportTypes, TrackedIsOver
<1>7. SeenIsForgotten' /\ ReportedOnce'
  BY <1>1 DEF ReportInv, SeenIsForgotten, ReportedOnce
<1>8. ReportedIsGone'
  BY <1>1, <1>2, <1>4 DEF ReportInv, ReportedIsGone
<1> QED BY <1>5, <1>6, <1>7, <1>8 DEF ReportInv

\* The effect posts at most the transaction tracked, which is terminal, gone from the
\* storage and not reported yet (hooks/useWithdrawStatus.ts).
LEMMA ReportsAppend ==
    ASSUME ReportInv, AppendOutcome, UNCHANGED <<deposit, settled, tracking>>,
           context' \in Deposit \cup {None}, signing' \subseteq Deposit,
           stored' \subseteq stored, seen => seen',
           seen' => tracking # None /\ tracking \notin stored'
    PROVE  ReportInv'
<1>1. \A i \in DOMAIN reports : reports[i].tx \in Deposit
  BY ReportsAreOfDeposits DEF ReportInv
<1>2. TrackedIsOver' /\ SeenIsForgotten'
  BY DEF ReportInv, TrackedIsOver, SeenIsForgotten
<1>3. CASE ~Due
  <2>1. UNCHANGED <<appended, reports>>
    BY <1>3 DEF AppendOutcome
  <2>2. ReportTypes'
    BY <2>1 DEF ReportInv, ReportTypes
  <2>3. ReportedIsGone' /\ ReportedOnce'
    BY <2>1 DEF ReportInv, ReportedIsGone, ReportedOnce
  <2> QED BY <1>2, <2>2, <2>3 DEF ReportInv
<1>4. CASE Due
  <2> DEFINE report == [of |-> context', tx |-> tracking]
  <2>1. appended' = TRUE /\ reports' = Append(reports, report) /\ seen' /\ context' # None
        /\ ~appended
    BY <1>4 DEF AppendOutcome, Due
  <2>2. tracking \in Deposit /\ context' \in Deposit /\ tracking \notin stored'
    BY <2>1 DEF ReportInv, ReportTypes
  <2>3. report \in [of : Deposit, tx : Deposit] /\ report.tx = tracking
    BY <2>2
  <2>4. \A i \in DOMAIN reports : reports[i].tx # tracking
    BY <2>1 DEF ReportInv, ReportedIsGone
  <2>5. deposit[tracking] = "over"
    BY <2>2, <2>1 DEF ReportInv, TrackedIsOver
  <2> HIDE DEF report
  <2>6. ReportTypes'
    BY <2>1, <2>3 DEF ReportInv, ReportTypes
  <2>7. /\ DOMAIN reports' = 1..(Len(reports) + 1) /\ DOMAIN reports = 1..Len(reports)
        /\ Len(reports) \in Nat
        /\ reports'[Len(reports) + 1] = report
        /\ \A i \in DOMAIN reports : reports'[i] = reports[i]
    BY <2>1, <2>3 DEF ReportInv, ReportTypes
  <2>8. \A i \in DOMAIN reports' : i \in DOMAIN reports \/ i = Len(reports) + 1
    BY <2>7
  <2>9. ReportedIsGone'
    BY <2>1, <2>2, <2>3, <2>5, <2>7, <2>8 DEF ReportInv, ReportedIsGone
  <2>10. ReportedOnce'
    BY <2>3, <2>4, <2>7, <2>8 DEF ReportInv, ReportedOnce
  <2> QED BY <1>2, <2>6, <2>9, <2>10 DEF ReportInv
<1> QED BY <1>3, <1>4

\* The page that comes back tracks what it finds, and nothing reported is to be found.
LEMMA ReportsLeave ==
    ASSUME ReportInv, NEW ends \in SUBSET Await, NEW url, Leave(ends, url)
    PROVE  ReportInv'
<1>1. /\ deposit' = [f \in Deposit |-> IF deposit[f] \in ends THEN "over" ELSE deposit[f]]
      /\ tracking' = IF url \in stored THEN url ELSE None
      /\ seen' = FALSE /\ appended' = FALSE /\ signing' = {} /\ context' = None
      /\ UNCHANGED <<settled, stored, reports>>
  BY DEF Leave, outside
<1>2. deposit' \in [Deposit -> Await \cup {"unused", "over"}]
  BY <1>1 DEF ReportInv, ReportTypes
<1>3. \A f \in Deposit : deposit[f] = "over" => deposit'[f] = "over"
  BY <1>1
<1>4. \A i \in DOMAIN reports : reports[i].tx \in Deposit /\ reports[i].tx # None
  BY ReportsAreOfDeposits DEF ReportInv
<1>5. ReportTypes'
  BY <1>1, <1>2 DEF ReportInv, ReportTypes
<1>6. TrackedIsOver'
  BY <1>1, <1>3 DEF ReportInv, ReportTypes, TrackedIsOver
<1>7. SeenIsForgotten' /\ ReportedOnce'
  BY <1>1 DEF ReportInv, SeenIsForgotten, ReportedOnce
<1>8. ReportedIsGone'
  BY <1>1, <1>3, <1>4 DEF ReportInv, ReportedIsGone
<1> QED BY <1>5, <1>6, <1>7, <1>8 DEF ReportInv

\* Every step keeps the invariant of the reports.
LEMMA ReportsStep == ReportInv /\ [DepositNext]_depositVars => ReportInv'
<1> SUFFICES ASSUME ReportInv, [DepositNext]_depositVars PROVE ReportInv'
  OBVIOUS
<1>1. CASE \/ HandleSelectAnchor \/ OnClose \/ AskConsent \/ ConsentDecline \/ PreflightRetry
           \/ \E w \in Wallet : SwitchWallet(w) \/ Improve(w)
           \/ UNCHANGED depositVars
  <2>1. UNCHANGED <<deposit, settled, page>>
    BY <1>1 DEF HandleSelectAnchor, OnClose, AskConsent, ConsentDecline, PreflightRetry,
                SwitchWallet, Improve, depositVars, deposits, outside
  <2> QED BY <2>1, ReportsUntouched DEF page, ReportInv, ReportTypes
<1>2. ASSUME NEW f \in Deposit, DepositStep(f) PROVE ReportInv'
  <2>1. CASE KycComplete(f)
    BY <2>1, ReportsComplete
  <2>2. CASE SignIntent(f)
    <3>1. /\ AppendOutcome /\ UNCHANGED <<deposit, settled, tracking, seen, stored>>
          /\ context' \in {context, f} /\ signing' = signing \ {f}
      BY <2>2 DEF SignIntent, deposits, outside
    <3>2. context' \in Deposit \cup {None} /\ signing' \subseteq Deposit
      BY <3>1 DEF ReportInv, ReportTypes
    <3>3. seen => tracking # None /\ tracking \notin stored
      BY DEF ReportInv, SeenIsForgotten
    <3> QED BY <3>1, <3>2, <3>3, ReportsAppend
  <2>3. CASE AddTrustline(f)
    <3>1. UNCHANGED <<deposit, settled, page>>
      BY <2>3 DEF AddTrustline, LooksAgain
    <3> QED BY <3>1, ReportsUntouched DEF page, ReportInv, ReportTypes
  <2>4. CASE Settle(f)
    <3>1. UNCHANGED <<deposit, page>> /\ settled' = settled \cup {f}
      BY <2>4 DEF Settle, deposits
    <3> QED BY <3>1, ReportsUntouched DEF page, ReportInv, ReportTypes
  <2>5. CASE CheckDepositPreflight(f)
    <3>1. UNCHANGED <<settled, page>> /\ deposit[f] # "over"
      BY <2>5 DEF CheckDepositPreflight, outside
    <3>2. CASE UNCHANGED deposit
      BY <3>1, <3>2, ReportsUntouched DEF page, ReportInv, ReportTypes
    <3>3. CASE Goes(f, "auth")
      BY <3>1, <3>3, ReportsGoes DEF Await
    <3> QED BY <2>5, <3>2, <3>3 DEF CheckDepositPreflight, Ready
  <2>6. CASE \/ HandleDeposit(f) \/ HandleConsentAccept(f) \/ HandleCancel(f)
             \/ Authenticate(f) \/ StartDepositFlow(f) \/ KycError(f)
    <3>1. UNCHANGED <<settled, page>> /\ deposit[f] # "over"
      BY <2>6 DEF HandleDeposit, HandleConsentAccept, HandleCancel, Authenticate,
                  StartDepositFlow, KycError, outside, Start, Deposit
    <3>2. PICK to \in Await \cup {"over"} : Goes(f, to)
      BY <2>6 DEF HandleDeposit, HandleConsentAccept, HandleCancel, Authenticate,
                  StartDepositFlow, KycError, Start, Fails, Await
    <3> QED BY <3>1, <3>2, ReportsGoes
  <2> QED BY <1>2, <2>1, <2>2, <2>3, <2>4, <2>5, <2>6 DEF DepositStep
<1>3. CASE Poll
  <2>1. /\ tracking \in settled /\ seen' = TRUE /\ stored' = stored \ {tracking}
        /\ AppendOutcome /\ UNCHANGED <<deposit, settled, tracking, context, signing>>
    BY <1>3 DEF Poll, deposits, outside
  <2>2. tracking # None
    BY <2>1 DEF ReportInv, ReportTypes, Deposit, None
  <2> QED BY <2>1, <2>2, ReportsAppend DEF ReportInv, ReportTypes
<1>4. CASE HandleStartAnother
  <2>1. /\ tracking' = None /\ seen' = FALSE /\ appended' = FALSE /\ context' = None
        /\ UNCHANGED <<deposit, settled, signing, stored, reports>>
    BY <1>4 DEF HandleStartAnother, deposits, outside
  <2>2. \A i \in DOMAIN reports : reports[i].tx # None
    BY ReportsAreOfDeposits DEF ReportInv
  <2>3. ReportTypes' /\ TrackedIsOver'
    BY <2>1 DEF ReportInv, ReportTypes, TrackedIsOver
  <2>4. SeenIsForgotten' /\ ReportedOnce' /\ ReportedIsGone'
    BY <2>1, <2>2 DEF ReportInv, SeenIsForgotten, ReportedOnce, ReportedIsGone
  <2> QED BY <2>3, <2>4 DEF ReportInv
<1>5. CASE Unmount
  <2>1. PICK url \in {None, address} : Leave(Await \ {"auth"}, url)
    BY <1>5 DEF Unmount
  <2> QED BY <2>1, ReportsLeave
<1>6. CASE Reload
  BY <1>6, ReportsLeave DEF Reload
<1> QED BY <1>1, <1>2, <1>3, <1>4, <1>5, <1>6 DEF DepositNext

\* No transaction is reported twice, whatever is signed late, declined, restored or
\* started over (hooks/useWithdrawStatus.ts, the effect that posts the outcome).
THEOREM EachIsReportedOnce == DepositSpec => []ReportedOnce
<1>1. DepositInit => ReportInv
  BY DEF DepositInit, ReportInv, ReportTypes, TrackedIsOver, SeenIsForgotten, ReportedIsGone,
         ReportedOnce, None
<1>2. ReportInv => ReportedOnce
  BY DEF ReportInv
<1> QED BY <1>1, <1>2, ReportsStep, PTL DEF DepositSpec

-----------------------------------------------------------------------------
(* The types of a deposit.  Those of the payees and of the reports are in  *)
(* their invariants; the rest is the drawer's, the account's and the       *)
(* page's.  That a session is a wallet's takes that no deposit is begun    *)
(* before a wallet is connected.                                           *)

DrawerTypes ==
    /\ open \in BOOLEAN /\ step \in Step /\ retryable \in BOOLEAN /\ consent \in BOOLEAN
    /\ checked \in (Standing \ {"ready"}) \cup {"checking", "check-failed"}

AccountTypes ==
    /\ accepted \subseteq Wallet /\ sessions \subseteq Wallet
    /\ \A f \in Deposit : deposit[f] # "unused" => wallet \in Wallet

PageTypes ==
    /\ visit \subseteq Deposit /\ switched \subseteq Deposit /\ settled \subseteq opened
    /\ seen \in BOOLEAN /\ appended \in BOOLEAN
    /\ address \in Deposit \cup {None} /\ visits \in 0..MaxVisits

DepositTyped == LandInv /\ ReportInv /\ DrawerTypes /\ AccountTypes /\ PageTypes

\* The drawer shows one of its steps, and of a check what it may say
\* (DepositDrawer.tsx, TrustlinePreflight.tsx).
LEMMA DrawerKeepsTypes ==
    ASSUME LandInv, DrawerTypes, AccountTypes, [DepositNext]_depositVars
    PROVE  DrawerTypes'
<1>1. CASE \/ HandleSelectAnchor \/ OnClose \/ AskConsent \/ ConsentDecline \/ PreflightRetry
  BY <1>1 DEF HandleSelectAnchor, OnClose, AskConsent, ConsentDecline, PreflightRetry,
              SetSelectedRate, DrawerTypes, Step
<1>2. ASSUME NEW w \in Wallet, SwitchWallet(w) \/ Improve(w) PROVE DrawerTypes'
  BY <1>2 DEF SwitchWallet, Improve, drawer, DrawerTypes
<1>3. ASSUME NEW f \in Deposit, DepositStep(f) PROVE DrawerTypes'
  <2>1. CASE HandleDeposit(f) \/ HandleConsentAccept(f)
    BY <2>1 DEF HandleDeposit, HandleConsentAccept, Start, DrawerTypes, Step
  <2>2. CASE HandleCancel(f)
    BY <2>2 DEF HandleCancel, DrawerTypes, Step
  <2>3. CASE CheckDepositPreflight(f)
    <3>1. standing[wallet] \in Standing
      BY <2>3 DEF CheckDepositPreflight, AccountTypes, LandInv, PayeeTypes
    <3>2. /\ \/ checked' \in {"check-failed", "checking"}
             \/ checked' = standing[wallet] /\ standing[wallet] # "ready"
          /\ step' \in {step, "authenticating"}
          /\ UNCHANGED <<open, retryable, consent>>
      BY <2>3 DEF CheckDepositPreflight, Ready
    <3> QED BY <3>1, <3>2 DEF DrawerTypes, Step
  <2>4. CASE AddTrustline(f)
    BY <2>4 DEF AddTrustline, LooksAgain, DrawerTypes
  <2>5. CASE Authenticate(f) \/ StartDepositFlow(f) \/ KycError(f)
    <3>1. /\ step' \in {step, "idle", "error", "initiating", "interactive"}
          /\ retryable' \in BOOLEAN \cup {retryable} /\ UNCHANGED <<open, consent, checked>>
      BY <2>5 DEF Authenticate, StartDepositFlow, KycError, Fails, Show, undrawn
    <3> QED BY <3>1 DEF DrawerTypes, Step
  <2>6. CASE KycComplete(f)
    BY <2>6 DEF KycComplete, SetSelectedRate, DrawerTypes, Step
  <2>7. CASE Settle(f) \/ SignIntent(f)
    BY <2>7 DEF Settle, SignIntent, drawer, DrawerTypes
  <2> QED BY <1>3, <2>1, <2>2, <2>3, <2>4, <2>5, <2>6, <2>7 DEF DepositStep
<1>4. CASE Poll \/ HandleStartAnother \/ UNCHANGED depositVars
  BY <1>4 DEF Poll, HandleStartAnother, depositVars, drawer, DrawerTypes
<1>5. CASE Unmount \/ Reload
  BY <1>5 DEF Unmount, Reload, Leave, DrawerTypes, Step
<1> QED BY <1>1, <1>2, <1>3, <1>4, <1>5 DEF DepositNext

\* A deposit that is begun has a wallet, which stays connected.
LEMMA BegunStaysConnected ==
    ASSUME LandInv, AccountTypes, [DepositNext]_depositVars
    PROVE  \A f \in Deposit : deposit'[f] # "unused" => wallet' \in Wallet
<1>1. ASSUME wallet' = wallet, \A f \in Deposit : deposit'[f] # "unused" => deposit[f] # "unused"
      PROVE  \A f \in Deposit : deposit'[f] # "unused" => wallet' \in Wallet
  BY <1>1 DEF AccountTypes
<1>2. CASE \/ HandleSelectAnchor \/ OnClose \/ AskConsent \/ ConsentDecline \/ PreflightRetry
           \/ \E w \in Wallet : Improve(w)
           \/ Poll \/ HandleStartAnother \/ UNCHANGED depositVars
  <2>1. UNCHANGED <<wallet, deposit>>
    BY <1>2 DEF HandleSelectAnchor, OnClose, AskConsent, ConsentDecline, PreflightRetry, Improve,
                Poll, HandleStartAnother, depositVars, deposits
  <2> QED BY <2>1, <1>1
<1>3. CASE \E w \in Wallet : SwitchWallet(w)
  BY <1>3 DEF SwitchWallet
<1>4. ASSUME NEW f \in Deposit, DepositStep(f)
      PROVE  \A g \in Deposit : deposit'[g] # "unused" => wallet' \in Wallet
  <2>1. CASE HandleDeposit(f) \/ HandleConsentAccept(f)
    <3>1. wallet' = wallet /\ (open \/ consent)
      BY <2>1 DEF HandleDeposit, HandleConsentAccept, Offered
    <3> QED BY <3>1 DEF LandInv, Connected
  <2>2. CASE Settle(f) \/ SignIntent(f) \/ AddTrustline(f)
    <3>1. UNCHANGED <<wallet, deposit>>
      BY <2>2 DEF Settle, SignIntent, AddTrustline, LooksAgain, deposits
    <3> QED BY <3>1, <1>1
  <2>3. CASE \/ HandleCancel(f) \/ CheckDepositPreflight(f) \/ Authenticate(f)
             \/ StartDepositFlow(f) \/ KycError(f) \/ KycComplete(f)
    <3>1. wallet' = wallet /\ deposit[f] # "unused"
      BY <2>3 DEF HandleCancel, CheckDepositPreflight, Authenticate, StartDepositFlow, KycError,
                  KycComplete
    <3> QED BY <3>1 DEF AccountTypes
  <2> QED BY <1>4, <2>1, <2>2, <2>3 DEF DepositStep
<1>5. CASE Unmount \/ Reload
  <2>1. /\ wallet' = wallet
        /\ \E ends \in SUBSET Await :
             deposit' = [f \in Deposit |-> IF deposit[f] \in ends THEN "over" ELSE deposit[f]]
    BY <1>5 DEF Unmount, Reload, Leave
  <2>2. \A f \in Deposit : deposit'[f] # "unused" => deposit[f] # "unused"
    BY <2>1 DEF Await
  <2> QED BY <1>1, <2>1, <2>2
<1> QED BY <1>2, <1>3, <1>4, <1>5 DEF DepositNext

\* Terms are accepted by a wallet that is connected, and a token is the payee's.
LEMMA AccountKeepsTypes ==
    ASSUME LandInv, AccountTypes, [DepositNext]_depositVars
    PROVE  AccountTypes'
<1>1. CASE UNCHANGED account
  BY <1>1, BegunStaysConnected DEF account, AccountTypes
<1>2. CASE \E f \in Deposit : HandleConsentAccept(f)
  <2>1. accepted' = accepted \cup {wallet} /\ sessions' = sessions /\ wallet \in Wallet
    BY <1>2 DEF HandleConsentAccept, LandInv, Connected
  <2> QED BY <2>1, BegunStaysConnected DEF AccountTypes
<1>3. ASSUME NEW f \in Deposit, Authenticate(f) PROVE AccountTypes'
  <2>1. payee[f] \in Wallet
    BY <1>3 DEF Authenticate, LandInv, Connected
  <2>2. accepted' = accepted /\ sessions' \in {sessions, sessions \cup {payee[f]}}
    BY <1>3 DEF Authenticate
  <2> QED BY <2>1, <2>2, BegunStaysConnected DEF AccountTypes
<1>4. CASE Unmount \/ Reload
  <2>1. accepted' = accepted /\ sessions' \in {sessions, {}}
    BY <1>4 DEF Unmount, Reload, Leave
  <2> QED BY <2>1, BegunStaysConnected DEF AccountTypes
<1>5. CASE \/ HandleSelectAnchor \/ OnClose \/ AskConsent \/ ConsentDecline \/ PreflightRetry
           \/ \E w \in Wallet : SwitchWallet(w) \/ Improve(w)
           \/ Poll \/ HandleStartAnother \/ UNCHANGED depositVars
  BY <1>1, <1>5 DEF HandleSelectAnchor, OnClose, AskConsent, ConsentDecline, PreflightRetry,
                    SwitchWallet, Improve, Poll, HandleStartAnother, depositVars
<1>6. ASSUME NEW f \in Deposit,
             \/ HandleDeposit(f) \/ HandleCancel(f) \/ CheckDepositPreflight(f) \/ AddTrustline(f)
             \/ StartDepositFlow(f) \/ KycError(f) \/ KycComplete(f) \/ Settle(f) \/ SignIntent(f)
      PROVE  AccountTypes'
  BY <1>1, <1>6 DEF HandleDeposit, HandleCancel, CheckDepositPreflight, AddTrustline,
                    StartDepositFlow, KycError, KycComplete, Settle, SignIntent
<1> QED BY <1>2, <1>3, <1>4, <1>5, <1>6 DEF DepositNext, DepositStep

\* The page's own variables: what it has begun, what the URL names, what was seen.
LEMMA PageKeepsTypes ==
    ASSUME LandInv, PageTypes, [DepositNext]_depositVars
    PROVE  PageTypes'
<1>1. CASE \/ HandleSelectAnchor \/ OnClose \/ AskConsent \/ ConsentDecline \/ PreflightRetry
           \/ \E w \in Wallet : Improve(w)
           \/ UNCHANGED depositVars
  BY <1>1 DEF HandleSelectAnchor, OnClose, AskConsent, ConsentDecline, PreflightRetry, Improve,
              depositVars, outside, deposits, page, PageTypes
<1>2. ASSUME NEW w \in Wallet, SwitchWallet(w) PROVE PageTypes'
  <2>1. /\ switched' \subseteq switched \cup Deposit
        /\ UNCHANGED <<visit, settled, opened, seen, appended, address, visits>>
    BY <1>2 DEF SwitchWallet, outside, page
  <2> QED BY <2>1 DEF PageTypes
<1>3. ASSUME NEW f \in Deposit, DepositStep(f) PROVE PageTypes'
  <2>1. CASE HandleDeposit(f) \/ HandleConsentAccept(f)
    <3>1. /\ visit' = visit \cup {f}
          /\ UNCHANGED <<switched, opened, settled, seen, appended, address, visits>>
      BY <2>1 DEF HandleDeposit, HandleConsentAccept, Start, outside, page
    <3> QED BY <3>1 DEF PageTypes
  <2>2. CASE HandleCancel(f) \/ CheckDepositPreflight(f) \/ AddTrustline(f) \/ Authenticate(f)
             \/ KycError(f)
    <3>1. UNCHANGED <<visit, switched, opened, settled, seen, appended, address, visits>>
      BY <2>2 DEF HandleCancel, CheckDepositPreflight, AddTrustline, Authenticate, KycError,
                  outside, page
    <3> QED BY <3>1 DEF PageTypes
  <2>3. CASE StartDepositFlow(f)
    <3>1. /\ opened \subseteq opened'
          /\ UNCHANGED <<visit, switched, settled, seen, appended, address, visits>>
      BY <2>3 DEF StartDepositFlow, outside, page
    <3> QED BY <3>1 DEF PageTypes
  <2>4. CASE KycComplete(f)
    <3>1. /\ address' = f /\ seen' = FALSE /\ appended' = FALSE
          /\ UNCHANGED <<visit, switched, opened, settled, visits>>
      BY <2>4 DEF KycComplete, HandleDepositStarted, SaveJwtToSession, NewAddress, outside
    <3> QED BY <3>1 DEF PageTypes
  <2>5. CASE Settle(f)
    <3>1. /\ settled' = settled \cup {f} /\ f \in opened
          /\ UNCHANGED <<visit, switched, opened, seen, appended, address, visits>>
      BY <2>5 DEF Settle, deposits, page
    <3> QED BY <3>1 DEF PageTypes
  <2>6. CASE SignIntent(f)
    <3>1. /\ appended' \in {TRUE, appended}
          /\ UNCHANGED <<visit, switched, opened, settled, seen, address, visits>>
      BY <2>6 DEF SignIntent, AppendOutcome, deposits, outside
    <3> QED BY <3>1 DEF PageTypes
  <2> QED BY <1>3, <2>1, <2>2, <2>3, <2>4, <2>5, <2>6 DEF DepositStep
<1>4. CASE Poll \/ HandleStartAnother
  <2>1. /\ appended' \in {TRUE, FALSE, appended} /\ seen' \in BOOLEAN /\ address' \in {None, address}
        /\ UNCHANGED <<visit, switched, opened, settled, visits>>
    BY <1>4 DEF Poll, HandleStartAnother, AppendOutcome, deposits, outside
  <2> QED BY <2>1 DEF PageTypes
<1>5. CASE Unmount \/ Reload
  <2>1. /\ visit' = {} /\ seen' = FALSE /\ appended' = FALSE /\ address' \in {None, address}
        /\ visits > 0 /\ visits' = visits - 1 /\ UNCHANGED <<switched, opened, settled>>
    BY <1>5 DEF Unmount, Reload, Leave, outside
  <2>2. visits' \in 0..MaxVisits
    BY <2>1, DepositAssumption DEF PageTypes, DepositAssumption
  <2> QED BY <2>1, <2>2 DEF PageTypes
<1> QED BY <1>1, <1>2, <1>3, <1>4, <1>5 DEF DepositNext

\* Every variable of the deposit page keeps its type, however deposits, switches of the
\* wallet, polls and reloads interleave (DepositDrawer.tsx, app/onramp/page.tsx).
THEOREM DepositTypes == DepositSpec => []DepositTypeOK
<1>1. DepositInit => DepositTyped
  <2> SUFFICES ASSUME DepositInit PROVE DepositTyped
    OBVIOUS
  <2>1. LandInv
    BY DEF DepositInit, LandInv, PayeeTypes, Connected, CheckedIsReady, OpenedIsReady,
           PayoutsCanLand
  <2>2. ReportInv
    BY DEF DepositInit, ReportInv, ReportTypes, TrackedIsOver, SeenIsForgotten, ReportedIsGone,
           ReportedOnce, None
  <2>3. DrawerTypes
    BY DEF DepositInit, DrawerTypes, Step
  <2>4. AccountTypes
    BY DEF DepositInit, AccountTypes
  <2>5. PageTypes
    <3>1. MaxVisits \in 0..MaxVisits
      BY DepositAssumption DEF DepositAssumption
    <3> QED BY <3>1 DEF DepositInit, PageTypes
  <2> QED BY <2>1, <2>2, <2>3, <2>4, <2>5 DEF DepositTyped
<1>2. DepositTyped /\ [DepositNext]_depositVars => DepositTyped'
  BY LandStep, ReportsStep, DrawerKeepsTypes, AccountKeepsTypes, PageKeepsTypes DEF DepositTyped
<1>3. DepositTyped => DepositTypeOK
  <2> SUFFICES ASSUME DepositTyped PROVE DepositTypeOK
    OBVIOUS
  <2>1. PayeeTypes /\ ReportTypes /\ DrawerTypes /\ AccountTypes /\ PageTypes
    BY DEF DepositTyped, LandInv, ReportInv
  <2> QED BY <2>1 DEF PayeeTypes, ReportTypes, DrawerTypes, AccountTypes, PageTypes, DepositTypeOK
<1> QED BY <1>1, <1>2, <1>3, PTL DEF DepositSpec

-----------------------------------------------------------------------------
(* Chains of hops.  What the user holds is what the attempts handed out,   *)
(* and an attempt is only made while there is no advice yet.               *)

\* The attempts recorded, what they handed out, and the advice.
HopInv ==
    /\ \A i \in DOMAIN chain : chain[i] \in Hop
    /\ results \in Seq(HopAttempt)
    /\ handed = {i \in 1..Len(results) : results[i].ok}
    /\ moved \subseteq handed
    /\ pc \in {"planning", "planned", "executing"} => advice = "none"
    /\ advice = "retry_all" => handed = {}

\* One more attempt (hops.ts, executeHopChain and describeExecutionFailure).
LEMMA EndsKeeps ==
    ASSUME HopInv, pc = "executing", NEW attempt \in HopAttempt, Ends(attempt),
           UNCHANGED <<chain, moved>>
    PROVE  HopInv'
<1>1. /\ results' = Append(results, attempt) /\ results' \in Seq(HopAttempt)
      /\ Len(results') = Len(results) + 1 /\ Len(results) \in Nat
      /\ results'[Len(results')] = attempt
      /\ \A i \in 1..Len(results) : results'[i] = results[i]
  BY DEF HopInv, Ends
<1>2. attempt.ok \in BOOLEAN
  BY DEF HopAttempt
<1>3. CASE attempt.ok
  <2>1. handed' = handed \cup {Len(results')} /\ advice' = advice
    BY <1>3 DEF Ends
  <2>2. advice' = "none"
    BY <2>1 DEF HopInv
  <2>3. handed' = {i \in 1..Len(results') : results'[i].ok}
    BY <1>1, <1>3, <2>1 DEF HopInv
  <2>4. moved' \subseteq handed'
    BY <2>1 DEF HopInv
  <2> QED BY <1>1, <2>2, <2>3, <2>4 DEF HopInv
<1>4. CASE ~attempt.ok
  <2>1. handed' = handed /\ pc' = "failed" /\ advice' = AdviceFor(results')
    BY <1>4 DEF Ends
  <2>2. handed' = {i \in 1..Len(results') : results'[i].ok}
    BY <1>1, <1>4, <2>1 DEF HopInv
  <2>3. advice' = "retry_all" => \A i \in 1..Len(results) : ~results[i].ok
    BY <1>1, <2>1 DEF AdviceFor
  <2>4. advice' = "retry_all" => handed' = {}
    BY <2>1, <2>3 DEF HopInv
  <2> QED BY <1>1, <2>1, <2>2, <2>4 DEF HopInv
<1> QED BY <1>2, <1>3, <1>4

\* Whatever is planned, attempted or moved keeps it.
LEMMA HopStep == HopInv /\ [HopNext]_hopVars => HopInv'
<1> SUFFICES ASSUME HopInv, [HopNext]_hopVars
             PROVE  HopInv'
  OBVIOUS
<1>1. CASE EmptyChain
  BY <1>1 DEF EmptyChain, HopInv
<1>2. CASE PlanHop
  <2>1. UNCHANGED <<chain, results, advice, handed, moved>> /\ advice = "none"
    BY <1>2 DEF PlanHop, HopInv
  <2> QED BY <2>1 DEF HopInv
<1>3. CASE ExecuteChain
  BY <1>3 DEF ExecuteChain, HopInv
<1>4. CASE ExecuteHop
  <2>1. PICK attempt : Ends(attempt) /\ attempt \in HopAttempt
    <3> DEFINE hop == steps[Len(results) + 1]
    <3>1. CASE Ends([ok |-> FALSE, by |-> {}])
      <4>1. [ok |-> FALSE, by |-> {}] \in HopAttempt
        BY DEF HopAttempt
      <4> QED BY <3>1, <4>1
    <3>2. ASSUME NEW h \in HopById(hop.hopId), NEW ok \in BOOLEAN,
                 Ends([ok |-> ok, by |-> {h}]), HopInv
          PROVE  \E attempt : Ends(attempt) /\ attempt \in HopAttempt
      <4>1. h \in Hop
        BY <3>2 DEF HopById, HopInv
      <4>2. [ok |-> ok, by |-> {h}] \in HopAttempt
        BY <4>1 DEF HopAttempt
      <4> QED BY <3>2, <4>2
    <3> QED BY <1>4, <3>1, <3>2 DEF ExecuteHop
  <2> QED BY <1>4, <2>1, EndsKeeps DEF ExecuteHop
<1>5. ASSUME NEW i \in 1..MaxHops, Move(i)
      PROVE  HopInv'
  <2>1. moved' = moved \cup {i} /\ i \in handed /\ UNCHANGED <<chain, pc, results, advice, handed>>
    BY <1>5 DEF Move
  <2> QED BY <2>1 DEF HopInv
<1>6. CASE UNCHANGED hopVars
  BY <1>6 DEF hopVars, HopInv
<1> QED BY <1>1, <1>2, <1>3, <1>4, <1>5, <1>6 DEF HopNext

\* A failed chain is called safe to retry only while the user holds nothing of it that
\* has moved funds or still can (hops.ts:71-74), however many hops it has.
THEOREM RetryAdviceIsAlwaysSafe == HopSpec => []RetryAdviceIsSafe
<1>1. HopInit => HopInv
  <2> SUFFICES ASSUME HopInit PROVE HopInv
    OBVIOUS
  <2>1. \A i \in DOMAIN chain : chain[i] \in Hop
    <3>1. PICK m \in 0..MaxHops : chain \in [1..m -> Hop]
      BY DEF HopInit, BoundedSeq, SeqOf
    <3> QED BY <3>1
  <2>2. results = <<>> /\ handed = {} /\ moved = {} /\ advice = "none"
    BY DEF HopInit
  <2>3. results \in Seq(HopAttempt) /\ Len(results) = 0
    BY <2>2
  <2> QED BY <2>1, <2>2, <2>3 DEF HopInv
<1>2. HopInv => RetryAdviceIsSafe
  BY DEF HopInv, RetryAdviceIsSafe
<1> QED BY <1>1, <1>2, HopStep, PTL DEF HopSpec

\* How far the plan and its execution have come: an execution takes up a whole plan, and
\* there is a next step of it as long as it goes on.
HopShape ==
    /\ chain \in Seq(Hop) /\ Len(chain) <= MaxHops
    /\ steps \in Seq(PlanStep) /\ Len(steps) <= Len(chain)
    /\ results \in Seq(HopAttempt) /\ Len(results) <= Len(steps)
    /\ pc \in {"planning", "aborted", "planned", "executing", "ok", "failed"}
    /\ pc \in {"planning", "planned"} => results = <<>>
    /\ pc = "planned" => steps # <<>>
    /\ pc = "executing" => Len(results) < Len(steps)
    /\ advice \in {"none", "retry_all", "do_not_repeat"}
    /\ handed \subseteq 1..Len(results) /\ moved \subseteq handed

\* A sequence of bounded length, in the terms of the type invariant.
LEMMA BoundedMeans ==
    ASSUME NEW S, NEW n \in Nat
    PROVE  /\ \A s \in BoundedSeq(S, n) : s \in Seq(S) /\ Len(s) <= n
           /\ \A s \in Seq(S) : Len(s) <= n => s \in BoundedSeq(S, n)
<1>1. ASSUME NEW s \in BoundedSeq(S, n) PROVE s \in Seq(S) /\ Len(s) <= n
  <2>1. PICK m \in 0..n : s \in [1..m -> S]
    BY DEF BoundedSeq, SeqOf
  <2> QED BY <2>1
<1>2. ASSUME NEW s \in Seq(S), Len(s) <= n PROVE s \in BoundedSeq(S, n)
  <2>1. s \in [1..Len(s) -> S] /\ Len(s) \in 0..n
    BY <1>2
  <2> QED BY <2>1 DEF BoundedSeq, SeqOf
<1> QED BY <1>1, <1>2

\* A hop is planned on the output of the one before it (hops.ts, planHopChain).
LEMMA PlanKeepsShape == ASSUME HopShape, PlanHop PROVE HopShape'
<1>1. /\ pc = "planning" /\ Len(steps) < Len(chain)
      /\ UNCHANGED <<chain, results, advice, handed, moved>>
  BY DEF PlanHop
<1>2. CASE pc' = "aborted" /\ UNCHANGED steps
  BY <1>1, <1>2 DEF HopShape
<1>3. ASSUME NEW new \in PlanStep, steps' = Append(steps, new),
             pc' = IF Len(steps') = Len(chain) THEN "planned" ELSE pc
      PROVE  HopShape'
  <2>1. steps' \in Seq(PlanStep) /\ Len(steps') = Len(steps) + 1 /\ Len(steps) \in Nat
        /\ Len(chain) \in Nat
    BY <1>3 DEF HopShape
  <2>2. Len(steps') <= Len(chain) /\ steps' # <<>> /\ Len(results) = 0
    BY <1>1, <2>1 DEF HopShape
  <2> QED BY <1>1, <1>3, <2>1, <2>2 DEF HopShape
<1> DEFINE h == chain[Len(steps) + 1]
<1>4. h \in Hop
  BY <1>1 DEF HopShape
<1> HIDE DEF h
<1>5. ASSUME NEW input \in Asset,
             steps' = Append(steps, [hopId |-> HopId[h], input |-> input, output |-> Produces(h)])
      PROVE  \E new \in PlanStep : steps' = Append(steps, new)
  <2>1. Produces(h) \in Asset
    BY DEF Produces, Asset
  <2>2. [hopId |-> HopId[h], input |-> input, output |-> Produces(h)] \in PlanStep
    BY <1>4, <2>1 DEF PlanStep
  <2> QED BY <1>5, <2>2
<1>6. (IF steps = <<>> THEN Asset ELSE {Last(steps).output}) \subseteq Asset
  <2>1. CASE steps # <<>>
    <3>1. steps[Len(steps)] \in PlanStep
      BY <2>1 DEF HopShape
    <3>2. steps[Len(steps)].output \in Asset
      BY <3>1 DEF PlanStep
    <3> QED BY <2>1, <3>2 DEF Last
  <2> QED BY <2>1
<1> QED BY <1>2, <1>3, <1>5, <1>6 DEF PlanHop, h

\* One more attempt, of a step the plan has (hops.ts, executeHopChain).
LEMMA AttemptKeepsShape ==
    ASSUME HopShape, pc = "executing", NEW attempt \in HopAttempt, Ends(attempt),
           UNCHANGED <<chain, steps, moved>>
    PROVE  HopShape'
<1>1. /\ results' = Append(results, attempt) /\ results' \in Seq(HopAttempt)
      /\ Len(results') = Len(results) + 1 /\ Len(results) \in Nat /\ Len(steps) \in Nat
  BY DEF HopShape, Ends
<1>2. Len(results') <= Len(steps)
  BY <1>1 DEF HopShape
<1>3. 1..Len(results) \subseteq 1..Len(results') /\ Len(results') \in 1..Len(results')
  BY <1>1
<1>4. CASE attempt.ok
  <2>1. /\ handed' = handed \cup {Len(results')} /\ advice' = advice
        /\ pc' = IF Len(results') = Len(steps) THEN "ok" ELSE pc
    BY <1>4 DEF Ends
  <2>2. handed' \subseteq 1..Len(results') /\ moved' \subseteq handed'
    BY <1>3, <2>1 DEF HopShape
  <2>3. pc' = "executing" => Len(results') < Len(steps)
    BY <1>1, <1>2, <2>1
  <2>4. pc' \in {"ok", "executing"}
    BY <2>1
  <2> QED BY <1>1, <1>2, <2>1, <2>2, <2>3, <2>4 DEF HopShape
<1>5. CASE ~attempt.ok
  <2>1. handed' = handed /\ pc' = "failed" /\ advice' \in {"retry_all", "do_not_repeat"}
    BY <1>5 DEF Ends, AdviceFor
  <2>2. handed' \subseteq 1..Len(results') /\ moved' \subseteq handed'
    BY <1>3, <2>1 DEF HopShape
  <2> QED BY <1>1, <1>2, <2>1, <2>2 DEF HopShape
<1> QED BY <1>4, <1>5

\* Every step keeps the shape of the plan and of its execution.
LEMMA ShapeStep == HopShape /\ [HopNext]_hopVars => HopShape'
<1> SUFFICES ASSUME HopShape, [HopNext]_hopVars PROVE HopShape'
  OBVIOUS
<1>1. CASE EmptyChain
  BY <1>1 DEF EmptyChain, HopShape
<1>2. CASE PlanHop
  BY <1>2, PlanKeepsShape
<1>3. CASE ExecuteChain
  <2>1. /\ pc = "planned" /\ pc' = "executing"
        /\ UNCHANGED <<chain, steps, results, advice, handed, moved>>
    BY <1>3 DEF ExecuteChain
  <2>2. Len(results) = 0 /\ Len(steps) \in Nat /\ Len(steps) # 0
    BY <2>1 DEF HopShape
  <2> QED BY <2>1, <2>2 DEF HopShape
<1>4. CASE ExecuteHop
  <2>1. PICK attempt \in HopAttempt : Ends(attempt)
    <3> DEFINE hop == steps[Len(results) + 1]
    <3>1. CASE Ends([ok |-> FALSE, by |-> {}])
      <4>1. [ok |-> FALSE, by |-> {}] \in HopAttempt
        BY DEF HopAttempt
      <4> QED BY <3>1, <4>1
    <3>2. ASSUME NEW h \in HopById(hop.hopId), NEW ok \in BOOLEAN, Ends([ok |-> ok, by |-> {h}])
          PROVE  \E attempt \in HopAttempt : Ends(attempt)
      <4>1. h \in Hop
        BY DEF HopById, HopShape
      <4>2. [ok |-> ok, by |-> {h}] \in HopAttempt
        BY <4>1 DEF HopAttempt
      <4> QED BY <3>2, <4>2
    <3> QED BY <1>4, <3>1, <3>2 DEF ExecuteHop
  <2> QED BY <1>4, <2>1, AttemptKeepsShape DEF ExecuteHop
<1>5. ASSUME NEW i \in 1..MaxHops, Move(i) PROVE HopShape'
  <2>1. /\ moved' = moved \cup {i} /\ i \in handed
        /\ UNCHANGED <<chain, pc, steps, results, advice, handed>>
    BY <1>5 DEF Move
  <2> QED BY <2>1 DEF HopShape
<1>6. CASE UNCHANGED hopVars
  BY <1>6 DEF hopVars, HopShape
<1> QED BY <1>1, <1>2, <1>3, <1>4, <1>5, <1>6 DEF HopNext

\* A plan and its attempts are never longer than the chain, and only what was handed out
\* moves (hops.ts, planHopChain and executeHopChain).
THEOREM HopTypes == HopSpec => []HopTypeOK
<1>1. HopInit => HopShape
  <2> SUFFICES ASSUME HopInit PROVE HopShape
    OBVIOUS
  <2>1. chain \in Seq(Hop) /\ Len(chain) <= MaxHops /\ Len(chain) \in Nat
    BY HopAssumption, BoundedMeans DEF HopInit
  <2> QED BY <2>1 DEF HopInit, HopShape
<1>2. HopShape => HopTypeOK
  <2> SUFFICES ASSUME HopShape PROVE HopTypeOK
    OBVIOUS
  <2>1. Len(chain) \in Nat /\ Len(steps) \in Nat /\ Len(results) \in Nat /\ MaxHops \in Nat
    BY HopAssumption DEF HopShape
  <2>2. Len(steps) <= MaxHops /\ Len(results) <= MaxHops
    BY <2>1 DEF HopShape
  <2>3. /\ chain \in BoundedSeq(Hop, MaxHops) /\ steps \in BoundedSeq(PlanStep, MaxHops)
        /\ results \in BoundedSeq(HopAttempt, MaxHops)
    BY <2>1, <2>2, BoundedMeans DEF HopShape
  <2>4. handed \subseteq 1..MaxHops
    BY <2>1, <2>2 DEF HopShape
  <2> QED BY <2>3, <2>4 DEF HopShape, HopTypeOK
<1> QED BY <1>1, <1>2, ShapeStep, PTL DEF HopSpec

-----------------------------------------------------------------------------
(* Webhooks.  A delivery and its log are judged together (Honest), by how  *)
(* far the delivery has come.                                              *)

Logged == {"success", "dead_letter"}
JobState ==
    [pc : {"send", "success", "dead_letter", "done", "lost"}, attempts : 0..MaxAttempts,
     acks : 0..MaxAttempts, blocked : BOOLEAN, unlogged : BOOLEAN]
Delivery == EventId \X Subscription

Has(l, status) == \E k \in 1..Len(l) : l[k] = status

\* The attempts a delivery has before it is a dead letter.
Full(d) == IF d.blocked THEN 0 ELSE MaxAttempts

\* What the log l may hold of a delivery d.
Honest(d, l) ==
    /\ d.acks <= d.attempts /\ d.attempts <= Full(d)
    /\ Has(l, "success") => d.acks > 0
    /\ Has(l, "dead_letter") => d.pc = "done" /\ d.attempts = Full(d)
    /\ d.pc = "send" => d.attempts < Full(d)
    /\ d.pc = "success" => d.acks > 0
    /\ d.pc = "dead_letter" => d.attempts = Full(d)
    /\ d.acks > 0 /\ d.pc \in {"send", "dead_letter"} => d.unlogged
    /\ Has(l, "dead_letter") /\ d.acks > 0 => d.unlogged
    /\ d.unlogged \/ d.pc = "lost" \/ Len(l) = (IF d.pc = "done" THEN 1 ELSE 0)

\* The deliveries are of events that were dispatched, and their log is honest.
DeliveriesOK ==
    /\ events \in Seq(Kind) /\ Len(events) <= MaxEvents
    /\ queued \subseteq 1..Len(events)
    /\ DOMAIN subs \subseteq Subscription /\ subs \in [DOMAIN subs -> Endpoint]
    /\ Job \subseteq Delivery /\ jobs \in [Job -> JobState]
    /\ log \in [Delivery -> Seq(Logged)]
    /\ \A j \in Job : j[1] \in 1..Len(events) /\ j[1] \notin queued
    /\ \A j \in Delivery \ Job : log[j] = <<>>
    /\ \A j \in Job : Honest(jobs[j], log[j])

HealthTypes ==
    /\ committed \in Ledger
    /\ snapshot \subseteq Ledger /\ \A s, t \in snapshot : s = t
    /\ run \in [pc : {"idle", "read", "store"}, next : Ledger, prev : SUBSET Ledger]
    /\ told \subseteq WatchedAnchor /\ assumed \subseteq told
    /\ deploys \in 0..MaxDeploys
    /\ faults \in 0..MaxFaults
    /\ unsaved \subseteq WatchedAnchor /\ departed \subseteq WatchedAnchor

\* Of the anchors that are not excepted, the events say what a ledger says.
Agrees(excepted, l) ==
    \A a \in WatchedAnchor \ excepted : a \in told <=> a \in l.degraded

\* The health runs: what a run has read is what is stored, and was told; a run that has
\* told its changes has left the others.
HealthOK ==
    /\ HealthTypes
    /\ run.pc # "idle" => run.prev = snapshot
    /\ run.pc # "store" => \A s \in snapshot : Agrees(unsaved \cup departed, s)
    /\ run.pc = "store" =>
         /\ run.prev = {} => Agrees({}, run.next)
         /\ \A a \in Changed : a \in told <=> a \in run.next.degraded
         /\ \A prev \in run.prev : Agrees(Changed \cup unsaved \cup departed, prev)

HooksInv == DeliveriesOK /\ HealthOK

\* Delivery j, and no other, becomes d.
Becomes(j, d) ==
    /\ Job' = Job
    /\ d \in JobState => jobs' \in [Job -> JobState]
    /\ jobs'[j] = d
    /\ \A i \in Job : i # j => jobs'[i] = jobs[i]

\* The fields of a delivery that change together: with an attempt,
LEMMA AttemptWon ==
    ASSUME jobs \in [Job -> JobState], NEW j \in Job, NEW n, NEW p, NEW a,
           jobs' = [jobs EXCEPT ![j].attempts = n, ![j].pc = p, ![j].acks = a]
    PROVE  Becomes(j, [pc |-> p, attempts |-> n, acks |-> a,
                       blocked |-> jobs[j].blocked, unlogged |-> jobs[j].unlogged])
<1> DEFINE d == [pc |-> p, attempts |-> n, acks |-> a,
                 blocked |-> jobs[j].blocked, unlogged |-> jobs[j].unlogged]
<1>1. Job' = Job /\ \A i \in Job : i # j => jobs'[i] = jobs[i]
  BY DEF Job
<1>2. jobs'[j] = [jobs[j] EXCEPT !.attempts = n, !.pc = p, !.acks = a]
  BY DEF Job
<1>3. jobs'[j] = d
  <2>1. jobs[j] \in JobState
    OBVIOUS
  <2> QED BY <1>2, <2>1 DEF JobState
<1>4. ASSUME d \in JobState PROVE jobs' \in [Job -> JobState]
  BY <1>1, <1>3, <1>4 DEF Job
<1> QED BY <1>1, <1>3, <1>4 DEF Becomes

\* with one that failed,
LEMMA AttemptFailed ==
    ASSUME jobs \in [Job -> JobState], NEW j \in Job, NEW n, NEW p,
           jobs' = [jobs EXCEPT ![j].attempts = n, ![j].pc = p]
    PROVE  Becomes(j, [pc |-> p, attempts |-> n, acks |-> jobs[j].acks,
                       blocked |-> jobs[j].blocked, unlogged |-> jobs[j].unlogged])
<1> DEFINE d == [pc |-> p, attempts |-> n, acks |-> jobs[j].acks,
                 blocked |-> jobs[j].blocked, unlogged |-> jobs[j].unlogged]
<1>1. Job' = Job /\ \A i \in Job : i # j => jobs'[i] = jobs[i]
  BY DEF Job
<1>2. jobs'[j] = [jobs[j] EXCEPT !.attempts = n, !.pc = p]
  BY DEF Job
<1>3. jobs'[j] = d
  <2>1. jobs[j] \in JobState
    OBVIOUS
  <2> QED BY <1>2, <2>1 DEF JobState
<1>4. ASSUME d \in JobState PROVE jobs' \in [Job -> JobState]
  BY <1>1, <1>3, <1>4 DEF Job
<1> QED BY <1>1, <1>3, <1>4 DEF Becomes

\* with its record,
LEMMA Recorded ==
    ASSUME jobs \in [Job -> JobState], NEW j \in Job, NEW p,
           jobs' = [jobs EXCEPT ![j].pc = p]
    PROVE  Becomes(j, [pc |-> p, attempts |-> jobs[j].attempts, acks |-> jobs[j].acks,
                       blocked |-> jobs[j].blocked, unlogged |-> jobs[j].unlogged])
<1> DEFINE d == [pc |-> p, attempts |-> jobs[j].attempts, acks |-> jobs[j].acks,
                 blocked |-> jobs[j].blocked, unlogged |-> jobs[j].unlogged]
<1>1. Job' = Job /\ \A i \in Job : i # j => jobs'[i] = jobs[i]
  BY DEF Job
<1>2. jobs'[j] = [jobs[j] EXCEPT !.pc = p]
  BY DEF Job
<1>3. jobs'[j] = d
  <2>1. jobs[j] \in JobState
    OBVIOUS
  <2> QED BY <1>2, <2>1 DEF JobState
<1>4. ASSUME d \in JobState PROVE jobs' \in [Job -> JobState]
  BY <1>1, <1>3, <1>4 DEF Job
<1> QED BY <1>1, <1>3, <1>4 DEF Becomes

\* and with a record whose write failed.
LEMMA Unrecorded ==
    ASSUME jobs \in [Job -> JobState], NEW j \in Job, NEW p,
           jobs' = [jobs EXCEPT ![j].unlogged = TRUE, ![j].pc = p]
    PROVE  Becomes(j, [pc |-> p, attempts |-> jobs[j].attempts, acks |-> jobs[j].acks,
                       blocked |-> jobs[j].blocked, unlogged |-> TRUE])
<1> DEFINE d == [pc |-> p, attempts |-> jobs[j].attempts, acks |-> jobs[j].acks,
                 blocked |-> jobs[j].blocked, unlogged |-> TRUE]
<1>1. Job' = Job /\ \A i \in Job : i # j => jobs'[i] = jobs[i]
  BY DEF Job
<1>2. jobs'[j] = [jobs[j] EXCEPT !.unlogged = TRUE, !.pc = p]
  BY DEF Job
<1>3. jobs'[j] = d
  <2>1. jobs[j] \in JobState
    OBVIOUS
  <2> QED BY <1>2, <2>1 DEF JobState
<1>4. ASSUME d \in JobState PROVE jobs' \in [Job -> JobState]
  BY <1>1, <1>3, <1>4 DEF Job
<1> QED BY <1>1, <1>3, <1>4 DEF Becomes

\* One delivery goes on to d, and its log to l.
LEMMA DeliveryGoesOn ==
    ASSUME DeliveriesOK, NEW j \in Job, NEW d \in JobState, NEW l \in Seq(Logged),
           Honest(d, l), Becomes(j, d), log' = [log EXCEPT ![j] = l],
           UNCHANGED <<subs, events, queued>>
    PROVE  DeliveriesOK'
<1>1. /\ Job' = Job /\ jobs' \in [Job -> JobState] /\ jobs'[j] = d
      /\ \A i \in Job : i # j => jobs'[i] = jobs[i]
  BY DEF Becomes
<1>2. j \in Delivery /\ log'[j] = l /\ log' \in [Delivery -> Seq(Logged)]
  BY DEF DeliveriesOK
<1>3. \A i \in Delivery : i # j => log'[i] = log[i]
  BY DEF DeliveriesOK
<1>4. ASSUME NEW i \in Job PROVE Honest(jobs'[i], log'[i])
  <2>1. CASE i = j
    BY <1>1, <1>2, <2>1
  <2>2. CASE i # j
    <3>1. jobs'[i] = jobs[i] /\ log'[i] = log[i]
      BY <1>1, <1>3, <2>2 DEF DeliveriesOK
    <3> QED BY <3>1 DEF DeliveriesOK
  <2> QED BY <2>1, <2>2
<1>5. \A i \in Delivery \ Job' : log'[i] = <<>>
  BY <1>1, <1>3 DEF DeliveriesOK
<1> QED BY <1>1, <1>2, <1>4, <1>5 DEF DeliveriesOK

\* One delivery goes on and its log stays.
LEMMA DeliverySilent ==
    ASSUME DeliveriesOK, NEW j \in Job, NEW d \in JobState,
           Honest(d, log[j]), Becomes(j, d),
           UNCHANGED <<subs, events, queued, log>>
    PROVE  DeliveriesOK'
<1>1. log' = [log EXCEPT ![j] = log[j]] /\ log[j] \in Seq(Logged)
  BY DEF DeliveriesOK
<1> QED BY <1>1, DeliveryGoesOn

\* What is known of a delivery in progress.
LEMMA OneDelivery ==
    ASSUME DeliveriesOK, NEW j \in Job
    PROVE  /\ jobs \in [Job -> JobState] /\ jobs[j] \in JobState
           /\ log[j] \in Seq(Logged) /\ Honest(jobs[j], log[j])
           /\ MaxAttempts \in Nat \ {0}
<1>1. MaxAttempts \in Nat \ {0}
  BY WebhookAssumption DEF WebhookAssumption
<1> QED BY <1>1 DEF DeliveriesOK

\* A POST (dispatch.ts, attemptDelivery).
LEMMA AttemptKeeps == ASSUME DeliveriesOK, NEW j \in Job, Attempt(j) PROVE DeliveriesOK'
<1> DEFINE d == jobs[j]
           n == d.attempts + 1
           won == [pc |-> "success", attempts |-> n, acks |-> d.acks + 1,
                   blocked |-> d.blocked, unlogged |-> d.unlogged]
           missed == [pc |-> AfterFailure(n), attempts |-> n, acks |-> d.acks,
                      blocked |-> d.blocked, unlogged |-> d.unlogged]
<1>1. d \in JobState /\ d.pc = "send" /\ Honest(d, log[j]) /\ MaxAttempts \in Nat \ {0}
  BY OneDelivery DEF Attempt
<1>a. ~d.blocked /\ Full(d) = MaxAttempts
  BY <1>1 DEF JobState, Honest, Full
<1>2. n \in 0..MaxAttempts /\ d.acks + 1 \in 0..MaxAttempts /\ d.acks + 1 <= n
  BY <1>1, <1>a DEF JobState, Honest
<1>b. Full(won) = MaxAttempts /\ Full(missed) = MaxAttempts
  BY <1>a DEF Full
<1>3. won \in JobState /\ missed \in JobState
  BY <1>1, <1>2 DEF JobState, AfterFailure
<1>4. Honest(won, log[j])
  BY <1>1, <1>2, <1>a, <1>b DEF JobState, Honest
<1>5. Honest(missed, log[j])
  BY <1>1, <1>2, <1>a, <1>b DEF JobState, Honest, AfterFailure
<1>6. UNCHANGED <<subs, events, queued, log>>
  BY DEF Attempt
<1>7. Becomes(j, won) \/ Becomes(j, missed)
  <2>1. \/ jobs' = [jobs EXCEPT ![j].attempts = n, ![j].pc = "success", ![j].acks = @ + 1]
        \/ jobs' = [jobs EXCEPT ![j].attempts = n, ![j].pc = AfterFailure(n)]
    BY DEF Attempt
  <2>2. CASE jobs' = [jobs EXCEPT ![j].attempts = n, ![j].pc = "success", ![j].acks = @ + 1]
    <3>1. jobs' = [jobs EXCEPT ![j].attempts = n, ![j].pc = "success", ![j].acks = d.acks + 1]
      BY <2>2, OneDelivery DEF JobState
    <3> QED BY <3>1, OneDelivery, AttemptWon
  <2>3. CASE jobs' = [jobs EXCEPT ![j].attempts = n, ![j].pc = AfterFailure(n)]
    BY <2>3, OneDelivery, AttemptFailed
  <2> QED BY <2>1, <2>2, <2>3
<1> HIDE DEF won, missed
<1> QED BY <1>3, <1>4, <1>5, <1>6, <1>7, DeliverySilent

\* A record is added at the end of a log.
LEMMA AppendHas ==
    ASSUME NEW l \in Seq(Logged), NEW x \in Logged
    PROVE  /\ Append(l, x) \in Seq(Logged) /\ Len(Append(l, x)) = Len(l) + 1
           /\ \A y : Has(Append(l, x), y) <=> (Has(l, y) \/ y = x)
<1>1. Append(l, x) \in Seq(Logged) /\ Len(Append(l, x)) = Len(l) + 1 /\ Len(l) \in Nat
  OBVIOUS
<1>2. /\ \A k \in 1..Len(l) : Append(l, x)[k] = l[k]
      /\ Append(l, x)[Len(l) + 1] = x
  OBVIOUS
<1>3. ASSUME NEW y PROVE Has(Append(l, x), y) <=> (Has(l, y) \/ y = x)
  <2>1. \A k \in 1..Len(l) + 1 : k \in 1..Len(l) \/ k = Len(l) + 1
    BY <1>1
  <2>2. (\A k \in 1..Len(l) : k \in 1..Len(l) + 1) /\ Len(l) + 1 \in 1..Len(l) + 1
    BY <1>1
  <2> QED BY <1>1, <1>2, <2>1, <2>2 DEF Has
<1> QED BY <1>1, <1>3

\* A delivery's record, and what follows when its write fails (dispatch.ts, recordDelivery).
LEMMA RecordKeeps == ASSUME DeliveriesOK, NEW j \in Job, RecordDelivery(j) PROVE DeliveriesOK'
<1> DEFINE d == jobs[j]
           l == Append(log[j], d.pc)
           p == IF d.pc = "success" THEN AfterFailure(d.attempts) ELSE "done"
           kept == [pc |-> "done", attempts |-> d.attempts, acks |-> d.acks,
                    blocked |-> d.blocked, unlogged |-> d.unlogged]
           lost == [pc |-> p, attempts |-> d.attempts, acks |-> d.acks,
                    blocked |-> jobs[j].blocked, unlogged |-> TRUE]
<1>1. /\ d \in JobState /\ d.pc \in Logged /\ Honest(d, log[j]) /\ log[j] \in Seq(Logged)
      /\ MaxAttempts \in Nat \ {0} /\ jobs \in [Job -> JobState]
  BY OneDelivery DEF RecordDelivery, Logged
<1>2. kept \in JobState /\ lost \in JobState
  BY <1>1 DEF JobState, AfterFailure, Logged
<1>3. /\ l \in Seq(Logged) /\ Len(l) = Len(log[j]) + 1 /\ Len(log[j]) \in Nat
      /\ \A y : Has(l, y) <=> (Has(log[j], y) \/ y = d.pc)
  BY <1>1, AppendHas
<1>4. UNCHANGED <<subs, events, queued>>
  BY DEF RecordDelivery
<1>5. d.attempts \in 0..MaxAttempts /\ d.acks \in 0..MaxAttempts
  BY <1>1 DEF JobState
<1>a. Full(kept) = Full(d) /\ Full(lost) = Full(d) /\ Full(d) \in Nat
  BY <1>1 DEF Full
<1>b. d.pc = "success" => Full(d) = MaxAttempts
  BY <1>1, <1>5 DEF Honest, Full
<1>6. Honest(kept, l)
  <2>1. Has(l, "success") => d.acks > 0
    BY <1>1, <1>3 DEF Honest
  <2>2. Has(l, "dead_letter") => d.attempts = Full(d)
    BY <1>1, <1>3 DEF Honest
  <2>3. Has(l, "dead_letter") /\ d.acks > 0 => d.unlogged
    BY <1>1, <1>3, <1>5 DEF Honest
  <2>4. d.unlogged \/ Len(l) = 1
    BY <1>1, <1>3 DEF Honest, Logged
  <2>5. d.acks <= d.attempts /\ d.attempts <= Full(d)
    BY <1>1 DEF Honest
  <2> HIDE DEF l
  <2> QED BY <1>a, <2>1, <2>2, <2>3, <2>4, <2>5 DEF Honest
<1>7. Honest(lost, l) /\ Honest(lost, log[j])
  <2>1. /\ lost.attempts = d.attempts /\ lost.acks = d.acks /\ lost.unlogged = TRUE
        /\ lost.pc = p
    OBVIOUS
  <2>2. /\ p = "send" => d.attempts < Full(d)
        /\ p = "dead_letter" => d.attempts = Full(d)
        /\ p # "success"
    BY <1>1, <1>5, <1>b DEF Honest, AfterFailure, Logged
  <2>3. ASSUME Has(log[j], "dead_letter") \/ d.pc = "dead_letter"
        PROVE  p = "done" /\ d.attempts = Full(d)
    BY <1>1, <2>3 DEF Honest, Logged
  <2>4. Has(log[j], "success") \/ d.pc = "success" => d.acks > 0
    BY <1>1 DEF Honest
  <2>5. d.acks <= d.attempts /\ d.attempts <= Full(d)
    BY <1>1 DEF Honest
  <2> HIDE DEF lost, l, p
  <2> QED BY <1>3, <1>a, <2>1, <2>2, <2>3, <2>4, <2>5 DEF Honest
<1>8. CASE /\ log' = [log EXCEPT ![j] = Append(@, jobs[j].pc)]
           /\ jobs' = [jobs EXCEPT ![j].pc = "done"]
  <2>1. Becomes(j, kept)
    BY <1>1, <1>8, Recorded
  <2>2. log' = [log EXCEPT ![j] = l]
    BY <1>8
  <2> HIDE DEF kept, l
  <2> QED BY <1>2, <1>3, <1>4, <1>6, <2>1, <2>2, DeliveryGoesOn
<1>9. CASE /\ log' = log \/ log' = [log EXCEPT ![j] = Append(@, jobs[j].pc)]
           /\ jobs' = [jobs EXCEPT ![j].unlogged = TRUE,
                                   ![j].pc = IF @ = "success"
                                             THEN AfterFailure(jobs[j].attempts) ELSE "done"]
  <2>1. jobs' = [jobs EXCEPT ![j].unlogged = TRUE, ![j].pc = p]
    BY <1>1, <1>9
  <2>2. Becomes(j, lost)
    <3> HIDE DEF p
    <3> QED BY <1>1, <2>1, Unrecorded
  <2>3. log' = log \/ log' = [log EXCEPT ![j] = l]
    BY <1>9
  <2> HIDE DEF lost, l
  <2> QED BY <1>2, <1>3, <1>4, <1>7, <2>2, <2>3, DeliveryGoesOn, DeliverySilent
<1> QED BY <1>8, <1>9 DEF RecordDelivery

\* An invocation that dies takes its deliveries with it.
LEMMA DeliveriesDie == ASSUME DeliveriesOK, NEW es, Die(es) PROVE DeliveriesOK'
<1> DEFINE lost(d) == [d EXCEPT !.pc = "lost"]
           gone(i) == i[1] \in es /\ jobs[i].pc # "done"
<1>1. /\ jobs' = [i \in Job |-> IF gone(i) THEN lost(jobs[i]) ELSE jobs[i]]
      /\ queued' = queued \ es /\ UNCHANGED <<subs, events, log>>
  BY DEF Die
<1>2. \A d \in JobState : /\ lost(d) \in JobState /\ lost(d).pc = "lost"
                          /\ lost(d).attempts = d.attempts /\ lost(d).acks = d.acks
                          /\ lost(d).unlogged = d.unlogged /\ Full(lost(d)) = Full(d)
  BY DEF JobState, Full
<1>3. Job' = Job
  BY <1>1 DEF Job
<1>4. ASSUME NEW i \in Job PROVE jobs'[i] \in JobState /\ Honest(jobs'[i], log[i])
  <2>1. jobs[i] \in JobState /\ Honest(jobs[i], log[i])
    BY OneDelivery
  <2>2. CASE ~gone(i)
    <3>1. jobs'[i] = jobs[i]
      BY <1>1, <2>2
    <3> QED BY <2>1, <3>1
  <2>3. CASE gone(i)
    <3>1. jobs'[i] = lost(jobs[i])
      BY <1>1, <2>3
    <3> HIDE DEF lost
    <3>2. Honest(lost(jobs[i]), log[i])
      BY <1>2, <2>1, <2>3 DEF Honest
    <3> QED BY <1>2, <2>1, <3>1, <3>2
  <2> QED BY <2>2, <2>3
<1>5. jobs' \in [Job -> JobState]
  <2> HIDE DEF lost, gone
  <2> QED BY <1>1, <1>4
<1> HIDE DEF lost, gone
<1> QED BY <1>1, <1>3, <1>4, <1>5 DEF DeliveriesOK

\* A dispatch begins deliveries that were not there before.
LEMMA DispatchKeeps ==
    ASSUME DeliveriesOK, NEW e \in EventId, Dispatch(e) PROVE DeliveriesOK'
<1> DEFINE begun == {<<e, s>> : s \in {t \in DOMAIN subs : events[e] \in subs[t].kinds}}
<1>1. /\ e \in queued /\ queued' = queued \ {e} /\ e \in 1..Len(events)
      /\ UNCHANGED <<subs, events, log>>
  BY DEF Dispatch, DeliveriesOK
<1>2. MaxAttempts \in Nat \ {0}
  BY WebhookAssumption DEF WebhookAssumption
<1>3. CASE jobs' = jobs
  <2>1. Job' = Job
    BY <1>3 DEF Job
  <2> QED BY <1>1, <1>3, <2>1 DEF DeliveriesOK
<1>4. CASE jobs' = [j \in Job \cup begun |-> IF j \in begun THEN NewDelivery(j[2]) ELSE jobs[j]]
  <2>1. Job' = Job \cup begun
    BY <1>4 DEF Job
  <2>2. \A j \in begun : j \in Delivery /\ j[1] = e /\ j[2] \in DOMAIN subs
    BY DEF Delivery, DeliveriesOK
  <2>3. \A s \in DOMAIN subs : subs[s].blocked \in BOOLEAN
    BY DEF DeliveriesOK, Endpoint
  <2>4. \A j \in begun : j \notin Job
    BY <1>1, <2>2 DEF DeliveriesOK
  <2>5. \A j \in begun : log[j] = <<>>
    BY <2>2, <2>4 DEF DeliveriesOK
  <2>6. ASSUME NEW s \in DOMAIN subs PROVE NewDelivery(s) \in JobState /\ Honest(NewDelivery(s), <<>>)
    <3>1. \A y : ~Has(<<>>, y)
      BY DEF Has
    <3>2. NewDelivery(s) \in JobState
      BY <1>2, <2>3 DEF NewDelivery, JobState
    <3>3. /\ NewDelivery(s).attempts = 0 /\ NewDelivery(s).acks = 0 /\ NewDelivery(s).unlogged = FALSE
          /\ NewDelivery(s).blocked = subs[s].blocked
          /\ NewDelivery(s).pc = IF subs[s].blocked THEN "dead_letter" ELSE "send"
      BY DEF NewDelivery
    <3>4. Full(NewDelivery(s)) = IF subs[s].blocked THEN 0 ELSE MaxAttempts
      BY <3>3 DEF Full
    <3>5. Honest(NewDelivery(s), <<>>)
      BY <1>2, <3>1, <3>3, <3>4 DEF Honest
    <3> QED BY <3>2, <3>5
  <2>7. ASSUME NEW j \in Job'
        PROVE  jobs'[j] \in JobState /\ Honest(jobs'[j], log[j])
    <3>1. CASE j \in begun
      <4>1. jobs'[j] = NewDelivery(j[2])
        BY <1>4, <3>1
      <4> QED BY <2>2, <2>5, <2>6, <3>1, <4>1
    <3>2. CASE j \notin begun
      <4>1. jobs'[j] = jobs[j] /\ j \in Job
        BY <1>4, <2>1, <3>2
      <4> QED BY <4>1, OneDelivery
    <3> QED BY <3>1, <3>2
  <2>8. jobs' \in [Job' -> JobState]
    <3> HIDE DEF begun
    <3> QED BY <1>4, <2>1, <2>7
  <2>9. \A j \in Job' : j[1] \in 1..Len(events) /\ j[1] \notin queued'
    BY <1>1, <2>1, <2>2 DEF DeliveriesOK
  <2>10. Job' \subseteq Delivery
    BY <2>1, <2>2 DEF DeliveriesOK
  <2>11. \A j \in Delivery \ Job' : log'[j] = <<>>
    BY <1>1, <2>1 DEF DeliveriesOK
  <2>12. \A j \in Job' : Honest(jobs'[j], log'[j])
    BY <1>1, <2>7
  <2>13. /\ events' \in Seq(Kind) /\ Len(events') <= MaxEvents
         /\ queued' \subseteq 1..Len(events')
         /\ DOMAIN subs' \subseteq Subscription /\ subs' \in [DOMAIN subs' -> Endpoint]
         /\ log' \in [Delivery -> Seq(Logged)]
    BY <1>1 DEF DeliveriesOK
  <2>14. \A j \in Job' : j[1] \in 1..Len(events') /\ j[1] \notin queued'
    BY <1>1, <2>9
  <2> HIDE DEF begun
  <2> QED BY <2>8, <2>10, <2>11, <2>12, <2>13, <2>14 DEF DeliveriesOK
<1>5. \/ jobs' = jobs
      \/ jobs' = [j \in Job \cup begun |-> IF j \in begun THEN NewDelivery(j[2]) ELSE jobs[j]]
  BY DEF Dispatch
<1> HIDE DEF begun
<1> QED BY <1>3, <1>4, <1>5

\* The events emitted are queued, and nothing of theirs has begun.
LEMMA EmitKeeps ==
    ASSUME DeliveriesOK, NEW kinds \in Seq(Kind), Emit(kinds), UNCHANGED <<subs, jobs, log>>
    PROVE  DeliveriesOK'
<1>0. WebhookAssumption
  BY WebhookAssumption
<1>1. /\ Len(kinds) \in Nat /\ Len(events) \in Nat
      /\ events' \in Seq(Kind) /\ Len(events') = Len(events) + Len(kinds)
  BY DEF Emit, DeliveriesOK
<1>2. /\ Len(events') <= MaxEvents
      /\ queued' = queued \cup (Len(events) + 1..Len(events) + Len(kinds))
  BY <1>1 DEF Emit
<1>3. queued' \subseteq 1..Len(events')
  BY <1>1, <1>2 DEF DeliveriesOK
<1>4. Job' = Job
  BY DEF Job
<1>5. \A j \in Job : j[1] \in 1..Len(events') /\ j[1] \notin queued'
  BY <1>1, <1>2 DEF DeliveriesOK
<1> QED BY <1>1, <1>2, <1>3, <1>4, <1>5 DEF DeliveriesOK

\* Subscriptions come and go; deliveries stay.
LEMMA SubscriptionsChange ==
    ASSUME DeliveriesOK, NEW s \in Subscription, Subscribe(s) \/ Unsubscribe(s)
    PROVE  DeliveriesOK'
<1>1. UNCHANGED <<events, queued, jobs, log>> /\ Job' = Job
  BY DEF Subscribe, Unsubscribe, Job
<1>2. DOMAIN subs' \subseteq Subscription /\ subs' \in [DOMAIN subs' -> Endpoint]
  <2>1. CASE Subscribe(s)
    <3>1. PICK to \in Endpoint :
             subs' = [t \in DOMAIN subs \cup {s} |-> IF t = s THEN to ELSE subs[t]]
      BY <2>1 DEF Subscribe
    <3> QED BY <3>1 DEF DeliveriesOK
  <2>2. CASE Unsubscribe(s)
    BY <2>2 DEF Unsubscribe, DeliveriesOK
  <2> QED BY <2>1, <2>2
<1> QED BY <1>1, <1>2 DEF DeliveriesOK

-----------------------------------------------------------------------------
(* Health runs.                                                            *)

\* A set whose elements are all the same has at most one.
LEMMA OneAtMost ==
    ASSUME NEW S, \A x, y \in S : x = y
    PROVE  Cardinality(S) <= 1
<1>1. CASE S = {}
  BY <1>1, FS_EmptySet
<1>2. CASE S # {}
  <2>1. PICK x : S = {x}
    BY <1>2
  <2> QED BY <2>1, FS_Singleton
<1> QED BY <1>1, <1>2

\* What a ledger's fields are.
LEMMA LedgerFields ==
    ASSUME NEW l \in Ledger
    PROVE  l.tracked \subseteq WatchedAnchor /\ l.degraded \subseteq l.tracked
BY DEF Ledger

\* The empty ledger is one, so the run that is none is of the type of runs.
LEMMA NoneIsALedger ==
    /\ NoLedger \in Ledger
    /\ NoRun \in [pc : {"idle", "read", "store"}, next : Ledger, prev : SUBSET Ledger]
<1>1. NoLedger \in [tracked : {{}}, degraded : SUBSET {}]
  BY DEF NoLedger
<1>2. NoLedger \in Ledger
  BY <1>1 DEF Ledger
<1> QED BY <1>2 DEF NoRun

\* What has changed since the one snapshot is what the run finds, among the anchors its
\* ledger lists.
LEMMA ChangedIs ==
    ASSUME HealthTypes, run.prev = snapshot
    PROVE  /\ Changed \subseteq run.next.tracked /\ Changed \subseteq WatchedAnchor
           /\ \A prev \in run.prev : Changed = DiffDegraded(prev, run.next)
<1>1. \A prev \in run.prev : DiffDegraded(prev, run.next) \subseteq run.next.tracked
  BY DEF DiffDegraded
<1>2. Changed \subseteq run.next.tracked
  BY <1>1 DEF Changed
<1>3. run.next \in Ledger
  BY DEF HealthTypes
<1>4. ASSUME NEW prev \in run.prev PROVE Changed = DiffDegraded(prev, run.next)
  <2>1. \A p \in run.prev : p = prev
    BY <1>4 DEF HealthTypes
  <2> QED BY <2>1 DEF Changed
<1> QED BY <1>2, <1>3, <1>4, LedgerFields

\* A run tells what it found changed, and leaves the rest.
LEMMA RunTells == ASSUME HealthOK, EmitChanges PROVE HealthOK'
<1> USE DEF HealthOK
<1>1. /\ run.pc = "read" /\ run' = [run EXCEPT !.pc = "store"]
      /\ UNCHANGED <<committed, snapshot, deploys, faults, unsaved, departed>>
  BY DEF EmitChanges, silent
<1>2. /\ run' \in [pc : {"idle", "read", "store"}, next : Ledger, prev : SUBSET Ledger]
      /\ run'.pc = "store" /\ run'.next = run.next /\ run'.prev = run.prev
  BY <1>1 DEF HealthTypes
<1>3. Changed' = Changed
  BY <1>2 DEF Changed
<1>4. run.next.degraded \subseteq WatchedAnchor /\ run.prev = snapshot
  BY <1>1, LedgerFields DEF HealthTypes
<1>5. CASE run.prev = {} /\ told' = run.next.degraded /\ assumed' = run.next.degraded
  <2>1. HealthTypes'
    BY <1>1, <1>2, <1>4, <1>5 DEF HealthTypes
  <2>2. Agrees({}, run.next)'
    BY <1>2, <1>5 DEF Agrees
  <2>3. \A a \in Changed' : a \in told' <=> a \in run'.next.degraded
    BY <1>2, <1>5
  <2> QED BY <1>1, <1>2, <1>4, <1>5, <2>1, <2>2, <2>3
<1>6. CASE /\ run.prev # {}
           /\ told' = (told \ Changed) \cup (run.next.degraded \cap Changed)
           /\ assumed' = assumed \ Changed
  <2>1. HealthTypes'
    BY <1>1, <1>2, <1>4, <1>6 DEF HealthTypes
  <2>2. \A a \in Changed' : a \in told' <=> a \in run'.next.degraded
    BY <1>2, <1>3, <1>6
  <2>3. ASSUME NEW prev \in run'.prev PROVE Agrees(Changed \cup unsaved \cup departed, prev)'
    <3>1. Agrees(unsaved \cup departed, prev)
      BY <1>1, <1>2, <1>4, <2>3
    <3> QED BY <1>1, <1>3, <1>6, <3>1 DEF Agrees
  <2> QED BY <1>1, <1>2, <1>4, <1>6, <2>1, <2>2, <2>3
<1> QED BY <1>5, <1>6 DEF EmitChanges

\* A run that has told its changes ends, with its snapshot
LEMMA SavedAgrees ==
    ASSUME HealthOK, run.pc = "store", run'.pc = "idle", Saved, told' = told
    PROVE  \A s \in snapshot' : Agrees(unsaved \cup departed, s)'
<1> SUFFICES ASSUME NEW a \in WatchedAnchor, a \notin unsaved', a \notin departed'
             PROVE  a \in told <=> a \in run.next.degraded
  BY DEF Saved, Agrees
<1>1. /\ run.prev = snapshot /\ HealthTypes /\ run.next \in Ledger
      /\ a \in told => a \in run.next.tracked
  BY DEF HealthOK, HealthTypes, Saved
<1>2. CASE a \in Changed
  BY <1>2 DEF HealthOK
<1>3. CASE run.prev = {}
  BY <1>3 DEF HealthOK, Agrees
<1>4. CASE a \notin Changed /\ run.prev # {}
  <2>1. PICK prev \in run.prev : Changed = DiffDegraded(prev, run.next)
    BY <1>1, <1>4, ChangedIs
  <2>2. a \in told <=> a \in prev.degraded
    BY <1>4, <2>1 DEF HealthOK, Agrees, Saved
  <2>3. a \in run.next.tracked => (a \in prev.degraded <=> a \in run.next.degraded)
    BY <1>4, <2>1 DEF DiffDegraded
  <2>4. a \in run.next.degraded => a \in run.next.tracked
    BY <1>1, LedgerFields
  <2> QED BY <1>1, <2>2, <2>3, <2>4
<1> QED BY <1>2, <1>3, <1>4

\* or without.
LEMMA UnsavedAgrees ==
    ASSUME HealthOK, run.pc = "store", run'.pc = "idle", Unsaved, told' = told
    PROVE  \A s \in snapshot' : Agrees(unsaved \cup departed, s)'
<1> SUFFICES ASSUME NEW s \in snapshot, NEW a \in WatchedAnchor,
                    a \notin unsaved, a \notin Changed, a \notin departed
             PROVE  a \in told <=> a \in s.degraded
  BY DEF Unsaved, Agrees
<1>1. s \in run.prev
  BY DEF HealthOK
<1> QED BY <1>1 DEF HealthOK, Agrees

\* What either leaves is of its type.
LEMMA RunEnds ==
    ASSUME HealthOK, run.pc = "store", Saved \/ Unsaved, run' = NoRun,
           UNCHANGED <<committed, told, assumed, deploys>>, faults' \in 0..MaxFaults
    PROVE  HealthOK'
<1>1. HealthTypes /\ run.prev = snapshot /\ run.next \in Ledger
  BY DEF HealthOK, HealthTypes
<1>2. /\ run' \in [pc : {"idle", "read", "store"}, next : Ledger, prev : SUBSET Ledger]
      /\ run'.pc = "idle"
  BY NoneIsALedger DEF NoRun
<1>3. unsaved' \subseteq WatchedAnchor /\ departed' \subseteq WatchedAnchor
  BY <1>1, ChangedIs DEF Saved, Unsaved, HealthTypes
<1>4. snapshot' \subseteq Ledger /\ \A s, t \in snapshot' : s = t
  BY <1>1 DEF Saved, Unsaved, HealthTypes
<1>5. HealthTypes'
  BY <1>1, <1>2, <1>3, <1>4 DEF HealthTypes
<1>6. \A s \in snapshot' : Agrees(unsaved \cup departed, s)'
  BY <1>2, SavedAgrees, UnsavedAgrees
<1> QED BY <1>2, <1>5, <1>6 DEF HealthOK

\* Every step of a health run, a deployment, or the death of its invocation.
LEMMA HealthStep ==
    ASSUME HealthOK,
           \/ InvocationDies \/ Deploy \/ ReadSnapshot \/ EmitChanges \/ StoreSnapshot
    PROVE  HealthOK'
<1>0. /\ MaxFaults \in Nat /\ MaxDeploys \in Nat
  BY WebhookAssumption DEF WebhookAssumption
<1>1. CASE Deploy
  <2>1. /\ committed' \in Ledger /\ deploys' \in 0..MaxDeploys
        /\ UNCHANGED <<snapshot, run, told, assumed, faults, unsaved, departed>>
    BY <1>0, <1>1 DEF Deploy, HealthOK, HealthTypes, known, silent
  <2> QED BY <2>1 DEF HealthOK, HealthTypes, Agrees, Changed
<1>2. CASE ReadSnapshot
  <2>1. /\ run.pc = "idle"
        /\ \/ run' = [pc |-> "read", next |-> committed, prev |-> snapshot]
           \/ run' = run
        /\ UNCHANGED <<committed, snapshot, told, assumed, deploys, unsaved, departed>>
        /\ faults' \in 0..MaxFaults
    BY <1>0, <1>2 DEF ReadSnapshot, NoRun, Fault, NoFault, HealthOK, HealthTypes, known, silent
  <2>2. /\ run' \in [pc : {"idle", "read", "store"}, next : Ledger, prev : SUBSET Ledger]
        /\ run'.pc # "store" /\ (run'.pc # "idle" => run'.prev = snapshot)
    BY <2>1 DEF HealthOK, HealthTypes
  <2> QED BY <2>1, <2>2 DEF HealthOK, HealthTypes, Agrees
<1>3. CASE EmitChanges
  BY <1>3, RunTells
<1>4. CASE StoreSnapshot
  <2>1. /\ run.pc = "store" /\ run' = NoRun /\ (Saved \/ Unsaved)
        /\ UNCHANGED <<committed, told, assumed, deploys>>
        /\ faults' \in 0..MaxFaults
    BY <1>0, <1>4 DEF StoreSnapshot, Fault, NoFault, HealthOK, HealthTypes, known
  <2> QED BY <2>1, RunEnds
<1>5. CASE InvocationDies
  <2>1. CASE UNCHANGED health /\ Fault
    BY <1>0, <2>1 DEF health, known, silent, Fault, HealthOK, HealthTypes, Agrees, Changed
  <2>2. CASE /\ run' = NoRun /\ run.pc # "idle" /\ Fault
             /\ IF run.pc = "store" THEN Unsaved ELSE UNCHANGED <<snapshot, silent>>
             /\ UNCHANGED <<committed, known, deploys>>
    <3>1. /\ UNCHANGED <<committed, told, assumed, deploys>> /\ faults' \in 0..MaxFaults
      BY <1>0, <2>2 DEF HealthOK, HealthTypes, Fault, known
    <3>2. CASE run.pc = "store"
      BY <2>2, <3>1, <3>2, RunEnds
    <3>3. CASE run.pc # "store"
      <4>1. UNCHANGED <<snapshot, unsaved, departed>>
        BY <2>2, <3>3 DEF silent
      <4>2. /\ run' \in [pc : {"idle", "read", "store"}, next : Ledger, prev : SUBSET Ledger]
            /\ run'.pc = "idle"
        BY <2>2, NoneIsALedger DEF NoRun
      <4> QED BY <3>1, <3>3, <4>1, <4>2 DEF HealthOK, HealthTypes, Agrees
    <3> QED BY <3>2, <3>3
  <2> QED BY <1>5, <2>1, <2>2 DEF InvocationDies, Die
<1> QED BY <1>1, <1>2, <1>3, <1>4, <1>5

\* What no health run is part of leaves what is known of them alone.
LEMMA HealthStays ==
    ASSUME HealthOK, UNCHANGED health, faults' \in 0..MaxFaults
    PROVE  HealthOK'
BY DEF HealthOK, HealthTypes, Agrees, Changed, health, known, silent

\* Every step, on its part.
LEMMA HooksStep == HooksInv /\ [HooksNext]_hooksVars => HooksInv'
<1> SUFFICES ASSUME HooksInv, [HooksNext]_hooksVars
             PROVE  HooksInv'
  OBVIOUS
<1>0. DeliveriesOK /\ HealthOK
  BY DEF HooksInv
<1>1. ASSUME NEW s \in Subscription, Subscribe(s) \/ Unsubscribe(s)
      PROVE  HooksInv'
  <2>1. UNCHANGED health /\ faults' \in 0..MaxFaults
    BY <1>0, <1>1 DEF Subscribe, Unsubscribe, HealthOK, HealthTypes
  <2> QED BY <1>0, <1>1, <2>1, SubscriptionsChange, HealthStays DEF HooksInv
<1>2. CASE EmitIntentEvent
  <2>1. <<"intent">> \in Seq(Kind)
    BY DEF Kind
  <2>2. Emit(<<"intent">>) /\ UNCHANGED <<subs, jobs, log>>
    BY <1>2 DEF EmitIntentEvent
  <2>3. DeliveriesOK'
    BY <1>0, <2>1, <2>2, EmitKeeps
  <2>4. UNCHANGED health /\ faults' \in 0..MaxFaults
    BY <1>0, <1>2 DEF EmitIntentEvent, HealthOK, HealthTypes
  <2> QED BY <1>0, <2>3, <2>4, HealthStays DEF HooksInv
<1>3. ASSUME NEW e \in EventId, Dispatch(e)
      PROVE  HooksInv'
  <2>1. DeliveriesOK'
    BY <1>0, <1>3, DispatchKeeps
  <2>2. faults' \in 0..MaxFaults /\ UNCHANGED health
    BY <1>0, <1>3, WebhookAssumption
       DEF Dispatch, Fault, NoFault, HealthOK, HealthTypes, WebhookAssumption
  <2> QED BY <1>0, <2>1, <2>2, HealthStays DEF HooksInv
<1>4. ASSUME NEW j \in Job, Attempt(j) \/ RecordDelivery(j)
      PROVE  HooksInv'
  <2>1. DeliveriesOK'
    BY <1>0, <1>4, AttemptKeeps, RecordKeeps
  <2>2. faults' \in 0..MaxFaults /\ UNCHANGED health
    BY <1>0, <1>4, WebhookAssumption
       DEF Attempt, RecordDelivery, Fault, NoFault, HealthOK, HealthTypes, WebhookAssumption
  <2> QED BY <1>0, <2>1, <2>2, HealthStays DEF HooksInv
<1>5. CASE InvocationDies
  <2>1. PICK es : Die(es)
    BY <1>5 DEF InvocationDies
  <2> QED BY <1>0, <1>5, <2>1, DeliveriesDie, HealthStep DEF HooksInv
<1>6. CASE Deploy \/ ReadSnapshot \/ StoreSnapshot
  <2>1. UNCHANGED <<delivery, events>>
    BY <1>6 DEF Deploy, ReadSnapshot, StoreSnapshot
  <2> QED BY <1>0, <1>6, <2>1, HealthStep DEF HooksInv, DeliveriesOK, delivery, Job
<1>7. CASE EmitChanges
  <2>1. UNCHANGED <<subs, jobs, log>>
    BY <1>7 DEF EmitChanges
  <2>2. CASE UNCHANGED <<events, queued>>
    BY <1>0, <1>7, <2>1, <2>2, HealthStep DEF HooksInv, DeliveriesOK, Job
  <2>3. CASE Emit([n \in 1..Cardinality(Changed) |-> "health"])
    <3> DEFINE n == Cardinality(Changed)
               kinds == [k \in 1..n |-> "health"]
    <3>1. HealthTypes /\ run.prev = snapshot
      BY <1>0, <1>7 DEF EmitChanges, HealthOK
    <3>2. n \in Nat
      <4>1. Changed \in SUBSET WatchedAnchor
        BY <3>1, ChangedIs
      <4> QED BY <4>1, FS_Subset, FS_CardinalityType, WebhookAssumption DEF WebhookAssumption
    <3>3. Emit(kinds)
      BY <2>3
    <3> HIDE DEF n
    <3>4. kinds \in Seq(Kind)
      BY <3>2 DEF Kind
    <3> HIDE DEF kinds
    <3> QED BY <1>0, <1>7, <2>1, <3>3, <3>4, EmitKeeps, HealthStep DEF HooksInv
  <2> QED BY <1>7, <2>2, <2>3 DEF EmitChanges
<1>8. CASE UNCHANGED hooksVars
  <2>1. UNCHANGED health /\ faults' \in 0..MaxFaults
    BY <1>0, <1>8 DEF hooksVars, health, known, silent, HealthOK, HealthTypes
  <2>2. DeliveriesOK'
    BY <1>0, <1>8 DEF hooksVars, DeliveriesOK, Job
  <2> QED BY <1>0, <2>1, <2>2, HealthStays DEF HooksInv
<1> QED BY <1>1, <1>2, <1>3, <1>4, <1>5, <1>6, <1>7, <1>8 DEF HooksNext

\* Everything of the webhooks holds in every reachable state.
LEMMA HooksInvariance == HooksSpec => []HooksInv
<1>1. HooksInit => HooksInv
  <2> SUFFICES ASSUME HooksInit PROVE HooksInv
    OBVIOUS
  <2>1. /\ MaxEvents \in Nat /\ MaxDeploys \in Nat /\ MaxFaults \in Nat
    BY WebhookAssumption DEF WebhookAssumption
  <2>2. Job = {} /\ events = <<>> /\ queued = {}
    BY DEF HooksInit, Job
  <2>3. DeliveriesOK
    <3>1. DOMAIN subs \subseteq Subscription /\ subs \in [DOMAIN subs -> Endpoint]
      <4>1. PICK rows \in SUBSET Subscription : subs \in [rows -> {to \in Endpoint : to.blocked}]
        BY DEF HooksInit
      <4> QED BY <4>1
    <3>2. jobs \in [Job -> JobState]
      BY <2>2 DEF HooksInit
    <3>3. log \in [Delivery -> Seq(Logged)] /\ \A j \in Delivery : log[j] = <<>>
      BY DEF HooksInit, Delivery
    <3>4. events \in Seq(Kind) /\ Len(events) <= MaxEvents
      BY <2>1, <2>2
    <3> QED BY <2>2, <3>1, <3>2, <3>3, <3>4 DEF DeliveriesOK
  <2>4. HealthOK
    <3>1. /\ committed \in Ledger /\ snapshot = {} /\ told = {} /\ assumed = {}
          /\ deploys = 0 /\ faults = 0 /\ unsaved = {} /\ departed = {} /\ run = NoRun
      BY DEF HooksInit
    <3>2. run.pc = "idle"
      BY <3>1 DEF NoRun
    <3>3. HealthTypes
      BY <2>1, <3>1, NoneIsALedger DEF HealthTypes
    <3> QED BY <3>1, <3>2, <3>3 DEF HealthOK
  <2> QED BY <2>3, <2>4 DEF HooksInv
<1> QED BY <1>1, HooksStep, PTL DEF HooksSpec

\* Subscriptions, deliveries, the log and the health runs keep their types
\* (lib/webhooks/store.ts, dispatch.ts, health-diff.ts).
THEOREM HooksTypes == HooksSpec => []HooksTypeOK
<1>1. HooksInv => HooksTypeOK
  <2> SUFFICES ASSUME HooksInv PROVE HooksTypeOK
    OBVIOUS
  <2>1. MaxEvents \in Nat
    BY WebhookAssumption DEF WebhookAssumption
  <2>2. queued \subseteq EventId
    BY <2>1 DEF HooksInv, DeliveriesOK, EventId
  <2>3. Cardinality(snapshot) <= 1
    BY OneAtMost DEF HooksInv, HealthOK, HealthTypes
  <2> QED BY <2>2, <2>3 DEF HooksInv, DeliveriesOK, HealthOK, HealthTypes, HooksTypeOK, JobState,
                            Delivery, Logged
<1> QED BY <1>1, HooksInvariance, PTL

\* The delivery log says what happened, a blocked target's dead letter included, unless
\* one of its writes failed (dispatch.ts:29-115), for any number of events,
\* subscriptions and attempts.
THEOREM LogIsAlwaysHonest == HooksSpec => []LogIsHonest
<1>1. HooksInv => LogIsHonest
  <2> SUFFICES ASSUME HooksInv, NEW j \in Job
               PROVE  LET has(status) == \E k \in 1..Len(log[j]) : log[j][k] = status
                          d == jobs[j]
                          full == IF d.blocked THEN 0 ELSE MaxAttempts
                      IN /\ d.attempts <= full
                         /\ has("success") => d.acks > 0
                         /\ has("dead_letter") => d.attempts = full
                         /\ has("dead_letter") /\ d.acks > 0 => d.unlogged
                         /\ d.pc = "done" /\ Len(log[j]) # 1 => d.unlogged
    BY DEF LogIsHonest
  <2>1. Honest(jobs[j], log[j])
    BY OneDelivery DEF HooksInv
  <2> QED BY <2>1 DEF Honest, Has, Full
<1> QED BY <1>1, HooksInvariance, PTL

\* Between two health runs the events so far say what the snapshot says, of every anchor
\* but those told of by a run that was not stored and those that left the ledger degraded
\* (health-diff.ts:22-103), for any ledgers, whatever fails or dies.
THEOREM SnapshotIsAlwaysTold == HooksSpec => []SnapshotIsTold
<1>1. HooksInv => SnapshotIsTold
  BY DEF HooksInv, HealthOK, SnapshotIsTold, Agrees
<1> QED BY <1>1, HooksInvariance, PTL

-----------------------------------------------------------------------------
(* Recurring intents.  What is authorised about an intent is judged with   *)
(* its history (Authorised): the next cycle is due no earlier than any     *)
(* cycle before it allows.                                                 *)

\* What the history of an intent may be.
Authorised(ri, history) ==
    /\ \A k \in DOMAIN history :
          history[k].status = "executed" => ~history[k].held /\ history[k].at < ri.terms.stop
    /\ ri.terms.limit # 0 => ri.executed <= ri.terms.limit
    /\ \A k \in DOMAIN history :
          Ran(history[k]) => ri.next >= NextExecution(ri.terms, history[k].at)
    /\ \A k, l \in DOMAIN history :
          k < l /\ Ran(history[k]) /\ Ran(history[l])
          => history[l].at >= NextExecution(ri.terms, history[k].at)

\* An intent that is not registered has no history (store.ts, deleteRecurringIntent).
RecurringInv ==
    /\ RecurringTypeOK
    /\ \A i \in Intent \ Registered : executions[i] = <<>>
    /\ \A i \in Registered : Authorised(store[i], executions[i])

\* What the quotient of a division is.
LEMMA QuotientBounds ==
    ASSUME NEW n \in Nat, NEW e \in Nat \ {0}
    PROVE  (n \div e + 1) * e \in Nat /\ n < (n \div e + 1) * e
<1>1. n \div e \in Nat /\ n < (n \div e) * e + e /\ (n \div e) * e \in Nat
  OBVIOUS
<1> DEFINE q == n \div e
<1>2. q \in Nat /\ n < q * e + e /\ q * e \in Nat
  BY <1>1
<1> HIDE DEF q
<1>3. (q + 1) * e = q * e + e
  BY <1>2
<1>4. (q + 1) * e \in Nat /\ n < (q + 1) * e
  BY <1>2, <1>3
<1> QED BY <1>4 DEF q

\* The cadence moves time on (cadence.ts).
LEMMA NextIsLater ==
    ASSUME NEW c \in Template, NEW now \in Nat
    PROVE  NextExecution(c, now) \in Nat /\ NextExecution(c, now) > now
<1>1. c.every \in Nat \ {0}
  BY RecurringAssumption DEF RecurringAssumption
<1>2. CASE c.kind = "named"
  BY <1>1, <1>2 DEF NextExecution
<1>3. CASE c.kind # "named"
  BY <1>1, <1>3, QuotientBounds DEF NextExecution
<1> QED BY <1>2, <1>3

\* Intent i, and no other, becomes ri.
IntentBecomes(i, ri) ==
    /\ Registered' = Registered
    /\ ri \in RecurringIntent => store' \in [Registered -> RecurringIntent]
    /\ store'[i] = ri
    /\ \A j \in Registered : j # i => store'[j] = store[j]

\* The fields of an intent that change together: when the user, or its end, sets its status,
LEMMA StatusSet ==
    ASSUME store \in [Registered -> RecurringIntent], NEW i \in Registered, NEW s, NEW n,
           \/ store' = [store EXCEPT ![i].status = s] /\ n = store[i].failed
           \/ store' = [store EXCEPT ![i].status = s, ![i].failed = n]
    PROVE  IntentBecomes(i, [terms |-> store[i].terms, next |-> store[i].next, status |-> s,
                             executed |-> store[i].executed, skipped |-> store[i].skipped,
                             failed |-> n])
<1> DEFINE ri == [terms |-> store[i].terms, next |-> store[i].next, status |-> s,
                  executed |-> store[i].executed, skipped |-> store[i].skipped,
                  failed |-> n]
<1>1. Registered' = Registered /\ \A j \in Registered : j # i => store'[j] = store[j]
  BY DEF Registered
<1>2. \/ store'[i] = [store[i] EXCEPT !.status = s] /\ n = store[i].failed
      \/ store'[i] = [store[i] EXCEPT !.status = s, !.failed = n]
  BY DEF Registered
<1>3. store'[i] = ri
  <2>1. store[i] \in RecurringIntent
    OBVIOUS
  <2>2. CASE store'[i] = [store[i] EXCEPT !.status = s] /\ n = store[i].failed
    BY <2>1, <2>2 DEF RecurringIntent
  <2>3. CASE store'[i] = [store[i] EXCEPT !.status = s, !.failed = n]
    BY <2>1, <2>3 DEF RecurringIntent
  <2> QED BY <1>2, <2>2, <2>3
<1>4. ASSUME ri \in RecurringIntent PROVE store' \in [Registered -> RecurringIntent]
  <2> HIDE DEF ri
  <2>1. store' = [j \in Registered |-> store'[j]]
    BY DEF Registered
  <2>2. \A j \in Registered : store'[j] \in RecurringIntent
    BY <1>1, <1>3, <1>4
  <2> QED BY <2>1, <2>2
<1> HIDE DEF ri
<1>5. IntentBecomes(i, ri)
  BY <1>1, <1>3, <1>4 DEF IntentBecomes
<1> QED BY <1>5 DEF ri

\* with a cycle that is executed,
LEMMA CycleExecuted ==
    ASSUME store \in [Registered -> RecurringIntent], NEW i \in Registered, NEW n, NEW next,
           store' = [store EXCEPT ![i].executed = n, ![i].next = next]
    PROVE  IntentBecomes(i, [terms |-> store[i].terms, next |-> next,
                             status |-> store[i].status, executed |-> n,
                             skipped |-> store[i].skipped, failed |-> store[i].failed])
<1> DEFINE ri == [terms |-> store[i].terms, next |-> next, status |-> store[i].status,
                  executed |-> n, skipped |-> store[i].skipped, failed |-> store[i].failed]
<1>1. Registered' = Registered /\ \A j \in Registered : j # i => store'[j] = store[j]
  BY DEF Registered
<1>2. store'[i] = [store[i] EXCEPT !.executed = n, !.next = next]
  BY DEF Registered
<1>3. store'[i] = ri
  <2>1. store[i] \in RecurringIntent
    OBVIOUS
  <2> QED BY <1>2, <2>1 DEF RecurringIntent
<1>4. ASSUME ri \in RecurringIntent PROVE store' \in [Registered -> RecurringIntent]
  <2> HIDE DEF ri
  <2>1. store' = [j \in Registered |-> store'[j]]
    BY DEF Registered
  <2>2. \A j \in Registered : store'[j] \in RecurringIntent
    BY <1>1, <1>3, <1>4
  <2> QED BY <2>1, <2>2
<1> HIDE DEF ri
<1>5. IntentBecomes(i, ri)
  BY <1>1, <1>3, <1>4 DEF IntentBecomes
<1> QED BY <1>5 DEF ri

\* and with one that is skipped.
LEMMA CycleSkipped ==
    ASSUME store \in [Registered -> RecurringIntent], NEW i \in Registered, NEW n, NEW next,
           NEW s, store' = [store EXCEPT ![i].skipped = n, ![i].next = next, ![i].status = s]
    PROVE  IntentBecomes(i, [terms |-> store[i].terms, next |-> next, status |-> s,
                             executed |-> store[i].executed, skipped |-> n,
                             failed |-> store[i].failed])
<1> DEFINE ri == [terms |-> store[i].terms, next |-> next, status |-> s,
                  executed |-> store[i].executed, skipped |-> n, failed |-> store[i].failed]
<1>1. Registered' = Registered /\ \A j \in Registered : j # i => store'[j] = store[j]
  BY DEF Registered
<1>2. store'[i] = [store[i] EXCEPT !.skipped = n, !.next = next, !.status = s]
  BY DEF Registered
<1>3. store'[i] = ri
  <2>1. store[i] \in RecurringIntent
    OBVIOUS
  <2> QED BY <1>2, <2>1 DEF RecurringIntent
<1>4. ASSUME ri \in RecurringIntent PROVE store' \in [Registered -> RecurringIntent]
  <2> HIDE DEF ri
  <2>1. store' = [j \in Registered |-> store'[j]]
    BY DEF Registered
  <2>2. \A j \in Registered : store'[j] \in RecurringIntent
    BY <1>1, <1>3, <1>4
  <2> QED BY <2>1, <2>2
<1> HIDE DEF ri
<1>5. IntentBecomes(i, ri)
  BY <1>1, <1>3, <1>4 DEF IntentBecomes
<1> QED BY <1>5 DEF ri

\* A record is added at the end of a history.
LEMMA HistoryGrows ==
    ASSUME NEW h \in Seq(Execution), NEW e \in Execution
    PROVE  /\ Append(h, e) \in Seq(Execution)
           /\ DOMAIN Append(h, e) = DOMAIN h \cup {Len(h) + 1}
           /\ Append(h, e)[Len(h) + 1] = e
           /\ \A k \in DOMAIN h : k \in Nat /\ k < Len(h) + 1 /\ Append(h, e)[k] = h[k]
           /\ Len(h) \in Nat
<1>1. /\ Append(h, e) \in Seq(Execution) /\ Len(Append(h, e)) = Len(h) + 1
      /\ Len(h) \in Nat /\ DOMAIN h = 1..Len(h)
      /\ DOMAIN Append(h, e) = 1..Len(h) + 1
  OBVIOUS
<1>2. 1..Len(h) + 1 = 1..Len(h) \cup {Len(h) + 1}
  BY <1>1
<1>3. /\ \A k \in 1..Len(h) : Append(h, e)[k] = h[k]
      /\ Append(h, e)[Len(h) + 1] = e
  OBVIOUS
<1> QED BY <1>1, <1>2, <1>3

\* An intent as it is registered: nothing has been executed of it.
LEMMA RegisterKeeps ==
    ASSUME RecurringInv, NEW i \in Intent, Register(i)
    PROVE  RecurringInv'
<1>1. i \notin Registered /\ UNCHANGED <<time, executions, evaluations>>
  BY DEF Register
<1>2. PICK t \in Template : store' = [j \in Registered \cup {i} |->
                      IF j = i THEN [terms |-> t, next |-> time + t.wait, status |-> "active",
                                     executed |-> 0, skipped |-> 0, failed |-> 0]
                               ELSE store[j]]
  BY DEF Register
<1> DEFINE ri == [terms |-> t, next |-> time + t.wait, status |-> "active",
                  executed |-> 0, skipped |-> 0, failed |-> 0]
<1>3. ri \in RecurringIntent
  <2>1. t.wait \in Nat /\ time \in Nat
    BY RecurringAssumption DEF RecurringInv, RecurringTypeOK, RecurringAssumption, Time
  <2> QED BY <2>1 DEF RecurringIntent, Status
<1>4. /\ Registered' = Registered \cup {i} /\ store'[i] = ri
      /\ \A j \in Registered : store'[j] = store[j]
  BY <1>1, <1>2 DEF Registered
<1>5. RecurringTypeOK'
  <2> HIDE DEF ri
  <2>1. \A j \in Registered' : store'[j] \in RecurringIntent
    BY <1>3, <1>4 DEF RecurringInv, RecurringTypeOK
  <2>2. store' = [j \in Registered' |-> store'[j]]
    BY <1>2 DEF Registered
  <2>3. store' \in [Registered' -> RecurringIntent]
    BY <2>1, <2>2
  <2>4. Registered' \subseteq Intent
    BY <1>4 DEF RecurringInv, RecurringTypeOK
  <2> QED BY <2>3, <2>4, <1>1 DEF RecurringInv, RecurringTypeOK
<1>6. executions[i] = <<>>
  BY <1>1 DEF RecurringInv
<1>7. Authorised(store'[i], executions'[i])
  <2>1. DOMAIN executions'[i] = {} /\ store'[i].executed = 0
    BY <1>1, <1>4, <1>6
  <2>2. store'[i].terms.limit # 0 => store'[i].executed <= store'[i].terms.limit
    BY <1>4, RecurringAssumption DEF RecurringAssumption
  <2> QED BY <2>1, <2>2 DEF Authorised
<1>8. \A j \in Registered' : Authorised(store'[j], executions'[j])
  BY <1>1, <1>4, <1>7 DEF RecurringInv
<1>9. \A j \in Intent \ Registered' : executions'[j] = <<>>
  BY <1>1, <1>4 DEF RecurringInv
<1> QED BY <1>5, <1>8, <1>9 DEF RecurringInv

\* A deleted intent takes its history with it.
LEMMA DeleteKeeps ==
    ASSUME RecurringInv, NEW i \in Intent, Delete(i)
    PROVE  RecurringInv'
<1>1. /\ UNCHANGED <<time, evaluations>>
      /\ Registered' = Registered \ {i}
      /\ store' = [j \in Registered \ {i} |-> store[j]]
      /\ executions' = [executions EXCEPT ![i] = <<>>]
  BY DEF Delete, Registered
<1>2. \A j \in Registered' : store'[j] = store[j] /\ executions'[j] = executions[j]
  BY <1>1 DEF RecurringInv, RecurringTypeOK
<1>3. executions'[i] = <<>> /\ \A j \in Intent \ {i} : executions'[j] = executions[j]
  BY <1>1 DEF RecurringInv, RecurringTypeOK
<1>4. RecurringTypeOK'
  <2>1. store' \in [Registered' -> RecurringIntent]
    BY <1>1 DEF RecurringInv, RecurringTypeOK
  <2>2. executions' \in [Intent -> Seq(Execution)]
    <3>1. <<>> \in Seq(Execution)
      OBVIOUS
    <3> QED BY <1>1, <3>1 DEF RecurringInv, RecurringTypeOK
  <2> QED BY <1>1, <2>1, <2>2 DEF RecurringInv, RecurringTypeOK
<1>5. \A j \in Registered' : Authorised(store'[j], executions'[j])
  BY <1>1, <1>2 DEF RecurringInv
<1>6. \A j \in Intent \ Registered' : executions'[j] = <<>>
  BY <1>1, <1>3 DEF RecurringInv
<1> QED BY <1>4, <1>5, <1>6 DEF RecurringInv

\* Nothing that was authorised hangs on the status of an intent or on its count of
\* failures.
LEMMA StatusKeeps ==
    ASSUME RecurringInv, NEW i \in Registered, NEW s \in Status,
           store' = [store EXCEPT ![i].status = s], UNCHANGED <<time, executions, evaluations>>
    PROVE  RecurringInv'
<1> DEFINE ri == [terms |-> store[i].terms, next |-> store[i].next, status |-> s,
                  executed |-> store[i].executed, skipped |-> store[i].skipped,
                  failed |-> store[i].failed]
<1>1. store[i] \in RecurringIntent /\ store \in [Registered -> RecurringIntent]
  BY DEF RecurringInv, RecurringTypeOK
<1>2. IntentBecomes(i, ri)
  BY <1>1, StatusSet
<1>3. ri \in RecurringIntent
  BY <1>1 DEF RecurringIntent
<1>4. RecurringTypeOK'
  <2> HIDE DEF ri
  <2> QED BY <1>2, <1>3 DEF RecurringInv, RecurringTypeOK, IntentBecomes
<1>5. Authorised(store'[i], executions'[i])
  <2>1. Authorised(store[i], executions[i])
    BY DEF RecurringInv
  <2>2. /\ store'[i].terms = store[i].terms /\ store'[i].next = store[i].next
        /\ store'[i].executed = store[i].executed
    BY <1>2 DEF IntentBecomes
  <2> QED BY <2>1, <2>2 DEF Authorised
<1> HIDE DEF ri
<1>6. \A j \in Registered' : Authorised(store'[j], executions'[j])
  BY <1>2, <1>5 DEF RecurringInv, IntentBecomes
<1> QED BY <1>2, <1>4, <1>6 DEF RecurringInv, IntentBecomes

\* The record a cycle leaves.
CycleRecord(i, status, now) ==
    [status |-> status, at |-> now, held |-> store[i].status # "active"]

\* A cycle is of one intent, and adds one record to its history.
LEMMA RecordsOne ==
    ASSUME RecurringInv, NEW i \in Registered, NEW now \in Time,
           NEW s \in {"executed", "skipped", "failed"}, Record(i, s, now)
    PROVE  /\ CycleRecord(i, s, now) \in Execution
           /\ executions' \in [Intent -> Seq(Execution)]
           /\ executions'[i] = Append(executions[i], CycleRecord(i, s, now))
           /\ \A j \in Intent \ {i} : executions'[j] = executions[j]
           /\ i \in Intent /\ executions[i] \in Seq(Execution)
<1>1. i \in Intent /\ executions \in [Intent -> Seq(Execution)]
  BY DEF RecurringInv, RecurringTypeOK
<1>2. executions[i] \in Seq(Execution)
  BY <1>1
<1>3. CycleRecord(i, s, now) \in Execution
  BY DEF CycleRecord, Execution
<1>4. executions' = [executions EXCEPT ![i] = Append(executions[i], CycleRecord(i, s, now))]
  BY <1>1 DEF Record, CycleRecord
<1>5. Append(executions[i], CycleRecord(i, s, now)) \in Seq(Execution)
  BY <1>2, <1>3, HistoryGrows
<1> QED BY <1>1, <1>2, <1>3, <1>4, <1>5

\* What a cycle leaves is authorised when what it adds is.
LEMMA CycleKeeps ==
    ASSUME RecurringInv, NEW i \in Registered, NEW now \in Time,
           NEW s \in {"executed", "skipped", "failed"}, Record(i, s, now),
           NEW ri \in RecurringIntent, IntentBecomes(i, ri), ri.terms = store[i].terms,
           s = "executed" => store[i].status = "active" /\ now < store[i].terms.stop,
           ri.terms.limit # 0 => ri.executed <= ri.terms.limit,
           now >= store[i].next,
           IF s = "failed" THEN ri.next = store[i].next
                           ELSE ri.next = NextExecution(ri.terms, now),
           UNCHANGED time, evaluations' \in [Evaluation -> [now : Time, due : SUBSET Intent]]
    PROVE  RecurringInv'
<1> DEFINE h == executions[i]
           e == CycleRecord(i, s, now)
           n == Len(h) + 1
           old == store[i]
<1>1. /\ e \in Execution /\ h \in Seq(Execution) /\ i \in Intent
      /\ executions' \in [Intent -> Seq(Execution)] /\ executions'[i] = Append(h, e)
      /\ \A j \in Intent \ {i} : executions'[j] = executions[j]
  BY RecordsOne
<1>2. e.status = s /\ e.at = now /\ (e.held <=> old.status # "active")
  BY DEF CycleRecord
<1>3. /\ DOMAIN Append(h, e) = DOMAIN h \cup {n} /\ Append(h, e)[n] = e /\ n \in Nat
      /\ \A k \in DOMAIN h : k \in Nat /\ k < n /\ Append(h, e)[k] = h[k]
  BY <1>1, HistoryGrows
<1>4. /\ Authorised(old, h) /\ old \in RecurringIntent /\ store'[i] = ri
      /\ Registered' = Registered /\ store' \in [Registered -> RecurringIntent]
      /\ \A j \in Registered : j # i => store'[j] = store[j]
  BY DEF RecurringInv, RecurringTypeOK, IntentBecomes
<1>5. /\ NextExecution(ri.terms, now) \in Nat /\ NextExecution(ri.terms, now) > now
      /\ now \in Nat /\ old.next \in Nat /\ ri.next \in Nat /\ ri.next >= old.next
  <2>1. now \in Nat /\ ri.terms \in Template
    BY RecurringAssumption DEF RecurringAssumption, Time, RecurringIntent
  <2>2. NextExecution(ri.terms, now) \in Nat /\ NextExecution(ri.terms, now) > now
    BY <2>1, NextIsLater
  <2>3. old.next \in Nat
    BY <1>4 DEF RecurringIntent
  <2> QED BY <2>1, <2>2, <2>3
<1>6. \A k \in DOMAIN h : Ran(h[k]) => NextExecution(ri.terms, h[k].at) \in Nat
  <2>1. \A k \in DOMAIN h : h[k].at \in Nat
    <3>1. \A k \in DOMAIN h : h[k] \in Execution
      <4> HIDE DEF h
      <4> QED BY <1>1
    <3> HIDE DEF h
    <3> QED BY <3>1, RecurringAssumption DEF Execution, RecurringAssumption, Time
  <2>2. ri.terms \in Template
    BY DEF RecurringIntent
  <2> QED BY <2>1, <2>2, NextIsLater
<1>7. Authorised(ri, Append(h, e))
  <2> HIDE DEF h, e, n, old
  <2>0. ri.terms = old.terms
    BY DEF old
  <2>1. \A k \in DOMAIN Append(h, e) : Append(h, e)[k].status = "executed"
            => ~Append(h, e)[k].held /\ Append(h, e)[k].at < ri.terms.stop
    <3>1. s = "executed" => ~e.held /\ e.at < ri.terms.stop
      BY <1>2, <2>0 DEF old
    <3> QED BY <1>2, <1>3, <1>4, <2>0, <3>1 DEF Authorised
  <2>2. \A k \in DOMAIN Append(h, e) : Ran(Append(h, e)[k])
            => ri.next >= NextExecution(ri.terms, Append(h, e)[k].at)
    <3>1. \A k \in DOMAIN h : Ran(h[k]) => ri.next >= NextExecution(ri.terms, h[k].at)
      BY <1>4, <1>5, <1>6, <2>0 DEF Authorised
    <3>2. Ran(e) => ri.next >= NextExecution(ri.terms, e.at)
      BY <1>2, <1>5 DEF Ran
    <3> QED BY <1>3, <3>1, <3>2
  <2>3. \A k, l \in DOMAIN Append(h, e) :
            k < l /\ Ran(Append(h, e)[k]) /\ Ran(Append(h, e)[l])
            => Append(h, e)[l].at >= NextExecution(ri.terms, Append(h, e)[k].at)
    <3>1. \A k \in DOMAIN h : Ran(h[k]) => e.at >= NextExecution(ri.terms, h[k].at)
      <4>1. \A k \in DOMAIN h : Ran(h[k]) => old.next >= NextExecution(ri.terms, h[k].at)
        BY <1>4, <2>0 DEF Authorised
      <4>2. now >= old.next
        BY DEF old
      <4> QED BY <1>2, <1>5, <1>6, <4>1, <4>2
    <3>2. \A k, l \in DOMAIN h : k < l /\ Ran(h[k]) /\ Ran(h[l])
            => h[l].at >= NextExecution(ri.terms, h[k].at)
      BY <1>4, <2>0 DEF Authorised
    <3> QED BY <1>3, <3>1, <3>2
  <2> QED BY <2>1, <2>2, <2>3 DEF Authorised
<1> HIDE DEF h, e, n, old
<1>8. \A j \in Registered' : Authorised(store'[j], executions'[j])
  <2>1. \A j \in Registered : j # i => j \in Intent \ {i}
    BY DEF RecurringInv, RecurringTypeOK
  <2> QED BY <1>1, <1>4, <1>7, <2>1 DEF RecurringInv
<1>9. \A j \in Intent \ Registered' : executions'[j] = <<>>
  BY <1>1, <1>4 DEF RecurringInv
<1>10. RecurringTypeOK'
  BY <1>1, <1>4 DEF RecurringInv, RecurringTypeOK
<1> QED BY <1>8, <1>9, <1>10 DEF RecurringInv

\* A cycle that is due, of an intent as the store has it, leaves only what is authorised.
LEMMA ExecuteCycleKeeps ==
    ASSUME RecurringInv, NEW i \in Registered, NEW now \in Time,
           ExecuteCycle(i, store[i], now), UNCHANGED time,
           evaluations' \in [Evaluation -> [now : Time, due : SUBSET Intent]]
    PROVE  RecurringInv'
<1>1. /\ store[i] \in RecurringIntent /\ store \in [Registered -> RecurringIntent]
      /\ Authorised(store[i], executions[i])
  BY DEF RecurringInv, RecurringTypeOK
<1>2. /\ store[i].terms \in Template /\ store[i].next \in Nat /\ store[i].status \in Status
      /\ store[i].executed \in Nat /\ store[i].skipped \in Nat /\ store[i].failed \in Nat
      /\ store[i].terms.limit \in Nat /\ store[i].terms.stop \in Nat /\ now \in Nat
  BY <1>1, RecurringAssumption DEF RecurringIntent, RecurringAssumption, Time
<1>3. /\ store[i].terms.limit # 0 => store[i].executed <= store[i].terms.limit
  BY <1>1 DEF Authorised
<1>4. NextExecution(store[i].terms, now) \in Nat
  BY <1>2, NextIsLater
<1>5. CASE ~IsDue(store[i].next, now)
  BY <1>5 DEF ExecuteCycle, RecurringInv, RecurringTypeOK, Registered
<1>6. ASSUME IsDue(store[i].next, now), Complete(i, store[i], now) PROVE RecurringInv'
  <2> DEFINE ri == [terms |-> store[i].terms, next |-> store[i].next, status |-> "over",
                    executed |-> store[i].executed, skipped |-> store[i].skipped,
                    failed |-> store[i].failed + 1]
  <2>1. IntentBecomes(i, ri)
    BY <1>1, <1>6, StatusSet DEF Complete
  <2>2. ri \in RecurringIntent
    BY <1>2 DEF RecurringIntent, Status
  <2>3. /\ ri.terms = store[i].terms /\ ri.next = store[i].next
        /\ ri.executed = store[i].executed
    OBVIOUS
  <2>4. Record(i, "failed", now) /\ now >= store[i].next
    BY <1>6 DEF Complete, IsDue
  <2> HIDE DEF ri
  <2> QED BY <2>1, <2>2, <2>3, <2>4, <1>3, CycleKeeps
<1>7. ASSUME IsDue(store[i].next, now), Execute(i, store[i], now) PROVE RecurringInv'
  <2> DEFINE ri == [terms |-> store[i].terms, next |-> NextExecution(store[i].terms, now),
                    status |-> store[i].status,
                    executed |-> store[i].executed + 1, skipped |-> store[i].skipped,
                    failed |-> store[i].failed]
  <2>1. IntentBecomes(i, ri)
    BY <1>1, <1>7, CycleExecuted DEF Execute
  <2>2. ri \in RecurringIntent
    BY <1>2, <1>4 DEF RecurringIntent, Status
  <2>3. /\ ri.terms = store[i].terms /\ ri.next = NextExecution(ri.terms, now)
        /\ ri.executed = store[i].executed + 1
    OBVIOUS
  <2>4. Record(i, "executed", now) /\ now >= store[i].next
    BY <1>7 DEF Execute, IsDue
  <2>5. /\ store[i].status = "active" /\ now < store[i].terms.stop
        /\ store[i].terms.limit # 0 => store[i].executed + 1 <= store[i].terms.limit
    BY <1>2, <1>7 DEF Execute, IsOver
  <2> HIDE DEF ri
  <2> QED BY <2>1, <2>2, <2>3, <2>4, <2>5, CycleKeeps
<1>8. ASSUME IsDue(store[i].next, now), Skip(i, store[i], now) PROVE RecurringInv'
  <2> DEFINE s == IF TooManySkips(executions'[i]) THEN "paused" ELSE store[i].status
             ri == [terms |-> store[i].terms, next |-> NextExecution(store[i].terms, now),
                    status |-> s,
                    executed |-> store[i].executed, skipped |-> store[i].skipped + 1,
                    failed |-> store[i].failed]
  <2>0. s \in Status
    BY <1>2 DEF Status
  <2>1. IntentBecomes(i, ri)
    <3>1. store' = [store EXCEPT ![i].skipped = store[i].skipped + 1,
                                 ![i].next = NextExecution(store[i].terms, now),
                                 ![i].status = s]
      BY <1>8 DEF Skip, Registered
    <3> HIDE DEF s
    <3> QED BY <3>1, <1>1, CycleSkipped
  <2> HIDE DEF s
  <2>2. ri \in RecurringIntent
    BY <1>2, <1>4, <2>0 DEF RecurringIntent
  <2>3. /\ ri.terms = store[i].terms /\ ri.next = NextExecution(ri.terms, now)
        /\ ri.executed = store[i].executed
    OBVIOUS
  <2>4. Record(i, "skipped", now) /\ now >= store[i].next
    BY <1>8 DEF Skip, IsDue
  <2> HIDE DEF ri
  <2> QED BY <2>1, <2>2, <2>3, <2>4, <1>3, CycleKeeps
<1> QED BY <1>5, <1>6, <1>7, <1>8 DEF ExecuteCycle

\* Every step of the store and of the scheduler keeps the invariant.
LEMMA RecurringStep == RecurringInv /\ [RecurringNext]_recurringVars => RecurringInv'
<1> SUFFICES ASSUME RecurringInv, [RecurringNext]_recurringVars PROVE RecurringInv'
  OBVIOUS
<1>0. evaluations \in [Evaluation -> [now : Time, due : SUBSET Intent]] /\ time \in Time
  BY DEF RecurringInv, RecurringTypeOK
<1>1. ASSUME NEW i \in Intent, ExecuteNow(i) PROVE RecurringInv'
  BY <1>0, <1>1, ExecuteCycleKeeps DEF ExecuteNow
<1>2. ASSUME NEW i \in Intent, NEW s \in Status, SetStatus(i, s) PROVE RecurringInv'
  BY <1>2, StatusKeeps DEF SetStatus
<1>3. ASSUME NEW e \in Evaluation, StartEvaluation(e) PROVE RecurringInv'
  <2> DEFINE dueNow == {i \in Registered :
                       store[i].status = "active" /\ IsDue(store[i].next, time)}
  <2>1. dueNow \in SUBSET Intent
    BY DEF RecurringInv, RecurringTypeOK
  <2>2. evaluations' = [evaluations EXCEPT ![e] = [now |-> time, due |-> dueNow]]
    BY <1>3 DEF StartEvaluation
  <2> HIDE DEF dueNow
  <2>3. [now |-> time, due |-> dueNow] \in [now : Time, due : SUBSET Intent]
    BY <1>0, <2>1
  <2>4. evaluations' \in [Evaluation -> [now : Time, due : SUBSET Intent]]
    BY <1>0, <2>2, <2>3
  <2> QED BY <1>3, <2>4 DEF StartEvaluation, RecurringInv, RecurringTypeOK, Registered
<1>4. ASSUME NEW e \in Evaluation, EvaluateNext(e) PROVE RecurringInv'
  <2>1. PICK i \in evaluations[e].due :
          /\ evaluations' = [evaluations EXCEPT
                ![e] = IF @.due = {i} THEN Idle ELSE [now |-> @.now, due |-> @.due \ {i}]]
          /\ IF i \in Registered THEN EvaluateCycle(e, i) ELSE UNCHANGED <<store, executions>>
          /\ UNCHANGED time
    BY <1>4 DEF EvaluateNext
  <2>2. evaluations[e] \in [now : Time, due : SUBSET Intent]
    BY <1>0
  <2>3. Idle \in [now : Time, due : SUBSET Intent]
    BY RecurringAssumption DEF Idle, Time, RecurringAssumption
  <2> DEFINE left == [now |-> evaluations[e].now, due |-> evaluations[e].due \ {i}]
  <2>4. left \in [now : Time, due : SUBSET Intent]
    BY <2>2
  <2>5. evaluations' \in [Evaluation -> [now : Time, due : SUBSET Intent]]
    <3>1. evaluations' = [evaluations EXCEPT ![e] = Idle]
          \/ evaluations' = [evaluations EXCEPT ![e] = left]
      BY <2>1
    <3> HIDE DEF left
    <3> QED BY <1>0, <2>3, <2>4, <3>1
  <2>6. CASE i \in Registered
    BY <2>1, <2>2, <2>5, <2>6, ExecuteCycleKeeps DEF EvaluateCycle
  <2>7. CASE i \notin Registered
    BY <2>1, <2>5, <2>7 DEF RecurringInv, RecurringTypeOK, Registered
  <2> QED BY <2>6, <2>7
<1>5. ASSUME TimePasses PROVE RecurringInv'
  <2>1. time' \in Time
    BY <1>0, <1>5, RecurringAssumption DEF TimePasses, Time, RecurringAssumption
  <2> QED BY <1>5, <2>1 DEF TimePasses, RecurringInv, RecurringTypeOK, Registered
<1>6. ASSUME UNCHANGED recurringVars PROVE RecurringInv'
  BY <1>6 DEF recurringVars, RecurringInv, RecurringTypeOK, Registered
<1> QED BY <1>1, <1>2, <1>3, <1>4, <1>5, <1>6, RegisterKeeps, DeleteKeeps DEF RecurringNext

\* Recurring intents: the invariant holds throughout.
LEMMA RecurringInvariance == RecurringSpec => []RecurringInv
<1>1. RecurringInit => RecurringInv
  <2> SUFFICES ASSUME RecurringInit PROVE RecurringInv
    OBVIOUS
  <2>1. Registered = {} /\ store \in [Registered -> RecurringIntent]
    BY DEF RecurringInit, Registered
  <2>2. time \in Time /\ Idle \in [now : Time, due : SUBSET Intent]
    BY RecurringAssumption DEF RecurringInit, Idle, Time, RecurringAssumption
  <2>3. executions \in [Intent -> Seq(Execution)]
    <3>1. <<>> \in Seq(Execution)
      OBVIOUS
    <3> QED BY <3>1 DEF RecurringInit
  <2> QED BY <2>1, <2>2, <2>3 DEF RecurringInit, RecurringInv, RecurringTypeOK
<1> QED BY <1>1, RecurringStep, PTL DEF RecurringSpec

\* The variables of the store and of the scheduler keep their types.
THEOREM RecurringTypes == RecurringSpec => []RecurringTypeOK
<1>1. RecurringInv => RecurringTypeOK
  BY DEF RecurringInv
<1> QED BY <1>1, RecurringInvariance, PTL

\* Every execution was authorised when it ran: however evaluations overlap and whatever the
\* user does while a quote is awaited, none runs while its intent is held or after its stop
\* date, none exceeds maxCycles, and a cadence separates it from the cycle before it
\* (scheduler.ts, executeCycle; store.ts; cadence.ts).
THEOREM RunsAreAlwaysAuthorised == RecurringSpec => []RunsAreAuthorised
<1>1. RecurringInv => RunsAreAuthorised
  BY DEF RecurringInv, Authorised, RunsAreAuthorised
<1> QED BY <1>1, RecurringInvariance, PTL

-----------------------------------------------------------------------------
(* The router.  What a sequence of numbers adds up to is a recursive       *)
(* function of its length, and so is what the walk over the ranking has    *)
(* filled: each is shown to exist, and then to have the values it should,  *)
(* by inductions over a set of numbers.                                    *)

\* The partial sums of the first n parts.
Sums(g, parts, n) == g = [i \in 0..n |-> IF i = 0 THEN 0 ELSE g[i - 1] + parts[i]]

\* There are partial sums of any number of parts.
LEMMA SumsExist ==
    ASSUME NEW parts PROVE \A n \in Nat : \E g : Sums(g, parts, n)
<1> DEFINE T == {n \in Nat : \E g : Sums(g, parts, n)}
<1>1. 0 \in T
  <2> DEFINE g == [i \in 0..0 |-> 0]
  <2>1. Sums(g, parts, 0)
    BY DEF Sums
  <2> QED
    BY <2>1
<1>2. ASSUME NEW n \in Nat, n \in T PROVE n + 1 \in T
  <2>1. PICK f : Sums(f, parts, n)
    BY <1>2
  <2> DEFINE g == [i \in 0..(n + 1) |-> IF i = n + 1 THEN f[n] + parts[n + 1] ELSE f[i]]
  <2>2. \A i \in 0..n : f[i] = IF i = 0 THEN 0 ELSE f[i - 1] + parts[i]
    BY <2>1, Zenon DEF Sums
  <2>3. \A i \in 0..n : g[i] = f[i]
    <3>1. \A i \in 0..n : i \in 0..(n + 1) /\ i # n + 1
      OBVIOUS
    <3> QED
      BY <3>1, Zenon
  <2>4. g[n + 1] = f[n] + parts[n + 1]
    OBVIOUS
  <2>5. ASSUME NEW i \in 0..(n + 1) PROVE g[i] = IF i = 0 THEN 0 ELSE g[i - 1] + parts[i]
    <3> HIDE DEF g
    <3>1. CASE i = n + 1
      <4>1. n \in 0..n /\ i - 1 = n /\ i # 0
        BY <3>1
      <4> QED
        BY <2>3, <2>4, <3>1, <4>1
    <3>2. CASE i = 0
      <4>1. i \in 0..n
        BY <3>2
      <4> QED
        BY <2>2, <2>3, <3>2, <4>1
    <3>3. CASE i \in 1..n
      <4>1. i \in 0..n /\ i - 1 \in 0..n
        BY <3>3
      <4>2. g[i] = f[i] /\ g[i - 1] = f[i - 1]
        BY <2>3, <4>1
      <4> QED
        BY <2>2, <3>3, <4>1, <4>2
    <3> QED
      BY <3>1, <3>2, <3>3
  <2>6. g = [i \in 0..(n + 1) |-> g[i]]
    OBVIOUS
  <2> HIDE DEF g
  <2>7. g = [i \in 0..(n + 1) |-> IF i = 0 THEN 0 ELSE g[i - 1] + parts[i]]
    BY <2>5, <2>6, Zenon
  <2> QED
    BY <2>7 DEF Sums
<1> HIDE DEF T
<1>3. \A n \in Nat : n \in T
  BY <1>1, <1>2, SetInduction
<1> QED
  BY <1>3 DEF T

\* A sequence of n numbers, by its entries.
Numbers(n) == [1..n -> Nat]

\* The total of n numbers is the last of their partial sums, which are numbers.
LEMMA TotalIsSum ==
    ASSUME NEW n \in Nat, NEW parts \in Numbers(n)
    PROVE  \E g \in [0..n -> Nat] : /\ g[0] = 0
                                    /\ \A i \in 1..n : g[i] = g[i - 1] + parts[i]
                                    /\ Total(parts) = g[n]
<1>1. Len(parts) = n
  BY DEF Numbers
<1> DEFINE g == CHOOSE g : Sums(g, parts, n)
<1>2. Sums(g, parts, n)
  BY SumsExist
<1>3. Total(parts) = g[n]
  BY <1>1 DEF Total, Sums
<1> HIDE DEF g
<1>4. /\ g[0] = 0 /\ \A i \in 1..n : g[i] = g[i - 1] + parts[i]
  BY <1>2 DEF Sums
<1> DEFINE T == {i \in Nat : i <= n => g[i] \in Nat}
<1>5. 0 \in T
  BY <1>4
<1>6. ASSUME NEW i \in Nat, i \in T PROVE i + 1 \in T
  <2> SUFFICES ASSUME i + 1 <= n PROVE g[i + 1] \in Nat
    OBVIOUS
  <2>1. i + 1 \in 1..n /\ (i + 1) - 1 = i /\ i <= n
    OBVIOUS
  <2>2. g[i] \in Nat /\ parts[i + 1] \in Nat
    BY <1>6, <2>1 DEF Numbers
  <2> QED
    BY <1>4, <2>1, <2>2
<1> HIDE DEF T
<1>7. \A i \in Nat : i \in T
  BY <1>5, <1>6, SetInduction
<1>8. \A i \in 0..n : g[i] \in Nat
  BY <1>7 DEF T
<1>9. g = [i \in 0..n |-> g[i]]
  BY <1>2 DEF Sums
<1>10. g \in [0..n -> Nat]
  BY <1>8, <1>9
<1> QED
  BY <1>3, <1>4, <1>10

\* A product of a sum.
LEMMA SpreadsOut == ASSUME NEW k \in Nat, NEW x \in Nat, NEW y \in Nat
                    PROVE  k * (x + y) = k * x + k * y /\ k * x \in Nat /\ k * y \in Nat
OBVIOUS

\* An inequality of the parts is one of the totals.
LEMMA TotalsCompare ==
    ASSUME NEW n \in Nat, NEW a \in Numbers(n), NEW b \in Numbers(n), NEW c \in Numbers(n),
           NEW d \in Numbers(n), NEW k \in Nat, NEW l \in Nat
    PROVE  (\A i \in 1..n : k * a[i] + b[i] <= l * c[i] + d[i])
           => k * Total(a) + Total(b) <= l * Total(c) + Total(d)
<1>0. SUFFICES ASSUME \A i \in 1..n : k * a[i] + b[i] <= l * c[i] + d[i]
               PROVE  k * Total(a) + Total(b) <= l * Total(c) + Total(d)
  OBVIOUS
<1>1. PICK ga \in [0..n -> Nat] : /\ ga[0] = 0
                                  /\ \A i \in 1..n : ga[i] = ga[i - 1] + a[i]
                                  /\ Total(a) = ga[n]
  BY TotalIsSum
<1>2. PICK gb \in [0..n -> Nat] : /\ gb[0] = 0
                                  /\ \A i \in 1..n : gb[i] = gb[i - 1] + b[i]
                                  /\ Total(b) = gb[n]
  BY TotalIsSum
<1>3. PICK gc \in [0..n -> Nat] : /\ gc[0] = 0
                                  /\ \A i \in 1..n : gc[i] = gc[i - 1] + c[i]
                                  /\ Total(c) = gc[n]
  BY TotalIsSum
<1>4. PICK gd \in [0..n -> Nat] : /\ gd[0] = 0
                                  /\ \A i \in 1..n : gd[i] = gd[i - 1] + d[i]
                                  /\ Total(d) = gd[n]
  BY TotalIsSum
<1> DEFINE T == {i \in Nat : i <= n => k * ga[i] + gb[i] <= l * gc[i] + gd[i]}
<1>5. 0 \in T
  BY <1>1, <1>2, <1>3, <1>4
<1>6. ASSUME NEW i \in Nat, i \in T PROVE i + 1 \in T
  <2> SUFFICES ASSUME i + 1 <= n
               PROVE  k * ga[i + 1] + gb[i + 1] <= l * gc[i + 1] + gd[i + 1]
    OBVIOUS
  <2>1. i + 1 \in 1..n /\ (i + 1) - 1 = i /\ i \in 0..n
    OBVIOUS
  <2>2. k * ga[i] + gb[i] <= l * gc[i] + gd[i]
    BY <1>6, <2>1
  <2>3. k * a[i + 1] + b[i + 1] <= l * c[i + 1] + d[i + 1]
    BY <1>0, <2>1
  <2>4. /\ ga[i] \in Nat /\ gb[i] \in Nat /\ gc[i] \in Nat /\ gd[i] \in Nat
        /\ a[i + 1] \in Nat /\ b[i + 1] \in Nat /\ c[i + 1] \in Nat /\ d[i + 1] \in Nat
    BY <2>1 DEF Numbers
  <2>5. /\ ga[i + 1] = ga[i] + a[i + 1] /\ gb[i + 1] = gb[i] + b[i + 1]
        /\ gc[i + 1] = gc[i] + c[i + 1] /\ gd[i + 1] = gd[i] + d[i + 1]
    BY <1>1, <1>2, <1>3, <1>4, <2>1
  <2>6. k * (ga[i] + a[i + 1]) + (gb[i] + b[i + 1]) <= l * (gc[i] + c[i + 1]) + (gd[i] + d[i + 1])
    <3> DEFINE x == ga[i]
               y == a[i + 1]
               u == gc[i]
               v == c[i + 1]
               p == gb[i]
               q == b[i + 1]
               r == gd[i]
               s == d[i + 1]
    <3>1. /\ x \in Nat /\ y \in Nat /\ u \in Nat /\ v \in Nat
          /\ p \in Nat /\ q \in Nat /\ r \in Nat /\ s \in Nat
          /\ k * x + p <= l * u + r /\ k * y + q <= l * v + s
      BY <2>2, <2>3, <2>4
    <3> HIDE DEF x, y, u, v, p, q, r, s
    <3>2. k * (x + y) = k * x + k * y /\ k * x \in Nat /\ k * y \in Nat
      BY <3>1, SpreadsOut
    <3>3. l * (u + v) = l * u + l * v /\ l * u \in Nat /\ l * v \in Nat
      BY <3>1, SpreadsOut
    <3>4. (k * x + k * y) + (p + q) <= (l * u + l * v) + (r + s)
      <4> DEFINE kx == k * x
                 ky == k * y
                 lu == l * u
                 lv == l * v
      <4>1. /\ kx \in Nat /\ ky \in Nat /\ lu \in Nat /\ lv \in Nat
            /\ kx + p <= lu + r /\ ky + q <= lv + s
        BY <3>1, <3>2, <3>3
      <4> HIDE DEF kx, ky, lu, lv
      <4>2. (kx + ky) + (p + q) <= (lu + lv) + (r + s)
        BY <3>1, <4>1
      <4> QED BY <4>2 DEF kx, ky, lu, lv
    <3>5. k * (x + y) + (p + q) <= l * (u + v) + (r + s)
      BY <3>2, <3>3, <3>4
    <3> QED BY <3>5 DEF x, y, u, v, p, q, r, s
  <2> QED
    BY <2>5, <2>6
<1> HIDE DEF T
<1>7. \A i \in Nat : i \in T
  BY <1>5, <1>6, SetInduction
<1>8. k * ga[n] + gb[n] <= l * gc[n] + gd[n]
  BY <1>7 DEF T
<1> QED
  BY <1>1, <1>2, <1>3, <1>4, <1>8

\* A total is a number, and nothing adds up to nothing.
LEMMA TotalIsNumber ==
    ASSUME NEW n \in Nat, NEW parts \in Numbers(n)
    PROVE  /\ Total(parts) \in Nat
           /\ (\A i \in 1..n : parts[i] = 0) => Total(parts) = 0
<1>1. Total(parts) \in Nat
  BY TotalIsSum
<1>2. ASSUME \A i \in 1..n : parts[i] = 0 PROVE Total(parts) = 0
  <2>1. \A i \in 1..n : 1 * parts[i] + parts[i] <= 0 * parts[i] + parts[i]
    BY <1>2
  <2>2. 1 * Total(parts) + Total(parts) <= 0 * Total(parts) + Total(parts)
    BY <2>1, TotalsCompare
  <2> QED
    BY <1>1, <2>2
<1> QED
  BY <1>1, <1>2

\* Where a part was nothing and becomes x, the total grows by x.
LEMMA TotalGrows ==
    ASSUME NEW n \in Nat, NEW parts \in Numbers(n), NEW more \in Numbers(n),
           NEW k \in 1..n, parts[k] = 0, \A i \in 1..n : i # k => more[i] = parts[i]
    PROVE  Total(more) = Total(parts) + more[k]
<1>1. PICK g \in [0..n -> Nat] : /\ g[0] = 0
                                 /\ \A i \in 1..n : g[i] = g[i - 1] + parts[i]
                                 /\ Total(parts) = g[n]
  BY TotalIsSum
<1>2. PICK h \in [0..n -> Nat] : /\ h[0] = 0
                                 /\ \A i \in 1..n : h[i] = h[i - 1] + more[i]
                                 /\ Total(more) = h[n]
  BY TotalIsSum
<1>3. more[k] \in Nat
  BY DEF Numbers
<1> DEFINE T == {i \in Nat : i <= n => h[i] = g[i] + (IF k <= i THEN more[k] ELSE 0)}
<1>4. 0 \in T
  BY <1>1, <1>2
<1>5. ASSUME NEW i \in Nat, i \in T PROVE i + 1 \in T
  <2> SUFFICES ASSUME i + 1 <= n
               PROVE  h[i + 1] = g[i + 1] + (IF k <= i + 1 THEN more[k] ELSE 0)
    OBVIOUS
  <2>1. i + 1 \in 1..n /\ (i + 1) - 1 = i /\ i \in 0..n
    OBVIOUS
  <2>2. h[i] = g[i] + (IF k <= i THEN more[k] ELSE 0)
    BY <1>5, <2>1
  <2>3. /\ g[i] \in Nat /\ h[i] \in Nat /\ parts[i + 1] \in Nat /\ more[i + 1] \in Nat
    BY <2>1 DEF Numbers
  <2>4. g[i + 1] = g[i] + parts[i + 1] /\ h[i + 1] = h[i] + more[i + 1]
    BY <1>1, <1>2, <2>1
  <2> HIDE DEF T
  <2> DEFINE g0 == g[i]
             g1 == g[i + 1]
             h0 == h[i]
             h1 == h[i + 1]
             p1 == parts[i + 1]
             m1 == more[i + 1]
             mk == more[k]
  <2>5. /\ g0 \in Nat /\ h0 \in Nat /\ p1 \in Nat /\ m1 \in Nat /\ mk \in Nat
        /\ h0 = g0 + (IF k <= i THEN mk ELSE 0)
        /\ g1 = g0 + p1 /\ h1 = h0 + m1
        /\ i + 1 = k => p1 = 0 /\ m1 = mk
        /\ i + 1 # k => m1 = p1
    BY <1>3, <2>1, <2>2, <2>3, <2>4
  <2> HIDE DEF g0, g1, h0, h1, p1, m1, mk
  <2>6. h1 = g1 + (IF k <= i + 1 THEN mk ELSE 0)
    BY <2>5
  <2> QED
    BY <2>6 DEF g1, h1, mk
<1> HIDE DEF T
<1>6. \A i \in Nat : i \in T
  BY <1>4, <1>5, SetInduction
<1>7. h[n] = g[n] + more[k]
  BY <1>6 DEF T
<1> QED
  BY <1>1, <1>2, <1>7

\* The total of a sequence with one more number at its end.
LEMMA TotalAppends ==
    ASSUME NEW n \in Nat, NEW parts \in Numbers(n), NEW more \in Numbers(n + 1),
           \A i \in 1..n : more[i] = parts[i]
    PROVE  Total(more) = Total(parts) + more[n + 1]
<1>1. PICK g \in [0..n -> Nat] : /\ g[0] = 0
                                 /\ \A i \in 1..n : g[i] = g[i - 1] + parts[i]
                                 /\ Total(parts) = g[n]
  BY TotalIsSum
<1>2. PICK h \in [0..(n + 1) -> Nat] : /\ h[0] = 0
                                       /\ \A i \in 1..(n + 1) : h[i] = h[i - 1] + more[i]
                                       /\ Total(more) = h[n + 1]
  <2>1. n + 1 \in Nat
    OBVIOUS
  <2> QED
    BY <2>1, TotalIsSum
<1> DEFINE T == {i \in Nat : i <= n => h[i] = g[i]}
<1>3. 0 \in T
  BY <1>1, <1>2
<1>4. ASSUME NEW i \in Nat, i \in T PROVE i + 1 \in T
  <2> SUFFICES ASSUME i + 1 <= n PROVE h[i + 1] = g[i + 1]
    OBVIOUS
  <2>1. i + 1 \in 1..n /\ i + 1 \in 1..(n + 1) /\ (i + 1) - 1 = i
    OBVIOUS
  <2>2. h[i] = g[i]
    BY <1>4
  <2> QED
    BY <1>1, <1>2, <2>1, <2>2
<1> HIDE DEF T
<1>5. \A i \in Nat : i \in T
  BY <1>3, <1>4, SetInduction
<1>6. h[n] = g[n]
  BY <1>5 DEF T
<1>7. n + 1 \in 1..(n + 1) /\ (n + 1) - 1 = n
  OBVIOUS
<1> QED
  BY <1>1, <1>2, <1>6, <1>7

-----------------------------------------------------------------------------
(* The walk over the ranking.                                              *)

\* What the solvers are called with.
Asked == request \in Request /\ quotes \in Seq(Quote) /\ Len(quotes) <= MaxQuotes

\* What a call's quotes and intent are.
LEMMA AskedFacts ==
    ASSUME Asked
    PROVE  /\ Len(quotes) \in Nat /\ Len(quotes) <= MaxQuotes /\ DOMAIN quotes = 1..Len(quotes)
           /\ Live \subseteq 1..Len(quotes) /\ IsFiniteSet(Live) /\ Cardinality(Live) \in Nat
           /\ \A i \in 1..Len(quotes) :
                 /\ quotes[i].sell \in Nat /\ quotes[i].buy \in Nat
                 /\ quotes[i].price \in Nat /\ quotes[i].fee \in Nat
           /\ request.sell \in Nat /\ request.floor \in Nat /\ request.cap \in Nat
           /\ MaxAnchors \in Nat /\ MaxAnchors >= 1 /\ MaxAnchors >= request.cap
           /\ Scale \in Nat /\ Scale > 0 /\ MaxQuotes \in Nat
<1> DEFINE m == Len(quotes)
<1>1. quotes \in [1..m -> Quote] /\ m \in Nat /\ m <= MaxQuotes
  BY DEF Asked
<1>2. MaxQuotes \in Nat /\ Scale \in Nat /\ Scale > 0
  BY RouterAssumption DEF RouterAssumption
<1>3. m \in Nat /\ m <= MaxQuotes
  BY <1>1
<1>4. Len(quotes) = m /\ DOMAIN quotes = 1..m
  BY <1>1
<1> HIDE DEF m
<1>5. \A i \in 1..m : /\ quotes[i].sell \in Nat /\ quotes[i].buy \in Nat
                      /\ quotes[i].price \in Nat /\ quotes[i].fee \in Nat
  BY <1>1, RouterAssumption DEF RouterAssumption
<1>6. request.sell \in Nat /\ request.floor \in Nat /\ request.cap \in Nat
  BY RouterAssumption DEF RouterAssumption, Asked
<1>7. MaxAnchors \in Nat /\ MaxAnchors >= 1 /\ MaxAnchors >= request.cap
  BY <1>6 DEF MaxAnchors
<1>8. Live \subseteq 1..m
  BY <1>4 DEF Live
<1>9. IsFiniteSet(1..m)
  <2>1. 1 \in Int /\ m \in Int
    BY <1>3
  <2> QED
    BY <2>1, FS_Interval
<1>10. IsFiniteSet(Live)
  BY <1>8, <1>9, FS_Subset
<1>11. Cardinality(Live) \in Nat
  BY <1>10, FS_CardinalityType
<1> QED
  BY <1>2, <1>3, <1>4, <1>5, <1>6, <1>7, <1>8, <1>10, <1>11

\* Of any quotes one is the foremost.
LEMMA ForemostExists ==
    ASSUME Asked, NEW is, is \subseteq Live, is # {}
    PROVE  \E i \in is : i \in Foremost(is)
<1> DEFINE N == Len(quotes)
           T == {n \in Nat : \A S \in SUBSET (1..N) :
                               S \subseteq 1..n /\ S # {} => \E i \in S : i \in Foremost(S)}
<1>1. N \in Nat /\ Live \subseteq 1..N /\ \A i \in 1..N : quotes[i].price \in Nat
  BY AskedFacts
<1> HIDE DEF N
<1>2. 0 \in T
  <2>1. 1..0 = {}
    OBVIOUS
  <2>2. \A S \in SUBSET (1..N) : ~(S \subseteq 1..0 /\ S # {})
    BY <2>1
  <2> QED
    BY <2>2
<1>3. ASSUME NEW n \in Nat, n \in T PROVE n + 1 \in T
  <2> SUFFICES ASSUME NEW S \in SUBSET (1..N), S \subseteq 1..(n + 1), S # {}
               PROVE  \E i \in S : i \in Foremost(S)
    OBVIOUS
  <2> DEFINE R == S \ {n + 1}
  <2>1. R \in SUBSET (1..N) /\ R \subseteq 1..n
    OBVIOUS
  <2>2. CASE R = {}
    <3>1. S = {n + 1}
      BY <2>2
    <3> QED
      BY <1>1, <3>1 DEF Foremost
  <2>3. CASE R # {} /\ n + 1 \notin S
    <3>1. R = S
      BY <2>3
    <3> HIDE DEF R
    <3> QED
      BY <1>3, <2>1, <2>3, <3>1
  <2>4. CASE R # {} /\ n + 1 \in S
    <3>1. PICK i \in R : i \in Foremost(R)
      BY <1>3, <2>1, <2>4
    <3>2. /\ \A j \in S : j = n + 1 \/ j \in R
          /\ \A j \in S : j \in Nat /\ quotes[j].price \in Nat
          /\ i <= n + 1 /\ i \in S
      <4>1. /\ \A j \in S : j = n + 1 \/ j \in R
            /\ i \in S /\ \A j \in S : j \in 1..N /\ j \in 1..(n + 1)
        OBVIOUS
      <4> HIDE DEF R
      <4>2. i \in 1..(n + 1)
        BY <4>1
      <4> QED
        BY <1>1, <4>1, <4>2
    <3>3. \A j \in R : quotes[i].price > quotes[j].price
                       \/ (quotes[i].price = quotes[j].price /\ i <= j)
      BY <3>1 DEF Foremost
    <3> HIDE DEF R
    <3>4. CASE quotes[n + 1].price > quotes[i].price
      <4>1. \A j \in S : quotes[n + 1].price > quotes[j].price
                         \/ (quotes[n + 1].price = quotes[j].price /\ n + 1 <= j)
        <5> SUFFICES ASSUME NEW j \in S
                     PROVE  quotes[n + 1].price > quotes[j].price
                            \/ (quotes[n + 1].price = quotes[j].price /\ n + 1 <= j)
          OBVIOUS
        <5>1. CASE j = n + 1
          <6>1. n + 1 <= j /\ quotes[n + 1].price = quotes[j].price
            BY <5>1
          <6> QED
            BY <6>1
        <5>2. CASE j \in R
          <6>1. quotes[i].price > quotes[j].price \/ quotes[i].price = quotes[j].price
            BY <3>3, <5>2
          <6>2. /\ quotes[i].price \in Nat /\ quotes[j].price \in Nat
                /\ quotes[n + 1].price \in Nat
            BY <2>4, <3>2
          <6> QED
            BY <3>4, <6>1, <6>2
        <5> QED
          BY <3>2, <5>1, <5>2
      <4> QED
        BY <2>4, <4>1 DEF Foremost
    <3>5. CASE ~(quotes[n + 1].price > quotes[i].price)
      <4>1. \A j \in S : quotes[i].price > quotes[j].price
                         \/ (quotes[i].price = quotes[j].price /\ i <= j)
        <5> SUFFICES ASSUME NEW j \in S
                     PROVE  quotes[i].price > quotes[j].price
                            \/ (quotes[i].price = quotes[j].price /\ i <= j)
          OBVIOUS
        <5>1. CASE j = n + 1
          <6>1. i <= j
            BY <3>2, <5>1
          <6>2. quotes[i].price \in Nat /\ quotes[j].price \in Nat
            BY <3>2
          <6>3. quotes[i].price >= quotes[j].price
            BY <3>5, <5>1, <6>2
          <6> QED
            BY <6>1, <6>2, <6>3
        <5>2. CASE j \in R
          BY <3>3, <5>2
        <5> QED
          BY <3>2, <5>1, <5>2
      <4> QED
        BY <3>2, <4>1 DEF Foremost
    <3> QED
      BY <3>4, <3>5
  <2> QED
    BY <2>2, <2>3, <2>4
<1> HIDE DEF T
<1>4. \A n \in Nat : n \in T
  BY <1>2, <1>3, SetInduction
<1>5. N \in T
  BY <1>1, <1>4
<1>6. is \in SUBSET (1..N) /\ is \subseteq 1..N
  BY <1>1
<1> QED
  BY <1>5, <1>6 DEF T

\* The walk begins with all live quotes, and goes on with the foremost of what is left.
Outset == [left |-> Live, remaining |-> request.sell, legs |-> <<>>]
NextOf(is) == CHOOSE i \in Foremost(is) : TRUE
Walks(f, n) == f = [k \in 0..n |-> IF k = 0 THEN Outset ELSE Fill(f[k - 1], NextOf(f[k - 1].left))]

\* There is a walk of any length.
LEMMA WalksExist == \A n \in Nat : \E f : Walks(f, n)
<1> DEFINE T == {n \in Nat : \E f : Walks(f, n)}
<1>1. 0 \in T
  <2> DEFINE f == [k \in 0..0 |-> Outset]
  <2>1. Walks(f, 0)
    BY DEF Walks
  <2> QED
    BY <2>1
<1>2. ASSUME NEW n \in Nat, n \in T PROVE n + 1 \in T
  <2>1. PICK f : Walks(f, n)
    BY <1>2
  <2> DEFINE g == [k \in 0..(n + 1) |-> IF k = n + 1 THEN Fill(f[n], NextOf(f[n].left)) ELSE f[k]]
  <2>2. \A k \in 0..n : f[k] = IF k = 0 THEN Outset ELSE Fill(f[k - 1], NextOf(f[k - 1].left))
    BY <2>1, Zenon DEF Walks
  <2>3. \A k \in 0..n : g[k] = f[k]
    <3>1. \A k \in 0..n : k \in 0..(n + 1) /\ k # n + 1
      OBVIOUS
    <3> QED
      BY <3>1, Zenon
  <2>4. g[n + 1] = Fill(f[n], NextOf(f[n].left))
    OBVIOUS
  <2>5. ASSUME NEW k \in 0..(n + 1)
        PROVE  g[k] = IF k = 0 THEN Outset ELSE Fill(g[k - 1], NextOf(g[k - 1].left))
    <3> HIDE DEF g
    <3>1. CASE k = n + 1
      <4>1. n \in 0..n /\ k - 1 = n /\ k # 0
        BY <3>1
      <4> QED
        BY <2>3, <2>4, <3>1, <4>1
    <3>2. CASE k = 0
      <4>1. k \in 0..n
        BY <3>2
      <4> QED
        BY <2>2, <2>3, <3>2, <4>1
    <3>3. CASE k \in 1..n
      <4>1. k \in 0..n /\ k - 1 \in 0..n
        BY <3>3
      <4>2. g[k] = f[k] /\ g[k - 1] = f[k - 1]
        BY <2>3, <4>1
      <4>3. k # 0
        BY <3>3
      <4>4. f[k] = Fill(f[k - 1], NextOf(f[k - 1].left))
        BY <2>2, <4>1, <4>3
      <4> QED
        BY <4>2, <4>3, <4>4
    <3> QED
      BY <3>1, <3>2, <3>3
  <2>6. g = [k \in 0..(n + 1) |-> g[k]]
    OBVIOUS
  <2> HIDE DEF g
  <2>7. g = [k \in 0..(n + 1) |-> IF k = 0 THEN Outset ELSE Fill(g[k - 1], NextOf(g[k - 1].left))]
    BY <2>5, <2>6, Zenon
  <2> QED
    BY <2>7 DEF Walks
<1> HIDE DEF T
<1>3. \A n \in Nat : n \in T
  BY <1>1, <1>2, SetInduction
<1> QED
  BY <1>3 DEF T

\* The walk's end is the last of its states.
LEMMA WalkedIs ==
    ASSUME Asked
    PROVE  \E f : /\ Walked = f[Cardinality(Live)]
                  /\ f[0] = Outset
                  /\ \A k \in 1..Cardinality(Live) : f[k] = Fill(f[k - 1], NextOf(f[k - 1].left))
<1> DEFINE n == Cardinality(Live)
           f == CHOOSE f : Walks(f, n)
<1>1. n \in Nat
  BY AskedFacts
<1>2. Walks(f, n)
  BY <1>1, WalksExist
<1>3. Walked = f[n]
  BY DEF Walked, Walks, Outset, NextOf
<1> HIDE DEF f, n
<1>4. f[0] = Outset /\ \A k \in 1..n : f[k] = Fill(f[k - 1], NextOf(f[k - 1].left))
  BY <1>1, <1>2 DEF Walks
<1> QED
  BY <1>3, <1>4 DEF n

-----------------------------------------------------------------------------
(* What the walk has done.  Beside its state t says what each quote has    *)
(* given, so that the legs' totals are totals over the quotes.             *)

\* Proceeds of what is taken of each quote, and a mark for each quote that was walked.
Gains(t) == [i \in 1..Len(quotes) |-> Proceeds(i, t[i])]
Marks(left) == [i \in 1..Len(quotes) |-> IF i \in Live \ left THEN 1 ELSE 0]

\* The first n quotes have been walked, and t was taken of them.
TakenOK(w, n, t) ==
    /\ w.left \subseteq Live /\ Cardinality(w.left) + n = Cardinality(Live)
    /\ Total(Marks(w.left)) = n
    /\ t \in Numbers(Len(quotes)) /\ w.remaining \in Nat
    /\ Total(t) + w.remaining = request.sell
    /\ \A i \in 1..Len(quotes) : t[i] <= quotes[i].sell /\ (i \notin Live \ w.left => t[i] = 0)

\* A leg is of a walked quote, and within its size.
LegOK(leg, left) ==
    /\ leg \in Leg /\ leg.quote \in Live \ left
    /\ leg.sell \in 1..quotes[leg.quote].sell
    /\ leg.fee <= quotes[leg.quote].fee

\* The legs are of different quotes, and together what was taken.
LegsOK(w, n, t) ==
    /\ w.legs \in Seq(Leg) /\ Len(w.legs) <= MaxAnchors /\ Len(w.legs) <= n
    /\ \A k \in 1..Len(w.legs) : LegOK(w.legs[k], w.left)
    /\ \A k, l \in 1..Len(w.legs) : w.legs[k].quote = w.legs[l].quote => k = l
    /\ Sold(w.legs) = Total(t) /\ Net(w.legs) = Total(Gains(t))

\* The walk is in order of price; if the cap admits all, it takes all it can on the way.
OrderOK(w, t) ==
    /\ \A i \in Live \ w.left, j \in w.left : quotes[j].price <= quotes[i].price
    /\ request.cap >= Cardinality(Live) =>
          /\ w.remaining > 0 => \A i \in Live \ w.left : t[i] = quotes[i].sell
          /\ \A i, j \in Live \ w.left :
                t[i] < quotes[i].sell /\ t[j] > 0 => quotes[i].price <= quotes[j].price

WalkOK(w, n, t) == TakenOK(w, n, t) /\ LegsOK(w, n, t) /\ OrderOK(w, t)

\* A part of a number is no more than it.
LEMMA PartOf ==
    ASSUME NEW x \in Nat, NEW c \in Nat, NEW a \in Nat, 0 < a, a <= c
    PROVE  (x * a) \div c \in Nat /\ (x * a) \div c <= x
<1>1. x * a \in Nat /\ x * a <= x * c
  <2>1. PICK d \in Nat : c = a + d
    <3>1. c - a \in Nat /\ c = a + (c - a)
      OBVIOUS
    <3> QED BY <3>1
  <2>2. x * c = x * a + x * d
    BY <2>1
  <2>3. x * a \in Nat /\ x * d \in Nat
    BY <2>1
  <2> QED
    BY <2>2, <2>3
<1>2. c \in Nat /\ c > 0
  OBVIOUS
<1> DEFINE y == x * a
           q == y \div c
<1>3. y \in Nat /\ y <= x * c
  BY <1>1
<1> HIDE DEF y
<1>4. q \in Nat /\ q * c <= y
  BY <1>2, <1>3
<1> HIDE DEF q
<1>5. q <= x
  <2> SUFFICES ASSUME q > x PROVE FALSE
    BY <1>4
  <2>1. PICK d \in Nat : q = (x + 1) + d
    <3>1. q - (x + 1) \in Nat /\ q = (x + 1) + (q - (x + 1))
      BY <1>4
    <3> QED BY <3>1
  <2>2. q * c = x * c + c + d * c
    BY <2>1
  <2>3. x * c \in Nat /\ d * c \in Nat
    BY <2>1
  <2> QED
    BY <1>2, <1>3, <1>4, <2>2, <2>3
<1> QED
  BY <1>4, <1>5 DEF q, y

\* Proceeds are numbers, none of nothing, and rounded down by less than one.
LEMMA ProceedsAre ==
    ASSUME Asked, NEW i \in 1..Len(quotes), NEW a \in Nat
    PROVE  /\ Proceeds(i, a) \in Nat
           /\ Proceeds(i, 0) = 0
           /\ Scale * Proceeds(i, a) <= a * quotes[i].price
           /\ a * quotes[i].price <= Scale * (Proceeds(i, a) + (IF a = 0 THEN 0 ELSE 1))
<1>1. quotes[i].price \in Nat /\ Scale \in Nat /\ Scale > 0
  BY AskedFacts
<1> DEFINE p == quotes[i].price
           y == a * p
           q == y \div Scale
<1>2. y \in Nat /\ (a = 0 => y = 0)
  BY <1>1
<1>3. p \in Nat
  BY <1>1
<1> HIDE DEF y, p
<1>4. q \in Nat /\ q * Scale <= y /\ y < q * Scale + Scale
  BY <1>1, <1>2
<1>5. 0 \div Scale = 0 /\ 0 * p = 0
  BY <1>1, <1>3
<1> HIDE DEF q
<1>6. Scale * q = q * Scale /\ Scale * (q + 1) = q * Scale + Scale /\ Scale * (q + 0) = q * Scale
  BY <1>1, <1>4
<1>7. a = 0 => y <= q * Scale
  BY <1>1, <1>2, <1>4
<1>8. q * Scale \in Nat
  BY <1>1, <1>4
<1>9. Proceeds(i, a) = q /\ Proceeds(i, 0) = 0
  BY <1>5 DEF Proceeds, q, y, p
<1>10. y <= Scale * (q + (IF a = 0 THEN 0 ELSE 1))
  BY <1>1, <1>2, <1>4, <1>6, <1>7, <1>8
<1>11. Scale * q <= y
  BY <1>4, <1>6, <1>8
<1> QED
  BY <1>4, <1>9, <1>10, <1>11 DEF y, p

\* The quote that is walked next, and what it gives.
Alloc(w, i) ==
    LET capacity == IF Len(w.legs) < MaxAnchors THEN quotes[i].sell ELSE 0
    IN  IF capacity < w.remaining THEN capacity ELSE w.remaining

\* A step of the walk: quote i is taken off, and gives a.
Takes(w, i, x, a) ==
    /\ x.left = w.left \ {i}
    /\ x.remaining = w.remaining - a
    /\ x.legs = IF a = 0 THEN w.legs ELSE Append(w.legs, MultiLeg(i, a))

\* What the next step is.
LEMMA FillTakes ==
    ASSUME Asked, NEW w, NEW i \in 1..Len(quotes), w.remaining \in Nat, w.legs \in Seq(Leg)
    PROVE  LET a == Alloc(w, i) IN
           /\ Takes(w, i, Fill(w, i), a)
           /\ a \in Nat /\ a <= w.remaining /\ a <= quotes[i].sell
           /\ a > 0 => Len(w.legs) < MaxAnchors
           /\ Len(w.legs) < MaxAnchors /\ a < w.remaining => a = quotes[i].sell
<1>1. quotes[i].sell \in Nat /\ MaxAnchors \in Nat /\ Len(w.legs) \in Nat
  BY AskedFacts
<1>2. Takes(w, i, Fill(w, i), Alloc(w, i))
  BY DEF Takes, Fill, Alloc
<1>3. CASE Len(w.legs) < MaxAnchors
  BY <1>1, <1>2, <1>3 DEF Alloc
<1>4. CASE ~(Len(w.legs) < MaxAnchors)
  BY <1>1, <1>2, <1>4 DEF Alloc
<1> QED
  BY <1>3, <1>4

\* A total over the quotes to which one of them adds.
LEMMA TakenGrows ==
    ASSUME Asked, NEW w, NEW n \in Nat, NEW t, NEW i \in w.left, NEW x, NEW a \in Nat,
           TakenOK(w, n, t), Takes(w, i, x, a), a <= w.remaining, a <= quotes[i].sell
    PROVE  LET u == [t EXCEPT ![i] = a] IN
           /\ TakenOK(x, n + 1, u)
           /\ Total(u) = Total(t) + a
           /\ Total(Gains(u)) = Total(Gains(t)) + Proceeds(i, a)
           /\ Total(t) \in Nat /\ Total(Gains(t)) \in Nat
<1> DEFINE N == Len(quotes)
           u == [t EXCEPT ![i] = a]
<1>1. /\ N \in Nat /\ Live \subseteq 1..N /\ IsFiniteSet(Live)
      /\ \A k \in 1..N : quotes[k].sell \in Nat
      /\ request.sell \in Nat
  BY AskedFacts
<1>2. /\ w.left \subseteq Live /\ Cardinality(w.left) + n = Cardinality(Live)
      /\ Total(Marks(w.left)) = n
      /\ t \in Numbers(N) /\ w.remaining \in Nat
      /\ Total(t) + w.remaining = request.sell
      /\ \A k \in 1..N : t[k] <= quotes[k].sell /\ (k \notin Live \ w.left => t[k] = 0)
  BY DEF TakenOK
<1>3. x.left = w.left \ {i} /\ x.remaining = w.remaining - a
  BY DEF Takes
<1>4. i \in 1..N /\ i \in Live /\ t[i] = 0
  BY <1>1, <1>2
<1>5. u \in Numbers(N) /\ u[i] = a /\ \A k \in 1..N : k # i => u[k] = t[k]
  BY <1>2, <1>4 DEF Numbers
<1> HIDE DEF u
<1>6. Total(u) = Total(t) + a
  <2>1. \A k \in 1..N : k # i => u[k] = t[k]
    BY <1>5
  <2> HIDE DEF N
  <2> QED
    BY <1>1, <1>2, <1>4, <1>5, <2>1, TotalGrows
<1>7. Total(t) \in Nat
  BY <1>1, <1>2, TotalIsNumber
<1>8. /\ Gains(t) \in Numbers(N) /\ Gains(u) \in Numbers(N)
      /\ Gains(t)[i] = 0 /\ Gains(u)[i] = Proceeds(i, a)
      /\ \A k \in 1..N : k # i => Gains(u)[k] = Gains(t)[k]
  <2>1. \A k \in 1..N : t[k] \in Nat /\ u[k] \in Nat
    BY <1>2, <1>5 DEF Numbers
  <2>2. \A k \in 1..N : Proceeds(k, t[k]) \in Nat /\ Proceeds(k, u[k]) \in Nat
    BY <2>1, ProceedsAre
  <2>3. Proceeds(i, t[i]) = 0
    BY <1>4, ProceedsAre
  <2> QED
    BY <1>4, <1>5, <2>2, <2>3 DEF Gains, Numbers
<1>9. Total(Gains(u)) = Total(Gains(t)) + Proceeds(i, a)
  <2> HIDE DEF N
  <2> QED
    BY <1>1, <1>4, <1>8, TotalGrows
<1>10. Total(Gains(t)) \in Nat
  BY <1>1, <1>8, TotalIsNumber
<1>11. Total(Marks(x.left)) = n + 1
  <2>1. /\ Marks(w.left) \in Numbers(N) /\ Marks(x.left) \in Numbers(N)
        /\ Marks(w.left)[i] = 0 /\ Marks(x.left)[i] = 1
        /\ \A k \in 1..N : k # i => Marks(x.left)[k] = Marks(w.left)[k]
    BY <1>3, <1>4 DEF Marks, Numbers
  <2> HIDE DEF N
  <2>2. Total(Marks(x.left)) = Total(Marks(w.left)) + 1
    BY <1>1, <1>4, <2>1, TotalGrows
  <2> QED
    BY <1>2, <2>2
<1>12. x.left \subseteq Live /\ Cardinality(x.left) + (n + 1) = Cardinality(Live)
  <2>1. IsFiniteSet(w.left)
    BY <1>1, <1>2, FS_Subset
  <2>2. Cardinality(w.left \ {i}) = Cardinality(w.left) - 1 /\ Cardinality(w.left) \in Nat
    BY <2>1, FS_RemoveElement, FS_CardinalityType
  <2>3. Cardinality(Live) \in Nat
    BY <1>1, FS_CardinalityType
  <2> QED
    BY <1>2, <1>3, <2>2, <2>3
<1>13. x.remaining \in Nat /\ Total(u) + x.remaining = request.sell
  BY <1>1, <1>2, <1>3, <1>6, <1>7
<1>14. \A k \in 1..N : u[k] <= quotes[k].sell /\ (k \notin Live \ x.left => u[k] = 0)
  BY <1>2, <1>3, <1>4, <1>5
<1>15. TakenOK(x, n + 1, u)
  BY <1>5, <1>11, <1>12, <1>13, <1>14 DEF TakenOK
<1> QED
  BY <1>6, <1>7, <1>9, <1>10, <1>15 DEF u

\* The legs' totals with one more leg.
LEMMA SoldGrows ==
    ASSUME NEW legs \in Seq(Leg), NEW leg \in Leg
    PROVE  /\ Sold(Append(legs, leg)) = Sold(legs) + leg.sell
           /\ Net(Append(legs, leg)) = Net(legs) + leg.net
<1> DEFINE n == Len(legs)
           more == Append(legs, leg)
<1>1. n \in Nat /\ DOMAIN legs = 1..n
  OBVIOUS
<1>2. DOMAIN more = 1..(n + 1) /\ more[n + 1] = leg /\ \A k \in 1..n : more[k] = legs[k]
  OBVIOUS
<1>3. /\ \A k \in 1..n : legs[k].sell \in Nat /\ legs[k].net \in Nat
      /\ leg.sell \in Nat /\ leg.net \in Nat
  <2>1. \A l \in Leg : l.sell \in Nat /\ l.net \in Nat
    BY DEF Leg
  <2>2. \A k \in 1..n : legs[k] \in Leg
    OBVIOUS
  <2> QED
    BY <2>1, <2>2
<1>6. \A k \in 1..(n + 1) : more[k].sell \in Nat /\ more[k].net \in Nat
  <2>1. \A k \in 1..(n + 1) : k = n + 1 \/ k \in 1..n
    BY <1>1
  <2> HIDE DEF more, n
  <2> QED
    BY <1>2, <1>3, <2>1
<1> HIDE DEF more, n
<1>4. Sold(more) = Sold(legs) + leg.sell
  <2> DEFINE a == [k \in DOMAIN legs |-> legs[k].sell]
             b == [k \in DOMAIN more |-> more[k].sell]
  <2>1. a \in Numbers(n) /\ b \in Numbers(n + 1)
    BY <1>1, <1>2, <1>3, <1>6 DEF Numbers
  <2>2. b[n + 1] = leg.sell /\ \A k \in 1..n : b[k] = a[k]
    BY <1>1, <1>2
  <2>3. Total(a) = Sold(legs) /\ Total(b) = Sold(more)
    BY DEF Sold
  <2> HIDE DEF a, b
  <2>4. Total(b) = Total(a) + b[n + 1]
    BY <1>1, <2>1, <2>2, TotalAppends
  <2> QED
    BY <2>2, <2>3, <2>4
<1>5. Net(more) = Net(legs) + leg.net
  <2> DEFINE a == [k \in DOMAIN legs |-> legs[k].net]
             b == [k \in DOMAIN more |-> more[k].net]
  <2>1. a \in Numbers(n) /\ b \in Numbers(n + 1)
    BY <1>1, <1>2, <1>3, <1>6 DEF Numbers
  <2>2. b[n + 1] = leg.net /\ \A k \in 1..n : b[k] = a[k]
    BY <1>1, <1>2
  <2>3. Total(a) = Net(legs) /\ Total(b) = Net(more)
    BY DEF Net
  <2> HIDE DEF a, b
  <2>4. Total(b) = Total(a) + b[n + 1]
    BY <1>1, <2>1, <2>2, TotalAppends
  <2> QED
    BY <2>2, <2>3, <2>4
<1> QED
  BY <1>4, <1>5 DEF more

\* The legs after a step.
LEMMA LegsGrow ==
    ASSUME Asked, NEW w, NEW n \in Nat, NEW t, NEW i \in w.left, NEW x, NEW a \in Nat,
           TakenOK(w, n, t), LegsOK(w, n, t), Takes(w, i, x, a),
           a <= w.remaining, a <= quotes[i].sell, a > 0 => Len(w.legs) < MaxAnchors
    PROVE  LegsOK(x, n + 1, [t EXCEPT ![i] = a])
<1> DEFINE u == [t EXCEPT ![i] = a]
           legs == w.legs
           leg == MultiLeg(i, a)
<1>1. /\ TakenOK(x, n + 1, u) /\ Total(u) = Total(t) + a
      /\ Total(Gains(u)) = Total(Gains(t)) + Proceeds(i, a)
      /\ Total(t) \in Nat /\ Total(Gains(t)) \in Nat
  BY TakenGrows
<1> HIDE DEF u
<1>2. /\ legs \in Seq(Leg) /\ Len(legs) <= MaxAnchors /\ Len(legs) <= n
      /\ \A k \in 1..Len(legs) : LegOK(legs[k], w.left)
      /\ \A k, l \in 1..Len(legs) : legs[k].quote = legs[l].quote => k = l
      /\ Sold(legs) = Total(t) /\ Net(legs) = Total(Gains(t))
  BY DEF LegsOK
<1>3. w.left \subseteq Live /\ x.left = w.left \ {i} /\ i \in Live
  BY DEF TakenOK, Takes
<1>4. /\ Len(quotes) \in Nat /\ Len(quotes) <= MaxQuotes /\ Live \subseteq 1..Len(quotes)
      /\ MaxQuotes \in Nat /\ MaxAnchors \in Nat
      /\ quotes[i].sell \in Nat /\ quotes[i].fee \in Nat
  BY <1>3, AskedFacts
<1>5. x.legs = IF a = 0 THEN legs ELSE Append(legs, leg)
  BY DEF Takes
<1> HIDE DEF legs, leg
<1>6. Len(legs) \in Nat
  BY <1>2
<1>7. \A k \in 1..Len(legs) : LegOK(legs[k], x.left)
  BY <1>2, <1>3 DEF LegOK
<1>8. Proceeds(i, a) \in Nat /\ Proceeds(i, 0) = 0
  BY <1>3, <1>4, ProceedsAre
<1>9. CASE a = 0
  <2>1. Sold(legs) = Total(u) /\ Net(legs) = Total(Gains(u))
    BY <1>1, <1>2, <1>8, <1>9
  <2> QED
    BY <1>2, <1>5, <1>6, <1>7, <1>9, <2>1 DEF LegsOK, u
<1>10. CASE a # 0
  <2>1. x.legs = Append(legs, leg) /\ a > 0 /\ Len(legs) < MaxAnchors
    BY <1>5, <1>10 DEF legs
  <2>2. /\ leg.quote = i /\ leg.sell = a /\ leg.net = Proceeds(i, a)
        /\ leg.fee = (quotes[i].fee * a) \div quotes[i].sell
    BY DEF leg, MultiLeg
  <2>3. leg.fee \in Nat /\ leg.fee <= quotes[i].fee
    <3>1. quotes[i].sell \in Nat /\ quotes[i].fee \in Nat /\ 0 < a /\ a <= quotes[i].sell
      BY <1>4, <2>1
    <3>2. /\ (quotes[i].fee * a) \div quotes[i].sell \in Nat
          /\ (quotes[i].fee * a) \div quotes[i].sell <= quotes[i].fee
      BY <3>1, PartOf
    <3> QED
      BY <2>2, <3>2
  <2>4. i \in 1..MaxQuotes
    BY <1>3, <1>4
  <2>5. leg \in Leg
    <3>1. leg = [quote |-> i, sell |-> a, net |-> Proceeds(i, a), fee |-> leg.fee]
      BY <2>2 DEF leg, MultiLeg
    <3> QED
      BY <1>8, <2>3, <2>4, <3>1 DEF Leg
  <2>6. LegOK(leg, x.left)
    BY <1>3, <1>4, <2>1, <2>2, <2>3, <2>5 DEF LegOK
  <2>7. /\ x.legs \in Seq(Leg) /\ Len(x.legs) = Len(legs) + 1
        /\ x.legs[Len(legs) + 1] = leg /\ \A k \in 1..Len(legs) : x.legs[k] = legs[k]
    BY <1>2, <2>1, <2>5
  <2>8. \A k \in 1..Len(x.legs) : k = Len(legs) + 1 \/ k \in 1..Len(legs)
    BY <1>6, <2>7
  <2>9. \A k \in 1..Len(x.legs) : LegOK(x.legs[k], x.left)
    BY <1>7, <2>6, <2>7, <2>8
  <2>10. \A k \in 1..Len(legs) : legs[k].quote # i
    BY <1>2 DEF LegOK
  <2>11. \A k, l \in 1..Len(x.legs) : x.legs[k].quote = x.legs[l].quote => k = l
    BY <1>2, <2>2, <2>7, <2>8, <2>10
  <2>12. Sold(x.legs) = Total(u) /\ Net(x.legs) = Total(Gains(u))
    <3>1. Sold(x.legs) = Sold(legs) + leg.sell /\ Net(x.legs) = Net(legs) + leg.net
      BY <1>2, <2>1, <2>5, SoldGrows
    <3> QED
      BY <1>1, <1>2, <2>2, <3>1
  <2>13. Len(x.legs) <= MaxAnchors /\ Len(x.legs) <= n + 1
    BY <1>2, <1>4, <1>6, <2>1, <2>7
  <2> QED
    BY <2>7, <2>9, <2>11, <2>12, <2>13 DEF LegsOK, u
<1> QED
  BY <1>9, <1>10

\* The order after a step.
LEMMA OrderKept ==
    ASSUME Asked, NEW w, NEW n \in Nat, NEW t, NEW i \in w.left, NEW x, NEW a \in Nat,
           TakenOK(w, n, t), LegsOK(w, n, t), OrderOK(w, t), Takes(w, i, x, a),
           a <= w.remaining, a <= quotes[i].sell,
           Len(w.legs) < MaxAnchors /\ a < w.remaining => a = quotes[i].sell,
           i \in Foremost(w.left)
    PROVE  OrderOK(x, [t EXCEPT ![i] = a])
<1> DEFINE u == [t EXCEPT ![i] = a]
<1>1. /\ Live \subseteq 1..Len(quotes)
      /\ \A k \in 1..Len(quotes) : quotes[k].price \in Nat /\ quotes[k].sell \in Nat
      /\ MaxAnchors \in Nat /\ MaxAnchors >= request.cap /\ request.cap \in Nat
      /\ Cardinality(Live) \in Nat
  BY AskedFacts
<1>2. /\ x.left = w.left \ {i} /\ x.remaining = w.remaining - a /\ w.left \subseteq Live
      /\ w.remaining \in Nat /\ t \in Numbers(Len(quotes))
      /\ \A k \in 1..Len(quotes) : t[k] <= quotes[k].sell
      /\ Cardinality(w.left) + n = Cardinality(Live)
  BY DEF Takes, TakenOK
<1>3. /\ i \in Live /\ i \in 1..Len(quotes)
      /\ \A k \in Live \ x.left : k = i \/ k \in Live \ w.left
      /\ \A k \in x.left : k \in w.left
  BY <1>1, <1>2
<1>4. u[i] = a /\ \A k \in 1..Len(quotes) : k # i => u[k] = t[k]
  BY <1>2, <1>3 DEF Numbers
<1> HIDE DEF u
<1>5. \A k \in Live \ w.left : k # i /\ u[k] = t[k] /\ t[k] \in Nat /\ k \in 1..Len(quotes)
  BY <1>1, <1>2, <1>4 DEF Numbers
<1>6. \A k \in w.left : quotes[k].price <= quotes[i].price
  <2> TAKE k \in w.left
  <2>1. quotes[i].price > quotes[k].price \/ quotes[i].price = quotes[k].price
    BY DEF Foremost
  <2>2. quotes[i].price \in Nat /\ quotes[k].price \in Nat
    BY <1>1, <1>2, <1>3
  <2> QED
    BY <2>1, <2>2
<1>7. \A k \in Live \ w.left, l \in w.left : quotes[l].price <= quotes[k].price
  BY DEF OrderOK
<1>8. \A k \in Live \ x.left, l \in x.left : quotes[l].price <= quotes[k].price
  BY <1>3, <1>6, <1>7
<1>9. ASSUME request.cap >= Cardinality(Live)
      PROVE  /\ x.remaining > 0 => \A k \in Live \ x.left : u[k] = quotes[k].sell
             /\ \A k, l \in Live \ x.left :
                   u[k] < quotes[k].sell /\ u[l] > 0 => quotes[k].price <= quotes[l].price
  <2>1. /\ w.remaining > 0 => \A k \in Live \ w.left : t[k] = quotes[k].sell
        /\ \A k, l \in Live \ w.left :
              t[k] < quotes[k].sell /\ t[l] > 0 => quotes[k].price <= quotes[l].price
    BY <1>9 DEF OrderOK
  <2>2. Len(w.legs) < MaxAnchors
    <3>1. Len(w.legs) <= n /\ Len(w.legs) \in Nat
      BY DEF LegsOK
    <3>2. Cardinality(w.left) \in Nat /\ Cardinality(w.left) > 0
      <4>1. IsFiniteSet(w.left)
        BY <1>2, AskedFacts, FS_Subset
      <4> QED
        BY <4>1, FS_CardinalityType, FS_EmptySet
    <3> QED
      BY <1>1, <1>2, <1>9, <3>1, <3>2
  <2>3. ASSUME x.remaining > 0, NEW k \in Live \ x.left PROVE u[k] = quotes[k].sell
    <3>1. a < w.remaining /\ w.remaining > 0
      BY <1>2, <2>3
    <3>2. CASE k = i
      BY <1>4, <2>2, <3>1, <3>2
    <3>3. CASE k \in Live \ w.left
      BY <1>5, <2>1, <3>1, <3>3
    <3> QED
      BY <1>3, <3>2, <3>3
  <2>4. ASSUME NEW k \in Live \ x.left, NEW l \in Live \ x.left,
               u[k] < quotes[k].sell, u[l] > 0
        PROVE  quotes[k].price <= quotes[l].price
    <3>1. quotes[k].price \in Nat /\ quotes[l].price \in Nat /\ quotes[k].sell \in Nat
      BY <1>1
    <3>2. CASE k = l
      BY <3>1, <3>2
    <3>3. CASE k = i /\ l \in Live \ w.left
      BY <1>7, <3>3
    <3>4. CASE k \in Live \ w.left /\ l = i
      <4>1. w.remaining > 0
        BY <1>2, <1>4, <2>4, <3>4
      <4>2. t[k] = quotes[k].sell
        BY <2>1, <3>4, <4>1
      <4> QED
        BY <1>5, <2>4, <3>1, <3>4, <4>2
    <3>5. CASE k \in Live \ w.left /\ l \in Live \ w.left
      <4>1. t[k] < quotes[k].sell /\ t[l] > 0
        BY <1>5, <2>4, <3>5
      <4> QED
        BY <2>1, <3>5, <4>1
    <3> QED
      BY <1>3, <3>2, <3>3, <3>4, <3>5
  <2> QED
    BY <2>3, <2>4
<1> QED
  BY <1>8, <1>9 DEF OrderOK, u

\* Nothing has been taken at the start.
LEMMA WalkStarts ==
    ASSUME Asked PROVE WalkOK(Outset, 0, [i \in 1..Len(quotes) |-> 0])
<1> DEFINE N == Len(quotes)
           t == [i \in 1..N |-> 0]
<1>1. /\ N \in Nat /\ Live \subseteq 1..N /\ request.sell \in Nat /\ MaxAnchors \in Nat
      /\ \A k \in 1..N : quotes[k].sell \in Nat
      /\ Cardinality(Live) \in Nat
  BY AskedFacts
<1>2. Outset.left = Live /\ Outset.remaining = request.sell /\ Outset.legs = <<>>
  BY DEF Outset
<1>3. t \in Numbers(N) /\ \A k \in 1..N : t[k] = 0
  BY DEF Numbers
<1> HIDE DEF t
<1>4. Total(t) = 0
  BY <1>1, <1>3, TotalIsNumber
<1>5. Marks(Live) \in Numbers(N) /\ \A k \in 1..N : Marks(Live)[k] = 0
  BY DEF Marks, Numbers
<1>6. Total(Marks(Live)) = 0
  BY <1>1, <1>5, TotalIsNumber
<1>7. Gains(t) \in Numbers(N) /\ \A k \in 1..N : Gains(t)[k] = 0
  <2>1. \A k \in 1..N : Proceeds(k, t[k]) = 0
    BY <1>3, ProceedsAre
  <2> QED
    BY <2>1 DEF Gains, Numbers
<1>8. Total(Gains(t)) = 0
  BY <1>1, <1>7, TotalIsNumber
<1>9. Sold(<<>>) = 0 /\ Net(<<>>) = 0
  <2>1. DOMAIN <<>> = 1..0 /\ 1..0 = {} /\ 0 \in Nat
    OBVIOUS
  <2> DEFINE a == [k \in DOMAIN <<>> |-> <<>>[k].sell]
             b == [k \in DOMAIN <<>> |-> <<>>[k].net]
  <2>2. a \in Numbers(0) /\ b \in Numbers(0)
    BY <2>1 DEF Numbers
  <2>3. Sold(<<>>) = Total(a) /\ Net(<<>>) = Total(b)
    BY DEF Sold, Net
  <2> HIDE DEF a, b
  <2>4. \A k \in 1..0 : a[k] = 0 /\ b[k] = 0
    BY <2>1
  <2> QED
    BY <2>1, <2>2, <2>3, <2>4, TotalIsNumber
<1>10. TakenOK(Outset, 0, t)
  BY <1>1, <1>2, <1>3, <1>4, <1>6 DEF TakenOK
<1>11. LegsOK(Outset, 0, t)
  BY <1>1, <1>2, <1>4, <1>8, <1>9 DEF LegsOK
<1>12. OrderOK(Outset, t)
  BY <1>2 DEF OrderOK
<1> QED
  BY <1>10, <1>11, <1>12 DEF WalkOK, t

\* The walk keeps what it has done in order.
LEMMA WalkGoesOn ==
    ASSUME Asked, NEW n \in Nat, n < Cardinality(Live), NEW w, NEW t, WalkOK(w, n, t)
    PROVE  \E u : WalkOK(Fill(w, NextOf(w.left)), n + 1, u)
<1> DEFINE i == NextOf(w.left)
           x == Fill(w, i)
           a == Alloc(w, i)
<1>1. TakenOK(w, n, t) /\ LegsOK(w, n, t) /\ OrderOK(w, t)
  BY DEF WalkOK
<1>2. w.left \subseteq Live /\ Cardinality(w.left) + n = Cardinality(Live) /\ w.remaining \in Nat
  BY <1>1 DEF TakenOK
<1>3. w.left # {}
  <2> SUFFICES ASSUME w.left = {} PROVE FALSE
    OBVIOUS
  <2>1. Cardinality(w.left) = 0
    BY FS_EmptySet
  <2> QED
    BY <1>2, <2>1
<1>4. i \in Foremost(w.left) /\ i \in w.left
  <2>1. PICK k \in w.left : k \in Foremost(w.left)
    BY <1>2, <1>3, ForemostExists
  <2>2. i \in Foremost(w.left)
    BY <2>1 DEF NextOf
  <2> QED
    BY <2>2 DEF Foremost
<1>5. i \in 1..Len(quotes)
  BY <1>2, <1>4, AskedFacts
<1>6. w.legs \in Seq(Leg)
  BY <1>1 DEF LegsOK
<1> HIDE DEF i
<1>7. /\ Takes(w, i, x, a)
      /\ a \in Nat /\ a <= w.remaining /\ a <= quotes[i].sell
      /\ a > 0 => Len(w.legs) < MaxAnchors
      /\ Len(w.legs) < MaxAnchors /\ a < w.remaining => a = quotes[i].sell
  BY <1>2, <1>5, <1>6, FillTakes
<1> HIDE DEF a, x
<1>8. TakenOK(x, n + 1, [t EXCEPT ![i] = a])
  BY <1>1, <1>4, <1>7, TakenGrows
<1>9. LegsOK(x, n + 1, [t EXCEPT ![i] = a])
  BY <1>1, <1>4, <1>7, LegsGrow
<1>10. OrderOK(x, [t EXCEPT ![i] = a])
  BY <1>1, <1>4, <1>7, OrderKept
<1>11. WalkOK(x, n + 1, [t EXCEPT ![i] = a])
  BY <1>8, <1>9, <1>10 DEF WalkOK
<1> QED
  BY <1>11 DEF x, i

\* At its end the walk has been over all live quotes.
LEMMA WalkEnds ==
    ASSUME Asked
    PROVE  \E t : WalkOK(Walked, Cardinality(Live), t) /\ Walked.left = {}
<1> DEFINE c == Cardinality(Live)
<1>1. PICK f : /\ Walked = f[c] /\ f[0] = Outset
               /\ \A k \in 1..c : f[k] = Fill(f[k - 1], NextOf(f[k - 1].left))
  BY WalkedIs
<1>2. c \in Nat
  BY AskedFacts
<1> DEFINE T == {n \in Nat : n <= c => \E t : WalkOK(f[n], n, t)}
<1>3. 0 \in T
  BY <1>1, WalkStarts
<1>4. ASSUME NEW n \in Nat, n \in T PROVE n + 1 \in T
  <2> SUFFICES ASSUME n + 1 <= c PROVE \E t : WalkOK(f[n + 1], n + 1, t)
    OBVIOUS
  <2>1. n < c /\ n <= c /\ n + 1 \in 1..c /\ (n + 1) - 1 = n
    BY <1>2
  <2>2. PICK t : WalkOK(f[n], n, t)
    BY <1>4, <2>1
  <2>3. f[n + 1] = Fill(f[n], NextOf(f[n].left))
    BY <1>1, <2>1
  <2> QED
    BY <2>1, <2>2, <2>3, WalkGoesOn
<1> HIDE DEF T, c
<1>5. \A n \in Nat : n \in T
  BY <1>3, <1>4, SetInduction
<1>6. PICK t : WalkOK(Walked, c, t)
  BY <1>1, <1>2, <1>5 DEF T
<1>7. Walked.left = {}
  <2>1. Walked.left \subseteq Live /\ Cardinality(Walked.left) + c = c
    BY <1>6 DEF WalkOK, TakenOK, c
  <2>2. IsFiniteSet(Walked.left)
    BY <2>1, AskedFacts, FS_Subset
  <2>3. Cardinality(Walked.left) = 0
    BY <1>2, <2>1, <2>2, FS_CardinalityType
  <2> QED
    BY <2>2, <2>3, FS_EmptySet
<1> QED
  BY <1>6, <1>7 DEF c

-----------------------------------------------------------------------------
(* What the walk's end says of the order.                                  *)

\* A plan that sells the order keeps the terms, but for the floor, which is checked.
LEMMA SplitKeepsTheTerms ==
    ASSUME Asked, ~(Walked.remaining > 0)
    PROVE  LET legs == Walked.legs IN
           /\ legs \in Seq(Leg)
           /\ \A n \in DOMAIN legs : legs[n].quote \in Live
                 /\ legs[n].sell \in 1..quotes[legs[n].quote].sell
                 /\ legs[n].fee <= quotes[legs[n].quote].fee
           /\ \A n, k \in DOMAIN legs : legs[n].quote = legs[k].quote => n = k
           /\ Len(legs) <= MaxAnchors /\ Sold(legs) = request.sell
<1>1. PICK t : WalkOK(Walked, Cardinality(Live), t)
  BY WalkEnds
<1>2. LegsOK(Walked, Cardinality(Live), t) /\ TakenOK(Walked, Cardinality(Live), t)
  BY <1>1 DEF WalkOK
<1>3. DOMAIN Walked.legs = 1..Len(Walked.legs) /\ Walked.legs \in Seq(Leg)
  BY <1>2 DEF LegsOK
<1>4. Sold(Walked.legs) = request.sell
  <2>1. Total(t) + Walked.remaining = request.sell /\ Walked.remaining \in Nat
    BY <1>2 DEF TakenOK
  <2>2. Total(t) \in Nat
    BY <1>2, AskedFacts, TotalIsNumber DEF TakenOK
  <2> QED
    BY <1>2, <2>1, <2>2 DEF LegsOK
<1> QED
  BY <1>2, <1>3, <1>4 DEF LegsOK, LegOK

\* What one of the ways to sell the order sells of each quote.
LEMMA AllocationFacts ==
    ASSUME Asked, NEW f \in Allocations
    PROVE  /\ f \in Numbers(Len(quotes)) /\ Total(f) = request.sell
           /\ \A i \in 1..Len(quotes) : /\ f[i] <= request.sell
                                        /\ i \in Live => f[i] <= quotes[i].sell
                                        /\ i \notin Live => f[i] = 0
<1>1. DOMAIN quotes = 1..Len(quotes) /\ request.sell \in Nat
  BY AskedFacts
<1>2. /\ f \in [1..Len(quotes) -> 0..request.sell] /\ Total(f) = request.sell
      /\ \A i \in 1..Len(quotes) : f[i] <= (IF i \in Live THEN quotes[i].sell ELSE 0)
  BY <1>1 DEF Allocations
<1>3. \A i \in 1..Len(quotes) : f[i] \in Nat /\ f[i] <= request.sell
  BY <1>1, <1>2
<1>4. f \in Numbers(Len(quotes))
  BY <1>2, <1>3 DEF Numbers
<1>5. \A i \in 1..Len(quotes) : /\ i \in Live => f[i] <= quotes[i].sell
                                /\ i \notin Live => f[i] = 0
  BY <1>2, <1>3
<1> QED
  BY <1>2, <1>3, <1>4, <1>5

\* If the cap admits all and something remains, there is no way to sell the order.
LEMMA NothingMoreToSell ==
    ASSUME Asked, request.cap >= Cardinality(Live), Walked.remaining > 0
    PROVE  Allocations = {}
<1> SUFFICES ASSUME NEW f \in Allocations PROVE FALSE
  OBVIOUS
<1> DEFINE N == Len(quotes)
<1>1. PICK t : WalkOK(Walked, Cardinality(Live), t) /\ Walked.left = {}
  BY WalkEnds
<1>2. /\ t \in Numbers(N) /\ Walked.remaining \in Nat /\ Total(t) + Walked.remaining = request.sell
      /\ \A i \in 1..N : t[i] <= quotes[i].sell
      /\ \A i \in Live : t[i] = quotes[i].sell
  BY <1>1 DEF WalkOK, TakenOK, OrderOK
<1>3. N \in Nat /\ request.sell \in Nat
  BY AskedFacts
<1>4. f \in Numbers(N) /\ Total(f) = request.sell
  BY AllocationFacts
<1>5. \A i \in 1..N : f[i] \in Nat /\ t[i] \in Nat /\ f[i] <= t[i]
  <2> TAKE i \in 1..N
  <2>1. f[i] \in Nat /\ t[i] \in Nat
    BY <1>2, <1>4 DEF Numbers
  <2>2. /\ i \in Live => f[i] <= quotes[i].sell
        /\ i \notin Live => f[i] = 0
    BY AllocationFacts
  <2> QED
    BY <1>2, <2>1, <2>2
<1> HIDE DEF N
<1>6. 1 \in Nat /\ \A i \in 1..N : 1 * f[i] + f[i] <= 1 * t[i] + t[i]
  BY <1>5
<1>7. 1 * Total(f) + Total(f) <= 1 * Total(t) + Total(t)
  BY <1>2, <1>3, <1>4, <1>6, TotalsCompare
<1>8. Total(f) \in Nat /\ Total(t) \in Nat
  BY <1>2, <1>3, <1>4, TotalIsNumber
<1> QED
  BY <1>2, <1>4, <1>7, <1>8

\* To give more at a better price and less at a worse one gains.
LEMMA Exchange ==
    ASSUME NEW f \in Nat, NEW t \in Nat, NEW p \in Nat, NEW q \in Nat,
           p > q => f <= t, p < q => t <= f
    PROVE  q * t + f * p <= q * f + t * p
<1>1. CASE p > q
  <2>1. PICK d \in Nat : p = q + d
    <3>1. p - q \in Nat /\ p = q + (p - q)
      BY <1>1
    <3> QED BY <3>1
  <2>2. PICK e \in Nat : t = f + e
    <3>1. t - f \in Nat /\ t = f + (t - f)
      BY <1>1
    <3> QED BY <3>1
  <2>3. q * t = q * f + q * e /\ f * p = f * q + f * d
    BY <2>1, <2>2
  <2>4. t * p = f * q + f * d + e * q + e * d
    BY <2>1, <2>2
  <2>5. q * e = e * q /\ e * d \in Nat /\ q * f \in Nat /\ f * q \in Nat /\ f * d \in Nat /\ e * q \in Nat
    BY <2>1, <2>2
  <2> QED
    BY <2>3, <2>4, <2>5
<1>2. CASE p < q
  <2>1. PICK d \in Nat : q = p + d
    <3>1. q - p \in Nat /\ q = p + (q - p)
      BY <1>2
    <3> QED BY <3>1
  <2>2. PICK e \in Nat : f = t + e
    <3>1. f - t \in Nat /\ f = t + (f - t)
      BY <1>2
    <3> QED BY <3>1
  <2>3. q * t = p * t + d * t /\ f * p = t * p + e * p
    BY <2>1, <2>2
  <2>4. q * f = p * t + p * e + d * t + d * e
    BY <2>1, <2>2
  <2>5. p * e = e * p /\ d * e \in Nat /\ p * t \in Nat /\ t * p \in Nat /\ d * t \in Nat /\ e * p \in Nat
    BY <2>1, <2>2
  <2> QED
    BY <2>3, <2>4, <2>5
<1>3. CASE p = q
  <2>1. f * p = q * f /\ q * t = t * p /\ q * f \in Nat /\ t * p \in Nat
    BY <1>3
  <2> QED
    BY <2>1
<1> QED
  BY <1>1, <1>2, <1>3

\* There is a price above which the walk has taken all, and below which nothing.
LEMMA ThresholdExists ==
    ASSUME Asked, request.cap >= Cardinality(Live), NEW t,
           WalkOK(Walked, Cardinality(Live), t), Walked.left = {}, ~(Walked.remaining > 0),
           NEW f \in Allocations
    PROVE  \E q \in Nat : \A i \in 1..Len(quotes) :
              q * t[i] + f[i] * quotes[i].price <= q * f[i] + t[i] * quotes[i].price
<1> DEFINE N == Len(quotes)
<1>1. /\ N \in Nat /\ Live \subseteq 1..N /\ request.sell \in Nat
      /\ \A i \in 1..N : quotes[i].price \in Nat /\ quotes[i].sell \in Nat
  BY AskedFacts
<1>2. /\ t \in Numbers(N) /\ Walked.remaining \in Nat /\ Total(t) + Walked.remaining = request.sell
      /\ \A i \in 1..N : t[i] <= quotes[i].sell /\ (i \notin Live => t[i] = 0)
      /\ \A i, j \in Live : t[i] < quotes[i].sell /\ t[j] > 0 => quotes[i].price <= quotes[j].price
  BY DEF WalkOK, TakenOK, OrderOK
<1>3. /\ f \in Numbers(N)
      /\ \A i \in 1..N : /\ f[i] <= request.sell
                         /\ i \in Live => f[i] <= quotes[i].sell
                         /\ i \notin Live => f[i] = 0
  BY AllocationFacts
<1>4. \A i \in 1..N : f[i] \in Nat /\ t[i] \in Nat
  BY <1>2, <1>3 DEF Numbers
<1> HIDE DEF N
<1>5. CASE \A i \in 1..N : t[i] = 0
  <2>1. Total(t) = 0
    BY <1>1, <1>2, <1>5, TotalIsNumber
  <2>2. request.sell = 0
    BY <1>2, <2>1
  <2>3. \A i \in 1..N : f[i] = 0
    BY <1>3, <1>4, <2>2
  <2>4. \A i \in 1..N : 0 * t[i] + f[i] * quotes[i].price <= 0 * f[i] + t[i] * quotes[i].price
    BY <1>1, <1>5, <2>3
  <2> QED
    BY <2>4 DEF N
<1>6. CASE ~(\A i \in 1..N : t[i] = 0)
  <2> DEFINE T == {quotes[j].price : j \in {j \in Live : t[j] > 0}}
  <2>1. T \subseteq Nat /\ T # {}
    <3>1. PICK j \in 1..N : t[j] # 0
      BY <1>6
    <3>2. j \in Live /\ t[j] > 0
      BY <1>2, <1>4, <3>1
    <3> QED
      BY <1>1, <3>2
  <2>2. PICK q \in T : \A r \in T : q <= r
    BY <2>1, LeastExists
  <2>3. PICK k \in Live : q = quotes[k].price /\ t[k] > 0
    BY <2>2
  <2>4. \A j \in Live : t[j] > 0 => q <= quotes[j].price
    BY <2>2
  <2>5. q \in Nat
    BY <2>1, <2>2
  <2> HIDE DEF T
  <2>6. ASSUME NEW i \in 1..N
        PROVE  q * t[i] + f[i] * quotes[i].price <= q * f[i] + t[i] * quotes[i].price
    <3> DEFINE p == quotes[i].price
               fi == f[i]
               ti == t[i]
    <3>1. p \in Nat /\ fi \in Nat /\ ti \in Nat /\ quotes[i].sell \in Nat
      BY <1>1, <1>4
    <3>2. p > q => fi <= ti
      <4> SUFFICES ASSUME p > q PROVE fi <= ti
        OBVIOUS
      <4>1. CASE i \in Live
        <5>1. ~(ti < quotes[i].sell)
          BY <1>2, <2>3, <2>5, <3>1, <4>1
        <5>2. fi <= quotes[i].sell
          BY <1>3, <4>1
        <5> QED
          BY <3>1, <5>1, <5>2
      <4>2. CASE i \notin Live
        BY <1>3, <3>1, <4>2
      <4> QED
        BY <4>1, <4>2
    <3>3. p < q => ti <= fi
      <4> SUFFICES ASSUME p < q PROVE ti <= fi
        OBVIOUS
      <4>1. ti = 0
        BY <1>2, <2>4, <2>5, <3>1
      <4> QED
        BY <3>1, <4>1
    <3> HIDE DEF p, fi, ti
    <3>4. q * ti + fi * p <= q * fi + ti * p
      BY <2>5, <3>1, <3>2, <3>3, Exchange
    <3> QED
      BY <3>4 DEF p, fi, ti
  <2> QED
    BY <2>5, <2>6 DEF N
<1> QED
  BY <1>5, <1>6

\* Scaled up, a number is no more than another if it was not before.
LEMMA ScaledDown ==
    ASSUME NEW s \in Nat, s > 0, NEW x \in Nat, NEW y \in Nat, s * x <= s * y
    PROVE  x <= y
<1> SUFFICES ASSUME x > y PROVE FALSE
  OBVIOUS
<1>1. PICK d \in Nat : x = (y + 1) + d
  <2>1. x - (y + 1) \in Nat /\ x = (y + 1) + (x - (y + 1))
    OBVIOUS
  <2> QED BY <2>1
<1>2. s * x = s * y + s + s * d
  BY <1>1
<1>3. s * y \in Nat /\ s * d \in Nat
  BY <1>1
<1> QED
  BY <1>2, <1>3

\* If the cap admits all, no way to sell the order delivers more than the walk's,
\* but for what the rounding of each leg takes off.
LEMMA GreedyIsBest ==
    ASSUME Asked, request.cap >= Cardinality(Live), ~(Walked.remaining > 0),
           NEW f \in Allocations
    PROVE  /\ Delivered(f) \in Nat /\ Net(Walked.legs) \in Nat
           /\ Delivered(f) <= Net(Walked.legs) + Cardinality(Live)
<1> DEFINE N == Len(quotes)
           c == Cardinality(Live)
<1>1. /\ N \in Nat /\ Live \subseteq 1..N /\ c \in Nat /\ Scale \in Nat /\ Scale > 0
      /\ \A i \in 1..N : quotes[i].price \in Nat
      /\ request.sell \in Nat /\ DOMAIN quotes = 1..N
  BY AskedFacts
<1>2. PICK t : WalkOK(Walked, c, t) /\ Walked.left = {}
  BY WalkEnds
<1>3. PICK q \in Nat : \A i \in 1..N :
        q * t[i] + f[i] * quotes[i].price <= q * f[i] + t[i] * quotes[i].price
  BY <1>2, ThresholdExists
<1>4. /\ t \in Numbers(N) /\ Walked.remaining \in Nat /\ Total(t) + Walked.remaining = request.sell
      /\ \A i \in 1..N : i \notin Live => t[i] = 0
      /\ Total(Marks({})) = c /\ Net(Walked.legs) = Total(Gains(t))
  BY <1>2 DEF WalkOK, TakenOK, LegsOK
<1>5. f \in Numbers(N) /\ Total(f) = request.sell
  BY AllocationFacts
<1>6. \A i \in 1..N : f[i] \in Nat /\ t[i] \in Nat
  BY <1>4, <1>5 DEF Numbers
<1> DEFINE zero == [i \in 1..N |-> 0]
           paid == [i \in 1..N |-> f[i] * quotes[i].price]
           best == [i \in 1..N |-> t[i] * quotes[i].price]
           gain == Gains(f)
           got == Gains(t)
           mark == Marks({})
           more == [i \in 1..N |-> got[i] + mark[i]]
<1>7. /\ zero \in Numbers(N) /\ \A i \in 1..N : zero[i] = 0
      /\ paid \in Numbers(N) /\ \A i \in 1..N : paid[i] = f[i] * quotes[i].price
      /\ best \in Numbers(N) /\ \A i \in 1..N : best[i] = t[i] * quotes[i].price
  BY <1>1, <1>6 DEF Numbers
<1>8. /\ \A i \in 1..N : /\ Proceeds(i, f[i]) \in Nat
                         /\ Scale * Proceeds(i, f[i]) <= f[i] * quotes[i].price
      /\ \A i \in 1..N : /\ Proceeds(i, t[i]) \in Nat
                         /\ t[i] * quotes[i].price
                              <= Scale * (Proceeds(i, t[i]) + (IF t[i] = 0 THEN 0 ELSE 1))
  BY <1>6, ProceedsAre
<1>9. /\ gain \in Numbers(N) /\ \A i \in 1..N : gain[i] = Proceeds(i, f[i])
      /\ got \in Numbers(N) /\ \A i \in 1..N : got[i] = Proceeds(i, t[i])
  BY <1>8 DEF Gains, Numbers
<1>10. mark \in Numbers(N) /\ \A i \in 1..N : mark[i] = IF i \in Live THEN 1 ELSE 0
  BY DEF Marks, Numbers
<1>11. more \in Numbers(N) /\ \A i \in 1..N : more[i] = got[i] + mark[i]
  BY <1>9, <1>10 DEF Numbers
<1>12. Delivered(f) = Total(gain) /\ Net(Walked.legs) = Total(got) /\ Total(mark) = c
  BY <1>1, <1>4 DEF Delivered, Gains
<1>13. Total(t) = Total(f)
  <2>1. Total(t) \in Nat /\ request.sell \in Nat
    BY <1>1, <1>4, TotalIsNumber
  <2>2. Walked.remaining = 0
    BY <1>4
  <2> QED
    BY <1>4, <1>5, <2>1, <2>2
<1> HIDE DEF zero, paid, best, gain, got, mark, more, N, c
<1>14. /\ Total(zero) = 0 /\ Total(paid) \in Nat /\ Total(best) \in Nat /\ Total(gain) \in Nat
       /\ Total(got) \in Nat /\ Total(more) \in Nat /\ Total(t) \in Nat
  BY <1>1, <1>4, <1>7, <1>9, <1>11, TotalIsNumber
<1>15. Total(paid) <= Total(best)
  <2>1. \A i \in 1..N : q * t[i] + paid[i] <= q * f[i] + best[i]
    BY <1>3, <1>7
  <2>2. q * Total(t) + Total(paid) <= q * Total(f) + Total(best)
    BY <1>1, <1>4, <1>5, <1>7, <2>1, TotalsCompare
  <2>3. q * Total(t) \in Nat /\ q * Total(f) = q * Total(t)
    BY <1>13, <1>14
  <2> QED
    BY <1>14, <2>2, <2>3
<1>16. Scale * Total(gain) <= Total(paid)
  <2>1. \A i \in 1..N : Scale * gain[i] + zero[i] <= 1 * paid[i] + zero[i]
    <3> TAKE i \in 1..N
    <3> DEFINE x == Scale * gain[i]
               y == paid[i]
    <3>1. x <= y /\ x \in Nat /\ y \in Nat /\ zero[i] = 0
      <4>1. zero[i] = 0 /\ paid[i] = f[i] * quotes[i].price
        BY <1>7
      <4>2. gain[i] = Proceeds(i, f[i]) /\ gain[i] \in Nat
        BY <1>8, <1>9
      <4>3. Scale * Proceeds(i, f[i]) <= f[i] * quotes[i].price
        BY <1>8
      <4>4. y \in Nat
        BY <1>7 DEF Numbers
      <4>5. Scale * gain[i] \in Nat
        BY <1>1, <4>2
      <4> QED
        BY <4>1, <4>2, <4>3, <4>4, <4>5
    <3> HIDE DEF x, y
    <3>2. x + zero[i] <= 1 * y + zero[i]
      BY <3>1
    <3> QED
      BY <3>2 DEF x, y
  <2>2. Scale * Total(gain) + Total(zero) <= 1 * Total(paid) + Total(zero)
    <3>1. 1 \in Nat
      OBVIOUS
    <3> QED
      BY <1>1, <1>7, <1>9, <2>1, <3>1, TotalsCompare
  <2>3. Scale * Total(gain) \in Nat
    BY <1>1, <1>14
  <2> QED
    BY <1>14, <2>2, <2>3
<1>17. Total(best) <= Scale * Total(more)
  <2>1. \A i \in 1..N : 1 * best[i] + zero[i] <= Scale * more[i] + zero[i]
    <3> TAKE i \in 1..N
    <3>1. /\ best[i] \in Nat /\ got[i] \in Nat /\ mark[i] \in {0, 1} /\ zero[i] = 0
          /\ more[i] = got[i] + mark[i] /\ (t[i] # 0 => mark[i] = 1)
          /\ best[i] <= Scale * (got[i] + (IF t[i] = 0 THEN 0 ELSE 1))
      BY <1>4, <1>7, <1>8, <1>9, <1>10, <1>11 DEF Numbers
    <3> DEFINE b == best[i]
               g == got[i]
               m == mark[i]
               y == more[i]
    <3>2. /\ b \in Nat /\ g \in Nat /\ m \in {0, 1} /\ y = g + m /\ zero[i] = 0
          /\ b <= Scale * (g + m) \/ b <= Scale * (g + 0)
      BY <3>1
    <3> HIDE DEF b, g, m, y
    <3>3. Scale * (g + 1) = Scale * g + Scale /\ Scale * (g + 0) = Scale * g /\ Scale * g \in Nat
      BY <1>1, <3>2
    <3>4. b <= Scale * y
      BY <1>1, <3>2, <3>3
    <3>5. 1 * b + zero[i] <= Scale * y + zero[i]
      <4>1. y \in Nat /\ Scale * y \in Nat
        BY <1>1, <3>2
      <4> QED
        BY <3>2, <3>4, <4>1
    <3> QED
      BY <3>5 DEF b, y
  <2>2. 1 * Total(best) + Total(zero) <= Scale * Total(more) + Total(zero)
    <3>1. 1 \in Nat
      OBVIOUS
    <3> QED
      BY <1>1, <1>7, <1>11, <2>1, <3>1, TotalsCompare
  <2>3. Scale * Total(more) \in Nat
    BY <1>1, <1>14
  <2> QED
    BY <1>14, <2>2, <2>3
<1>18. Total(more) <= Total(got) + Total(mark)
  <2>1. \A i \in 1..N : 1 * more[i] + zero[i] <= 1 * got[i] + mark[i]
    BY <1>7, <1>9, <1>10, <1>11 DEF Numbers
  <2>2. 1 * Total(more) + Total(zero) <= 1 * Total(got) + Total(mark)
    <3>1. 1 \in Nat
      OBVIOUS
    <3> QED
      BY <1>1, <1>7, <1>9, <1>10, <1>11, <2>1, <3>1, TotalsCompare
  <2> QED
    BY <1>1, <1>12, <1>14, <2>2
<1>19. Scale * Total(gain) <= Scale * Total(more)
  <2>1. Scale * Total(gain) \in Nat /\ Scale * Total(more) \in Nat
    BY <1>1, <1>14
  <2> QED
    BY <1>14, <1>15, <1>16, <1>17, <2>1
<1>20. Total(gain) <= Total(more)
  BY <1>1, <1>14, <1>19, ScaledDown
<1> QED
  BY <1>1, <1>12, <1>14, <1>18, <1>20 DEF c

-----------------------------------------------------------------------------
(* What a call ends with.  A solver answers once, from the quotes and the  *)
(* intent it was given, so nothing but its answer and the fallback's       *)
(* rounds ever changes.                                                    *)

\* Of bounded numbers one is the largest.
LEMMA LargestExists ==
    ASSUME NEW S, S # {}, NEW v, NEW b \in Nat,
           \A i \in S : v[i] \in Nat /\ v[i] <= b
    PROVE  \E i \in S : \A j \in S : v[j] <= v[i]
<1> DEFINE T == {b - v[i] : i \in S}
<1>1. T \subseteq Nat /\ T # {}
  OBVIOUS
<1>2. PICK d \in T : \A e \in T : d <= e
  BY <1>1, LeastExists
<1>3. PICK i \in S : d = b - v[i]
  BY <1>2
<1>4. \A j \in S : b - v[i] <= b - v[j]
  BY <1>2, <1>3
<1>5. \A j \in S : v[j] <= v[i]
  BY <1>4
<1> QED
  BY <1>5

\* Of some quotes one is the first.
LEMMA EarliestExists ==
    ASSUME NEW is, is \subseteq Nat, is # {} PROVE \E i \in is : i \in Earliest(is)
  BY LeastExists DEF Earliest

\* Of some quotes one delivers the most, and is the first to.
LEMMA BestExists ==
    ASSUME Asked, NEW is, is \subseteq Live, is # {}
    PROVE  \E i \in is : i \in BestOf(is)
<1> DEFINE N == Len(quotes)
           v == [i \in 1..N |-> quotes[i].buy]
           most == {i \in is : \A j \in is : quotes[j].buy <= quotes[i].buy}
<1>1. N \in Nat /\ is \subseteq 1..N /\ \A i \in 1..N : quotes[i].buy \in Nat
  BY AskedFacts
<1>2. v \in Numbers(N)
  BY <1>1 DEF Numbers
<1>3. PICK b \in Nat : \A i \in 1..N : v[i] <= b
  BY <1>1, <1>2, BoundExists DEF Numbers
<1>4. \A i \in is : v[i] \in Nat /\ v[i] <= b /\ v[i] = quotes[i].buy
  BY <1>1, <1>3
<1>5. PICK i \in is : \A j \in is : v[j] <= v[i]
  <2> HIDE DEF v
  <2> QED
    BY <1>4, LargestExists
<1>6. most # {} /\ most \subseteq Nat /\ most \subseteq is
  <2>1. \A j \in is : quotes[j].buy <= quotes[i].buy
    <3> HIDE DEF v
    <3> QED
      BY <1>4, <1>5
  <2>2. i \in most
    BY <2>1
  <2>3. \A j \in is : j \in Nat
    BY <1>1
  <2> QED
    BY <2>2, <2>3
<1> HIDE DEF most
<1>7. PICK k \in most : k \in Earliest(most)
  BY <1>6, EarliestExists
<1> QED
  BY <1>6, <1>7 DEF BestOf, most

\* Of the rates of some anchors one is the best.
LEMMA BestRateExists ==
    ASSUME NEW rates, DOMAIN rates \subseteq Nat, DOMAIN rates # {}, MaxReceived \in Nat,
           \A a \in DOMAIN rates : rates[a] \in 0..MaxReceived
    PROVE  BestRate(rates) # {}
<1> DEFINE most == {a \in DOMAIN rates : \A j \in DOMAIN rates : rates[j] <= rates[a]}
<1>1. \A a \in DOMAIN rates : rates[a] \in Nat /\ rates[a] <= MaxReceived
  OBVIOUS
<1>2. most # {} /\ most \subseteq Nat
  BY <1>1, LargestExists
<1>3. PICK a \in most : \A e \in most : a <= e
  <2> HIDE DEF most
  <2> QED
    BY <1>2, LeastExists
<1>4. \A e \in DOMAIN rates : BetterRate(rates, a, e)
  <2> TAKE e \in DOMAIN rates
  <2>1. /\ rates[e] <= rates[a] /\ rates[a] \in Nat /\ rates[e] \in Nat
        /\ \A j \in DOMAIN rates : rates[j] <= rates[a]
    BY <1>1, <1>3
  <2>2. CASE rates[e] = rates[a]
    <3>1. e \in most
      BY <2>1, <2>2
    <3> QED
      BY <1>3, <2>2, <3>1 DEF BetterRate
  <2>3. CASE rates[e] # rates[a]
    <3>1. rates[a] > rates[e]
      BY <2>1, <2>3
    <3> QED
      BY <3>1 DEF BetterRate
  <2> QED
    BY <2>2, <2>3
<1> QED
  BY <1>3, <1>4 DEF BestRate

\* While a call keeps its quotes and its intent, it is asked the same.
LEMMA SameCall ==
    ASSUME request' = request, quotes' = quotes
    PROVE  /\ Live' = Live /\ Valid' = Valid /\ MaxAnchors' = MaxAnchors
           /\ Allocations' = Allocations /\ \A f : Delivered(f)' = Delivered(f)
<1>1. Live' = Live
  BY DEF Live
<1>2. Valid' = Valid
  BY <1>1 DEF Valid, OverBudget, BelowFloor, ExceedsFeeBudget
<1>3. MaxAnchors' = MaxAnchors
  BY DEF MaxAnchors
<1>4. Allocations' = Allocations
  BY <1>1 DEF Allocations
<1>5. \A f : Delivered(f)' = Delivered(f)
  BY DEF Delivered, Proceeds
<1> QED
  BY <1>1, <1>2, <1>3, <1>4, <1>5

-----------------------------------------------------------------------------
(* The invariant adds to the three that a call that has answered names its *)
(* solver, that every anchor asked is excluded or has won, and that the    *)
(* fallback has an attempt left while it goes on.                          *)

\* How far a call has come.
RouterProgress ==
    /\ answer.kind = "none" => answer.by = "none"
    /\ Len(attempts) = round
    /\ \A n \in DOMAIN attempts : attempts[n].anchor \in excluded \cup winner
    /\ (answer.kind = "none" /\ winner = {}) => round <= MaxFallbackAttempts

RouterInv == RouterTypeOK /\ PlansKeepTheTerms /\ RefusalsAreFounded /\ RouterProgress

\* A call begins in order.
LEMMA RouterStarts == RouterInit => RouterInv
<1> SUFFICES ASSUME RouterInit PROVE RouterInv
  OBVIOUS
<1>1. /\ request \in Request /\ quotes \in BoundedSeq(Quote, MaxQuotes)
      /\ answer = [by |-> "none", kind |-> "none", legs |-> <<>>]
      /\ round = 0 /\ excluded = {} /\ attempts = <<>> /\ offered = <<>> /\ winner = {}
  BY DEF RouterInit, Refused
<1>2. quotes \in Seq(Quote) /\ Len(quotes) <= MaxQuotes
  <2>1. MaxQuotes \in Nat
    BY RouterAssumption DEF RouterAssumption
  <2>2. PICK n \in 0..MaxQuotes : quotes \in [1..n -> Quote]
    BY <1>1 DEF BoundedSeq, SeqOf
  <2>3. n \in Nat /\ n <= MaxQuotes
    BY <2>1
  <2> QED
    BY <2>2, <2>3
<1>3. RouterTypeOK
  <2>1. DOMAIN offered = {}
    BY <1>1
  <2> QED
    BY <1>1, <1>2, <2>1 DEF RouterTypeOK, MaxFallbackAttempts
<1>4. PlansKeepTheTerms
  BY <1>1 DEF PlansKeepTheTerms
<1>5. RefusalsAreFounded
  BY <1>1 DEF RefusalsAreFounded
<1>6. RouterProgress
  BY <1>1 DEF RouterProgress, MaxFallbackAttempts
<1> QED
  BY <1>3, <1>4, <1>5, <1>6 DEF RouterInv

\* What an answer must be for the invariant to go on holding.
RoutedOK ==
    /\ answer'.by \in {"first-match", "scored", "multi"}
    /\ answer'.kind \in Refusal \cup {"plan"} /\ answer'.legs \in Seq(Leg)
    /\ answer'.kind = "plan" /\ answer'.by # "multi" =>
          \E i \in Valid : answer'.legs[1].quote = i
             /\ answer'.by = "scored" => \A j \in Valid : quotes[j].buy <= answer'.legs[1].net
    /\ answer'.kind = "plan" /\ answer'.by = "multi" =>
          /\ \A n \in DOMAIN answer'.legs :
                /\ answer'.legs[n].quote \in Live
                /\ answer'.legs[n].sell \in 1..quotes[answer'.legs[n].quote].sell
                /\ answer'.legs[n].fee <= quotes[answer'.legs[n].quote].fee
          /\ \A n, k \in DOMAIN answer'.legs :
                answer'.legs[n].quote = answer'.legs[k].quote => n = k
          /\ Len(answer'.legs) <= MaxAnchors /\ Sold(answer'.legs) = request.sell
          /\ Net(answer'.legs) >= request.floor
    /\ answer'.by # "multi" /\ answer'.kind # "plan" /\ request.live => Valid = {}
    /\ answer'.by = "multi" /\ request.cap >= Cardinality(Live) =>
          /\ answer'.kind = "insufficient_liquidity" => Allocations = {}
          /\ answer'.kind = "floor_not_met" =>
                \A f \in Allocations : Delivered(f) < request.floor + Cardinality(Live)

\* Such an answer keeps the invariant.
LEMMA AnswersKeep ==
    ASSUME RouterInv, request' = request, quotes' = quotes, fallback' = fallback, RoutedOK
    PROVE  RouterInv'
<1>1. /\ Live' = Live /\ Valid' = Valid /\ MaxAnchors' = MaxAnchors
      /\ Allocations' = Allocations /\ \A f : Delivered(f)' = Delivered(f)
  BY SameCall
<1>2. /\ round' = round /\ excluded' = excluded /\ attempts' = attempts
      /\ offered' = offered /\ winner' = winner
  BY DEF fallback
<1>3. RouterTypeOK'
  BY <1>2 DEF RouterInv, RouterTypeOK, RoutedOK, Solver
<1>4. PlansKeepTheTerms'
  <2>1. (answer'.kind = "plan" /\ answer'.by # "multi") =>
          \E i \in Valid' : answer'.legs[1].quote = i
             /\ answer'.by = "scored" => \A j \in Valid' : quotes'[j].buy <= answer'.legs[1].net
    BY <1>1 DEF RoutedOK
  <2>2. (answer'.kind = "plan" /\ answer'.by = "multi") =>
          /\ \A n \in DOMAIN answer'.legs :
                /\ answer'.legs[n].quote \in Live'
                /\ answer'.legs[n].sell \in 1..quotes'[answer'.legs[n].quote].sell
                /\ answer'.legs[n].fee <= quotes'[answer'.legs[n].quote].fee
          /\ \A n, k \in DOMAIN answer'.legs :
                answer'.legs[n].quote = answer'.legs[k].quote => n = k
          /\ Len(answer'.legs) <= MaxAnchors' /\ Sold(answer'.legs) = request'.sell
          /\ Net(answer'.legs) >= request'.floor
    BY <1>1 DEF RoutedOK
  <2>3. /\ \A n, k \in DOMAIN attempts' : attempts'[n].anchor = attempts'[k].anchor => n = k
        /\ winner' \cap excluded' = {}
    BY <1>2 DEF RouterInv, PlansKeepTheTerms
  <2> QED
    BY <2>1, <2>2, <2>3 DEF PlansKeepTheTerms
<1>5. RefusalsAreFounded'
  <2>1. answer'.by # "fallback"
    BY DEF RoutedOK
  <2>2. (answer'.by \in {"first-match", "scored"} /\ answer'.kind # "plan" /\ request'.live)
          => Valid' = {}
    BY <1>1 DEF RoutedOK
  <2>3. answer'.by = "multi" /\ request'.cap >= Cardinality(Live') =>
          /\ answer'.kind = "insufficient_liquidity" => Allocations' = {}
          /\ answer'.kind = "floor_not_met" =>
                \A f \in Allocations' : Delivered(f)' < request'.floor + Cardinality(Live')
    BY <1>1 DEF RoutedOK
  <2> QED
    BY <2>1, <2>2, <2>3 DEF RefusalsAreFounded
<1>6. RouterProgress'
  BY <1>2 DEF RouterInv, RouterProgress, RoutedOK, Refusal
<1> QED
  BY <1>3, <1>4, <1>5, <1>6 DEF RouterInv

\* A single quote is of those that keep the terms, or there is none.
LEMMA SingleKeeps ==
    ASSUME RouterInv, NEW strategy \in {"first-match", "scored"}, SolveSingleAnchor(strategy)
    PROVE  RouterInv'
<1> DEFINE best == IF strategy = "scored" THEN BestOf(Valid) ELSE Earliest(Valid)
           k == CHOOSE i \in best : TRUE
<1>1. /\ request' = request /\ quotes' = quotes /\ fallback' = fallback
      /\ answer' = IF ~request.live THEN Refused(strategy, "all_quotes_expired")
                   ELSE IF Valid = {} THEN Refused(strategy, SingleRefusal)
                   ELSE Planned(strategy, <<SingleLeg(k)>>)
  BY DEF SolveSingleAnchor
<1>2. Asked
  BY DEF RouterInv, RouterTypeOK, Asked
<1>3. Valid \subseteq Live /\ Live \subseteq 1..Len(quotes)
  BY <1>2, AskedFacts DEF Valid
<1>4. CASE ~request.live
  <2>1. answer' = [by |-> strategy, kind |-> "all_quotes_expired", legs |-> <<>>]
    BY <1>1, <1>4 DEF Refused
  <2>2. RoutedOK
    BY <1>4, <2>1 DEF RoutedOK, Refusal
  <2> QED
    BY <1>1, <2>2, AnswersKeep
<1>5. CASE request.live /\ Valid = {}
  <2>1. answer' = [by |-> strategy, kind |-> SingleRefusal, legs |-> <<>>]
    BY <1>1, <1>5 DEF Refused
  <2>2. SingleRefusal \in {"no_eligible_route", "all_quotes_expired", "fee_budget_exceeded",
                           "floor_not_met"}
    <3>1. quotes = <<>> => Live = {}
      BY DEF Live
    <3> QED
      BY <3>1 DEF SingleRefusal
  <2>3. RoutedOK
    BY <1>5, <2>1, <2>2 DEF RoutedOK, Refusal
  <2> QED
    BY <1>1, <2>3, AnswersKeep
<1>6. CASE request.live /\ Valid # {}
  <2>1. k \in best /\ best \subseteq Valid
    <3>1. \E i \in Valid : i \in BestOf(Valid)
      BY <1>2, <1>3, <1>6, BestExists
    <3>2. \E i \in Valid : i \in Earliest(Valid)
      <4>1. Valid \subseteq Nat
        BY <1>3
      <4> QED
        BY <1>6, <4>1, EarliestExists
    <3> QED
      BY <3>1, <3>2 DEF BestOf, Earliest
  <2>2. strategy = "scored" => \A j \in Valid : quotes[j].buy <= quotes[k].buy
    BY <2>1 DEF BestOf, Earliest
  <2>3. k \in Valid /\ k \in 1..Len(quotes)
    BY <1>3, <2>1
  <2> HIDE DEF k, best
  <2>4. answer' = [by |-> strategy, kind |-> "plan", legs |-> <<SingleLeg(k)>>]
    BY <1>1, <1>6 DEF Planned
  <2>5. SingleLeg(k) \in Leg /\ SingleLeg(k).quote = k /\ SingleLeg(k).net = quotes[k].buy
    <3>1. k \in 1..MaxQuotes
      BY <1>2, <2>3, AskedFacts
    <3>2. quotes[k].sell \in Nat /\ quotes[k].buy \in Nat /\ quotes[k].fee \in Nat
      BY <1>2, <2>3, AskedFacts
    <3> QED
      BY <3>1, <3>2 DEF SingleLeg, Leg
  <2> DEFINE leg == SingleLeg(k)
  <2> HIDE DEF leg
  <2>6. answer'.legs = <<leg>> /\ answer'.by = strategy /\ answer'.kind = "plan"
    BY <2>4 DEF leg
  <2>7. leg \in Leg /\ leg.quote = k /\ leg.net = quotes[k].buy
    BY <2>5 DEF leg
  <2>8. answer'.legs \in Seq(Leg) /\ answer'.legs[1] = leg
    BY <2>6, <2>7
  <2>9. RoutedOK
    BY <2>2, <2>3, <2>6, <2>7, <2>8 DEF RoutedOK
  <2> QED
    BY <1>1, <2>9, AnswersKeep
<1> QED
  BY <1>4, <1>5, <1>6

\* What the legs of a walk deliver is a number.
LEMMA NetIsNumber ==
    ASSUME Asked PROVE Net(Walked.legs) \in Nat
<1>1. PICK t : WalkOK(Walked, Cardinality(Live), t)
  BY WalkEnds
<1>2. t \in Numbers(Len(quotes)) /\ Net(Walked.legs) = Total(Gains(t))
  BY <1>1 DEF WalkOK, TakenOK, LegsOK
<1>3. \A i \in 1..Len(quotes) : t[i] \in Nat
  BY <1>2 DEF Numbers
<1>4. Gains(t) \in Numbers(Len(quotes)) /\ Len(quotes) \in Nat
  <2>1. \A i \in 1..Len(quotes) : Proceeds(i, t[i]) \in Nat
    BY <1>3, ProceedsAre
  <2> QED
    BY <2>1, AskedFacts DEF Gains, Numbers
<1> QED
  BY <1>2, <1>4, TotalIsNumber

\* A split keeps the terms, or is refused for a reason.
LEMMA MultiKeeps ==
    ASSUME RouterInv, SolveMultiAnchor PROVE RouterInv'
<1> DEFINE legs == Walked.legs
           error == IF ~request.live THEN "all_quotes_expired"
                    ELSE IF quotes = <<>> THEN "no_eligible_route"
                    ELSE IF Live = {} THEN "all_quotes_expired"
                    ELSE IF Walked.remaining > 0 THEN "insufficient_liquidity"
                    ELSE IF Net(legs) < request.floor THEN "floor_not_met"
                    ELSE "none"
<1>1. /\ request' = request /\ quotes' = quotes /\ fallback' = fallback
      /\ answer' = IF error = "none" THEN Planned("multi", legs) ELSE Refused("multi", error)
  BY DEF SolveMultiAnchor
<1>2. Asked
  BY DEF RouterInv, RouterTypeOK, Asked
<1>3. CASE error = "none"
  <2>1. ~(Walked.remaining > 0) /\ ~(Net(legs) < request.floor)
    BY <1>3
  <2>2. /\ legs \in Seq(Leg)
        /\ \A n \in DOMAIN legs : legs[n].quote \in Live
              /\ legs[n].sell \in 1..quotes[legs[n].quote].sell
              /\ legs[n].fee <= quotes[legs[n].quote].fee
        /\ \A n, k \in DOMAIN legs : legs[n].quote = legs[k].quote => n = k
        /\ Len(legs) <= MaxAnchors /\ Sold(legs) = request.sell
    BY <1>2, <2>1, SplitKeepsTheTerms
  <2>3. answer' = [by |-> "multi", kind |-> "plan", legs |-> legs]
    BY <1>1, <1>3 DEF Planned
  <2>4. Net(legs) >= request.floor
    <3>1. Net(legs) \in Nat
      BY <1>2, <2>1, NetIsNumber
    <3>2. request.floor \in Nat
      BY <1>2, AskedFacts
    <3> QED
      BY <2>1, <3>1, <3>2
  <2> HIDE DEF legs, error
  <2>5. RoutedOK
    BY <2>2, <2>3, <2>4 DEF RoutedOK
  <2> QED
    BY <1>1, <2>5, AnswersKeep
<1>4. CASE error # "none"
  <2>1. answer' = [by |-> "multi", kind |-> error, legs |-> <<>>] /\ error \in Refusal
    BY <1>1, <1>4 DEF Refused, Refusal
  <2>2. ASSUME request.cap >= Cardinality(Live), error = "insufficient_liquidity"
        PROVE  Allocations = {}
    <3>1. Walked.remaining > 0
      BY <2>2
    <3> QED
      BY <1>2, <2>2, <3>1, NothingMoreToSell
  <2>3. ASSUME request.cap >= Cardinality(Live), error = "floor_not_met", NEW f \in Allocations
        PROVE  Delivered(f) < request.floor + Cardinality(Live)
    <3>1. ~(Walked.remaining > 0) /\ Net(legs) < request.floor
      BY <2>3
    <3>2. /\ Delivered(f) \in Nat /\ Net(legs) \in Nat
          /\ Delivered(f) <= Net(legs) + Cardinality(Live)
      BY <1>2, <2>3, <3>1, GreedyIsBest
    <3>3. Cardinality(Live) \in Nat /\ request.floor \in Nat
      BY <1>2, AskedFacts
    <3> HIDE DEF legs
    <3> QED
      BY <3>1, <3>2, <3>3
  <2>4. error \in Refusal /\ error # "plan"
    BY <2>1 DEF Refusal
  <2> HIDE DEF legs, error
  <2>5. RoutedOK
    BY <2>1, <2>2, <2>3, <2>4 DEF RoutedOK
  <2> QED
    BY <1>1, <2>5, AnswersKeep
<1> QED
  BY <1>3, <1>4

\* The fallback asks nobody twice, and gives up only when it may.
LEMMA FetchKeeps ==
    ASSUME RouterInv, FetchBestRate PROVE RouterInv'
<1>1. /\ quotes = <<>> /\ answer.kind = "none" /\ winner = {}
      /\ request' = request /\ quotes' = quotes
  BY DEF FetchBestRate
<1>2. PICK up \in SUBSET RouteAnchor : \E rates \in [up -> 0..MaxReceived] :
          /\ offered' = rates
          /\ IF BestRate(Kept(rates)) = {}
             THEN answer' = Refused("fallback", "no_eligible_route")
                  /\ UNCHANGED <<round, excluded, attempts, winner>>
             ELSE \E a \in BestRate(Kept(rates)), rejected \in BOOLEAN :
                    /\ round' = round + 1
                    /\ attempts' = Append(attempts, [anchor |-> a, succeeded |-> ~rejected])
                    /\ winner' = IF rejected THEN {} ELSE {a}
                    /\ excluded' = IF rejected THEN excluded \cup {a} ELSE excluded
                    /\ answer' = IF rejected /\ round = MaxFallbackAttempts
                                 THEN Refused("fallback", "no_eligible_route") ELSE answer
  BY DEF FetchBestRate
<1>3. PICK rates \in [up -> 0..MaxReceived] :
          /\ offered' = rates
          /\ IF BestRate(Kept(rates)) = {}
             THEN answer' = Refused("fallback", "no_eligible_route")
                  /\ UNCHANGED <<round, excluded, attempts, winner>>
             ELSE \E a \in BestRate(Kept(rates)), rejected \in BOOLEAN :
                    /\ round' = round + 1
                    /\ attempts' = Append(attempts, [anchor |-> a, succeeded |-> ~rejected])
                    /\ winner' = IF rejected THEN {} ELSE {a}
                    /\ excluded' = IF rejected THEN excluded \cup {a} ELSE excluded
                    /\ answer' = IF rejected /\ round = MaxFallbackAttempts
                                 THEN Refused("fallback", "no_eligible_route") ELSE answer
  BY <1>2
<1>4. /\ MaxReceived \in Nat /\ up \subseteq Nat /\ DOMAIN rates = up
      /\ \A a \in up : rates[a] \in 0..MaxReceived
      /\ DOMAIN offered' = up /\ up \subseteq RouteAnchor
  BY <1>2, <1>3, RouterAssumption DEF RouterAssumption
<1>5. /\ request \in Request /\ quotes \in Seq(Quote) /\ Len(quotes) <= MaxQuotes
      /\ answer.by = "none" /\ answer.legs \in Seq(Leg)
      /\ round \in 0..3 /\ round <= 2 /\ excluded \subseteq RouteAnchor
      /\ attempts \in Seq([anchor : RouteAnchor, succeeded : BOOLEAN]) /\ Len(attempts) = round
      /\ \A n \in DOMAIN attempts : attempts[n].anchor \in excluded
      /\ \A n, k \in DOMAIN attempts : attempts[n].anchor = attempts[k].anchor => n = k
  BY <1>1 DEF RouterInv, RouterTypeOK, RouterProgress, PlansKeepTheTerms, MaxFallbackAttempts
<1>6. CASE BestRate(Kept(rates)) = {}
  <2>1. /\ answer' = [by |-> "fallback", kind |-> "no_eligible_route", legs |-> <<>>]
        /\ round' = round /\ excluded' = excluded /\ attempts' = attempts /\ winner' = winner
    BY <1>3, <1>6 DEF Refused
  <2>2. DOMAIN offered' \subseteq excluded
    <3> SUFFICES ASSUME ~(up \subseteq excluded) PROVE FALSE
      BY <1>4
    <3> DEFINE kept == Kept(rates)
    <3>1. DOMAIN kept = up \ excluded /\ \A a \in up \ excluded : kept[a] \in 0..MaxReceived
      BY <1>4 DEF Kept
    <3> HIDE DEF kept
    <3>2. DOMAIN kept \subseteq Nat /\ DOMAIN kept # {}
      BY <1>4, <3>1
    <3>3. BestRate(kept) # {}
      BY <1>4, <3>1, <3>2, BestRateExists
    <3> QED
      BY <1>6, <3>3 DEF kept
  <2>3. RouterTypeOK'
    BY <1>1, <1>4, <1>5, <2>1 DEF RouterTypeOK, Solver, Refusal, MaxFallbackAttempts
  <2>4. PlansKeepTheTerms'
    <3>1. answer'.kind # "plan"
      BY <2>1
    <3>2. /\ \A n, k \in DOMAIN attempts' : attempts'[n].anchor = attempts'[k].anchor => n = k
          /\ winner' \cap excluded' = {}
      BY <1>1, <1>5, <2>1
    <3> QED
      BY <3>1, <3>2 DEF PlansKeepTheTerms
  <2>5. RefusalsAreFounded'
    <3>1. answer'.by = "fallback" /\ DOMAIN offered' \subseteq excluded'
      BY <2>1, <2>2
    <3> QED
      BY <3>1 DEF RefusalsAreFounded
  <2>6. RouterProgress'
    BY <1>1, <1>5, <2>1 DEF RouterProgress
  <2> QED
    BY <2>3, <2>4, <2>5, <2>6 DEF RouterInv
<1>7. CASE BestRate(Kept(rates)) # {}
  <2>1. PICK a \in BestRate(Kept(rates)), rejected \in BOOLEAN :
          /\ round' = round + 1
          /\ attempts' = Append(attempts, [anchor |-> a, succeeded |-> ~rejected])
          /\ winner' = IF rejected THEN {} ELSE {a}
          /\ excluded' = IF rejected THEN excluded \cup {a} ELSE excluded
          /\ answer' = IF rejected /\ round = MaxFallbackAttempts
                       THEN Refused("fallback", "no_eligible_route") ELSE answer
    BY <1>3, <1>7
  <2>2. a \in up /\ a \notin excluded /\ a \in RouteAnchor
    <3>1. DOMAIN Kept(rates) = up \ excluded
      BY <1>4 DEF Kept
    <3> QED
      BY <1>4, <2>1, <3>1 DEF BestRate
  <2> DEFINE try == [anchor |-> a, succeeded |-> ~rejected]
  <2>3. try \in [anchor : RouteAnchor, succeeded : BOOLEAN] /\ try.anchor = a
    BY <2>2
  <2> HIDE DEF try
  <2>4. /\ attempts' \in Seq([anchor : RouteAnchor, succeeded : BOOLEAN])
        /\ Len(attempts') = round + 1 /\ DOMAIN attempts' = 1..(round + 1)
        /\ \A n \in 1..round : attempts'[n] = attempts[n]
        /\ attempts'[round + 1] = try
    BY <1>5, <2>1, <2>3 DEF try
  <2>5. /\ round' \in 0..3 /\ winner' \subseteq RouteAnchor /\ excluded' \subseteq RouteAnchor
        /\ winner' \cap excluded' = {}
        /\ excluded \subseteq excluded' /\ a \in excluded' \cup winner'
        /\ winner' = {} => rejected
    BY <1>5, <2>1, <2>2
  <2>6. /\ answer'.by \in {"fallback", "none"} /\ answer'.kind \in {"no_eligible_route", "none"}
        /\ answer'.legs \in Seq(Leg)
        /\ answer'.kind = "none" => answer'.by = "none" /\ ~(rejected /\ round = 2)
        /\ answer'.by = "fallback" => round = 2
    <3>1. CASE rejected /\ round = 2
      <4>1. answer' = [by |-> "fallback", kind |-> "no_eligible_route", legs |-> <<>>]
        BY <2>1, <3>1 DEF Refused, MaxFallbackAttempts
      <4> QED
        BY <3>1, <4>1
    <3>2. CASE ~(rejected /\ round = 2)
      <4>1. answer' = answer
        BY <2>1, <3>2 DEF MaxFallbackAttempts
      <4> QED
        BY <1>1, <1>5, <3>2, <4>1
    <3> QED
      BY <3>1, <3>2
  <2>7. RouterTypeOK'
    BY <1>1, <1>4, <1>5, <2>4, <2>5, <2>6
    DEF RouterTypeOK, Solver, Refusal, MaxFallbackAttempts
  <2>8. \A n \in DOMAIN attempts' : attempts'[n].anchor \in excluded' \cup winner'
    <3> TAKE n \in DOMAIN attempts'
    <3>1. CASE n = round + 1
      BY <2>3, <2>4, <2>5, <3>1
    <3>2. CASE n \in 1..round
      BY <1>5, <2>4, <2>5, <3>2
    <3> QED
      BY <1>5, <2>4, <3>1, <3>2
  <2>9. \A n, k \in DOMAIN attempts' : attempts'[n].anchor = attempts'[k].anchor => n = k
    <3>1. \A n \in 1..round : attempts'[n].anchor \in excluded
      BY <1>5, <2>4
    <3>2. attempts'[round + 1].anchor = a
      BY <2>3, <2>4
    <3>3. \A n, k \in 1..round : attempts'[n].anchor = attempts'[k].anchor => n = k
      <4>1. DOMAIN attempts = 1..round
        BY <1>5
      <4>2. \A n, k \in 1..round : attempts[n].anchor = attempts[k].anchor => n = k
        BY <1>5, <4>1
      <4> QED
        BY <2>4, <4>2
    <3>4. \A n \in DOMAIN attempts' : n \in 1..round \/ n = round + 1
      BY <1>5, <2>4
    <3> QED
      BY <2>2, <3>1, <3>2, <3>3, <3>4
  <2>10. PlansKeepTheTerms'
    <3>1. answer'.kind # "plan"
      BY <2>6
    <3> QED
      BY <2>5, <2>9, <3>1 DEF PlansKeepTheTerms
  <2>11. RefusalsAreFounded'
    <3>1. answer'.by = "fallback" => Len(attempts') = 1 + MaxFallbackAttempts
      BY <2>4, <2>6 DEF MaxFallbackAttempts
    <3> QED
      BY <2>6, <3>1 DEF RefusalsAreFounded
  <2>12. RouterProgress'
    <3>1. ASSUME answer'.kind = "none", winner' = {} PROVE round' <= MaxFallbackAttempts
      <4>1. round # 2
        BY <2>5, <2>6, <3>1
      <4>2. round' = round + 1 /\ round \in 0..3 /\ round <= 2
        BY <1>5, <2>1
      <4> QED
        BY <4>1, <4>2 DEF MaxFallbackAttempts
    <3> QED
      BY <2>1, <2>4, <2>6, <2>8, <3>1 DEF RouterProgress
  <2> QED
    BY <2>7, <2>10, <2>11, <2>12 DEF RouterInv
<1> QED
  BY <1>6, <1>7

\* A step that changes nothing keeps the invariant.
LEMMA RouterStutters ==
    ASSUME RouterInv, UNCHANGED routerVars PROVE RouterInv'
<1>1. /\ request' = request /\ quotes' = quotes /\ answer' = answer /\ round' = round
      /\ excluded' = excluded /\ attempts' = attempts /\ offered' = offered /\ winner' = winner
  BY DEF routerVars
<1>2. /\ Live' = Live /\ Valid' = Valid /\ MaxAnchors' = MaxAnchors
      /\ Allocations' = Allocations /\ \A f : Delivered(f)' = Delivered(f)
  BY <1>1, SameCall
<1>3. RouterTypeOK'
  BY <1>1 DEF RouterInv, RouterTypeOK
<1>4. PlansKeepTheTerms'
  BY <1>1, <1>2 DEF RouterInv, PlansKeepTheTerms
<1>5. RefusalsAreFounded'
  BY <1>1, <1>2 DEF RouterInv, RefusalsAreFounded
<1>6. RouterProgress'
  BY <1>1 DEF RouterInv, RouterProgress
<1> QED
  BY <1>3, <1>4, <1>5, <1>6 DEF RouterInv

\* Every step of a call keeps the invariant.
LEMMA RouterStepsKeep == RouterInv /\ [RouterNext]_routerVars => RouterInv'
<1> SUFFICES ASSUME RouterInv, [RouterNext]_routerVars PROVE RouterInv'
  OBVIOUS
<1>1. ASSUME NEW strategy \in {"first-match", "scored"}, SolveSingleAnchor(strategy)
      PROVE  RouterInv'
  BY <1>1, SingleKeeps
<1>2. CASE SolveMultiAnchor
  BY <1>2, MultiKeeps
<1>3. CASE FetchBestRate
  BY <1>3, FetchKeeps
<1>4. CASE UNCHANGED routerVars
  BY <1>4, RouterStutters
<1> QED
  BY <1>1, <1>2, <1>3, <1>4 DEF RouterNext

\* The router's types are right: what a solver answers is a refusal it knows or legs of
\* its quotes, and the fallback never makes more than its attempts (solve.ts:184-547).
THEOREM RouterTypes == RouterSpec => []RouterTypeOK
<1>1. RouterInv => RouterTypeOK
  BY DEF RouterInv
<1> QED
  BY <1>1, RouterStarts, RouterStepsKeep, PTL DEF RouterSpec

\* What a solver answers with keeps the user's terms: a single quote is live, meets the
\* floor and the fee budget and is the best of those; the legs of a split are different
\* live quotes within their size that sell the order exactly and meet the floor; and the
\* fallback never asks an anchor twice or ends with one it rejected (solve.ts:184-547).
THEOREM PlansAlwaysKeepTheTerms == RouterSpec => []PlansKeepTheTerms
<1>1. RouterInv => PlansKeepTheTerms
  BY DEF RouterInv
<1> QED
  BY <1>1, RouterStarts, RouterStepsKeep, PTL DEF RouterSpec

\* A solver refuses only what cannot be had: a split whose cap admits every live quote is
\* refused only if no allocation at all sells the order, or none meets the floor by more
\* than the rounding of its legs, so the greedy walk is the best (solve.ts:370-468).
THEOREM RefusalsAreAlwaysFounded == RouterSpec => []RefusalsAreFounded
<1>1. RouterInv => RefusalsAreFounded
  BY DEF RouterInv
<1> QED
  BY <1>1, RouterStarts, RouterStepsKeep, PTL DEF RouterSpec

-----------------------------------------------------------------------------
(* The run of the services.  Whichever service the initial state chooses,  *)
(* a behaviour of the run is a behaviour of that service's specification,  *)
(* so that what is proved of each service holds of the run.  The accusing  *)
(* probes are the instance Q of ProbeLedger; the proofs about probes are   *)
(* taken at the same kinds and days, where they speak of the same probes.  *)

QP == INSTANCE ScheduledProofs WITH
         ProbedKind <- {"issuer-mismatch", "deposit"}, MaxDay <- 1

\* A step of the probes of Q is a step of the probes proved about.
LEMMA AccusingStep == Q!ProbeNext => QP!ProbeNext
BY DEF Q!ProbeNext, QP!ProbeNext, Q!Post, QP!Post, Q!RecordSample, QP!RecordSample,
       Q!Sound, QP!Sound, Q!OutcomeOf, QP!OutcomeOf, Q!Judge, QP!Judge, Q!TomlFetched,
       QP!TomlFetched, Q!TomlNotFetched, QP!TomlNotFetched, Q!Probe, QP!Probe,
       Q!Written, QP!Written, Q!Drained, QP!Drained, Q!Reply, QP!Reply, Q!InstanceDies,
       QP!InstanceDies, Q!LockExpires, QP!LockExpires, Q!TomlExpires, QP!TomlExpires,
       Q!NextDay, QP!NextDay, Q!Change, QP!Change, Q!ProbeFault, QP!ProbeFault, Q!On,
       QP!On, Q!Document, QP!Document, Q!Failing, QP!Failing, Q!world, QP!world,
       Q!memory, QP!memory

\* The initial state does not depend on the kinds of probe.
LEMMA AccusingInit == ProbeInit => QP!ProbeInit
BY DEF ProbeInit, QP!ProbeInit, Document, Failing, QP!Document, QP!Failing

\* The types of the two are the same types.
LEMMA AccusingTypes == QP!ProbeTypeOK => Q!ProbeTypeOK
BY DEF Q!ProbeTypeOK, QP!ProbeTypeOK, Q!Document, QP!Document, Q!Failing, QP!Failing,
       Q!Row, QP!Row, Q!Cardinality, QP!Cardinality

\* The run begins with the initial state of the service it chose.
LEMMA BeginsItsService ==
    ASSUME ServicesInit
    PROVE
        /\ service = "recurring" => RecurringInit
        /\ service = "cache" => Init
        /\ service = "webhooks" => HooksInit
        /\ service = "probes" => ProbeInit
        /\ service = "accusing probes" => QP!ProbeInit
        /\ service = "solver" => RouterInit
        /\ service = "hops" => HopInit
        /\ service = "deposits" => DepositInit
        /\ service = "refresh" => RefreshInit
        /\ service = "nightly ledger" => NightlyInit
BY AccusingInit DEF ServicesInit

\* It chooses one of the services.
LEMMA OneServiceRuns ==
    ASSUME ServicesInit
    PROVE  \/ service = "recurring" \/ service = "cache" \/ service = "webhooks"
           \/ service = "probes" \/ service = "accusing probes" \/ service = "solver"
           \/ service = "hops" \/ service = "deposits" \/ service = "refresh"
           \/ service = "nightly ledger"
BY DEF ServicesInit

\* Every step of the run is a step of the service it chose, and leaves the choice alone.
LEMMA KeepsToItsService ==
    ASSUME [ServicesNext]_servicesVars
    PROVE
        /\ service = "recurring" => (service = "recurring")' /\ [RecurringNext]_recurringVars
        /\ service = "cache" => (service = "cache")' /\ [Next]_vars
        /\ service = "webhooks" => (service = "webhooks")' /\ [HooksNext]_hooksVars
        /\ service = "probes" => (service = "probes")' /\ [ProbeNext]_probeVars
        /\ service = "accusing probes" => (service = "accusing probes")' /\ [QP!ProbeNext]_QP!probeVars
        /\ service = "solver" => (service = "solver")' /\ [RouterNext]_routerVars
        /\ service = "hops" => (service = "hops")' /\ [HopNext]_hopVars
        /\ service = "deposits" => (service = "deposits")' /\ [DepositNext]_depositVars
        /\ service = "refresh" => (service = "refresh")' /\ [RefreshNext]_refreshVars
        /\ service = "nightly ledger" => (service = "nightly ledger")' /\ [NightlyNext]_nightlyVars
<1>1. CASE ServicesNext
  <2>1. service = "recurring" => (service = "recurring")' /\ [RecurringNext]_recurringVars
    BY <1>1 DEF ServicesNext
  <2>2. service = "cache" => (service = "cache")' /\ [Next]_vars
    BY <1>1 DEF ServicesNext
  <2>3. service = "webhooks" => (service = "webhooks")' /\ [HooksNext]_hooksVars
    BY <1>1 DEF ServicesNext
  <2>4. service = "probes" => (service = "probes")' /\ [ProbeNext]_probeVars
    BY <1>1 DEF ServicesNext
  <2>5. service = "accusing probes" => (service = "accusing probes")' /\ [QP!ProbeNext]_QP!probeVars
    BY <1>1, AccusingStep DEF ServicesNext
  <2>6. service = "solver" => (service = "solver")' /\ [RouterNext]_routerVars
    BY <1>1 DEF ServicesNext
  <2>7. service = "hops" => (service = "hops")' /\ [HopNext]_hopVars
    BY <1>1 DEF ServicesNext
  <2>8. service = "deposits" => (service = "deposits")' /\ [DepositNext]_depositVars
    BY <1>1 DEF ServicesNext
  <2>9. service = "refresh" => (service = "refresh")' /\ [RefreshNext]_refreshVars
    BY <1>1 DEF ServicesNext
  <2>10. service = "nightly ledger" => (service = "nightly ledger")' /\ [NightlyNext]_nightlyVars
    BY <1>1 DEF ServicesNext
  <2> QED BY <2>1, <2>2, <2>3, <2>4, <2>5, <2>6, <2>7, <2>8, <2>9, <2>10
<1>2. CASE UNCHANGED servicesVars
  BY <1>2 DEF servicesVars, probeVars, world, memory, QP!probeVars, QP!world, QP!memory
<1> QED BY <1>1, <1>2

\* Whatever service the run chooses, its variables keep their types.
THEOREM ServicesKeepTheirTypes == ServicesSpec => []ServicesTypeOK
<1>1. service = "recurring" /\ ServicesSpec => []ServicesTypeOK
  <2>1. service = "recurring" /\ ServicesSpec => [](service = "recurring") /\ RecurringSpec
    BY BeginsItsService, KeepsToItsService, PTL DEF ServicesSpec, RecurringSpec
  <2>2. service = "recurring" /\ RecurringTypeOK => ServicesTypeOK
    BY DEF ServicesTypeOK
  <2> QED BY <2>1, <2>2, RecurringTypes, PTL
<1>2. service = "cache" /\ ServicesSpec => []ServicesTypeOK
  <2>1. service = "cache" /\ ServicesSpec => [](service = "cache") /\ Spec
    BY BeginsItsService, KeepsToItsService, PTL DEF ServicesSpec, Spec
  <2>2. service = "cache" /\ CacheInv => ServicesTypeOK
    BY DEF ServicesTypeOK, CacheInv
  <2> QED BY <2>1, <2>2, CacheInvariant, PTL
<1>3. service = "webhooks" /\ ServicesSpec => []ServicesTypeOK
  <2>1. service = "webhooks" /\ ServicesSpec => [](service = "webhooks") /\ HooksSpec
    BY BeginsItsService, KeepsToItsService, PTL DEF ServicesSpec, HooksSpec
  <2>2. service = "webhooks" /\ HooksTypeOK => ServicesTypeOK
    BY DEF ServicesTypeOK
  <2> QED BY <2>1, <2>2, HooksTypes, PTL
<1>4. service = "probes" /\ ServicesSpec => []ServicesTypeOK
  <2>1. service = "probes" /\ ServicesSpec => [](service = "probes") /\ ProbeSpec
    BY BeginsItsService, KeepsToItsService, PTL DEF ServicesSpec, ProbeSpec
  <2>2. service = "probes" /\ ProbeTypeOK => ServicesTypeOK
    BY DEF ServicesTypeOK
  <2> QED BY <2>1, <2>2, ProbeTypes, PTL
<1>5. service = "accusing probes" /\ ServicesSpec => []ServicesTypeOK
  <2>1. service = "accusing probes" /\ ServicesSpec => [](service = "accusing probes") /\ QP!ProbeSpec
    BY BeginsItsService, KeepsToItsService, PTL DEF ServicesSpec, QP!ProbeSpec
  <2>2. service = "accusing probes" /\ QP!ProbeTypeOK => ServicesTypeOK
    <3>1. service = "accusing probes" /\ Q!ProbeTypeOK => ServicesTypeOK
      BY DEF ServicesTypeOK
    <3> QED BY <3>1, AccusingTypes
  <2>3. QP!ProbeAssumption
    <3>1. Q!ProbeAssumption
      BY AccusingAssumed DEF AccusingAssumed
    <3> QED BY <3>1 DEF Q!ProbeAssumption, QP!ProbeAssumption, Q!Document, QP!Document,
                        Q!ProbeKind, QP!ProbeKind, Q!IsFiniteSet, QP!IsFiniteSet
  <2>4. QP!HealthLedgerAssumption /\ QP!RefreshAssumption
    <3>1. QP!HealthLedgerAssumption
      BY HealthLedgerAssumption
    <3>2. QP!RefreshAssumption
      BY RefreshAssumption
    <3> QED BY <3>1, <3>2
  <2>5. QP!ProbeSpec => []QP!ProbeTypeOK
    BY <2>3, <2>4, QP!ProbeTypes
  <2> QED BY <2>1, <2>2, <2>5, PTL
<1>6. service = "solver" /\ ServicesSpec => []ServicesTypeOK
  <2>1. service = "solver" /\ ServicesSpec => [](service = "solver") /\ RouterSpec
    BY BeginsItsService, KeepsToItsService, PTL DEF ServicesSpec, RouterSpec
  <2>2. service = "solver" /\ RouterTypeOK => ServicesTypeOK
    BY DEF ServicesTypeOK
  <2> QED BY <2>1, <2>2, RouterTypes, PTL
<1>7. service = "hops" /\ ServicesSpec => []ServicesTypeOK
  <2>1. service = "hops" /\ ServicesSpec => [](service = "hops") /\ HopSpec
    BY BeginsItsService, KeepsToItsService, PTL DEF ServicesSpec, HopSpec
  <2>2. service = "hops" /\ HopTypeOK => ServicesTypeOK
    BY DEF ServicesTypeOK
  <2> QED BY <2>1, <2>2, HopTypes, PTL
<1>8. service = "deposits" /\ ServicesSpec => []ServicesTypeOK
  <2>1. service = "deposits" /\ ServicesSpec => [](service = "deposits") /\ DepositSpec
    BY BeginsItsService, KeepsToItsService, PTL DEF ServicesSpec, DepositSpec
  <2>2. service = "deposits" /\ DepositTypeOK => ServicesTypeOK
    BY DEF ServicesTypeOK
  <2> QED BY <2>1, <2>2, DepositTypes, PTL
<1>9. service = "refresh" /\ ServicesSpec => []ServicesTypeOK
  <2>1. service = "refresh" /\ ServicesSpec => [](service = "refresh") /\ RefreshSpec
    BY BeginsItsService, KeepsToItsService, PTL DEF ServicesSpec, RefreshSpec
  <2>2. service = "refresh" /\ RefreshTypeOK => ServicesTypeOK
    BY DEF ServicesTypeOK
  <2> QED BY <2>1, <2>2, RefreshTypes, PTL
<1>10. service = "nightly ledger" /\ ServicesSpec => []ServicesTypeOK
  <2>1. service = "nightly ledger" /\ ServicesSpec => [](service = "nightly ledger") /\ NightlySpec
    BY BeginsItsService, KeepsToItsService, PTL DEF ServicesSpec, NightlySpec
  <2>2. service = "nightly ledger" /\ NightlyTypeOK => ServicesTypeOK
    BY DEF ServicesTypeOK
  <2> QED BY <2>1, <2>2, NightlyTypes, PTL
<1> QED BY <1>1, <1>2, <1>3, <1>4, <1>5, <1>6, <1>7, <1>8, <1>9, <1>10, OneServiceRuns, PTL DEF ServicesSpec
=============================================================================
