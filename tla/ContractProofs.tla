---------------------------- MODULE ContractProofs ----------------------------
(***************************************************************************)
(* Proofs about two parts of the reputation contract.  ContractCustody,    *)
(* for every delay, clock and set of accounts: upgrades wait, and          *)
(* nominations are the present holder's.  CorridorOracle, what its run     *)
(* shows on a scale of 100 basis points, for every scale, cap and number   *)
(* of anchors and corridors: the two views agree, better metrics never     *)
(* score lower, only the count can refuse a volume, records are registered *)
(* and rates move within their band.                                       *)
(***************************************************************************)
EXTENDS ContractCustody, CorridorOracle, SequenceTheorems, TLAPS

-----------------------------------------------------------------------------
(* Who holds the contract.                                                 *)

\* A pending upgrade is the latest event, and its eta is that event's time plus
\* the delay: what makes an application look back at its own announcement.
PendingIsLatest ==
    \A u \in pendingUpgrade :
        LET n == Len(events)
        IN  /\ n > 0
            /\ events[n].op = "announce"
            /\ events[n].hash = u.hash
            /\ u.eta >= events[n].at + Delay \/ u.eta = MaxTime

CustodyInv == CustodyTypeOK /\ UpgradesWaited /\ PendingIsLatest

\* A freshly deployed contract satisfies the invariant.
LEMMA InitCustodyInv == CustodyInit => CustodyInv
<1> SUFFICES ASSUME CustodyInit PROVE CustodyInv
  OBVIOUS
<1> USE CustodyAssumption DEF CustodyInit
<1>1. CustodyTypeOK
  BY DEF CustodyTypeOK, Optional, Time
<1>2. UpgradesWaited /\ PendingIsLatest
  BY DEF UpgradesWaited, PendingIsLatest
<1> QED
  BY <1>1, <1>2 DEF CustodyInv

\* The saturated sum is a time, and short of the clock's end it is the sum.
LEMMA EtaIsLate ==
    ASSUME CustodyTypeOK
    PROVE  Eta \in Time /\ (Eta >= now + Delay \/ Eta = MaxTime)
BY CustodyAssumption DEF CustodyTypeOK, Eta, Time

\* Recording an event appends it and leaves the earlier ones.
LEMMA RecordAppends ==
    ASSUME CustodyTypeOK, NEW e \in Event, Record(e)
    PROVE  /\ events' \in Seq(Event)
           /\ Len(events') = Len(events) + 1
           /\ Len(events) \in Nat /\ Len(events') <= MaxEvents
           /\ \A i \in 1..Len(events) : events'[i] = events[i]
           /\ events'[Len(events')] = e
<1>1. events \in Seq(Event) /\ Len(events) \in Nat
  BY DEF CustodyTypeOK
<1>2. events' = Append(events, e) /\ Len(events) < MaxEvents
  BY DEF Record
<1> QED
  BY <1>1, <1>2, AppendProperties, CustodyAssumption

\* An event that is no application, and one that waited for the event before it,
\* both keep UpgradesWaited.
LEMMA RecordKeepsWaited ==
    ASSUME CustodyTypeOK, UpgradesWaited, NEW e \in Event, Record(e),
           e.op = "apply" =>
               Len(events) > 0 /\ WaitedFor(events[Len(events)], e)
    PROVE  UpgradesWaited'
<1> DEFINE n == Len(events)
<1>1. /\ n \in Nat /\ Len(events') = n + 1
      /\ \A i \in 1..n : events'[i] = events[i]
      /\ events'[n + 1] = e
  BY RecordAppends
<1> SUFFICES ASSUME NEW j \in 1..(n + 1), events'[j].op = "apply"
             PROVE  j > 1 /\ WaitedFor(events'[j - 1], events'[j])
  BY <1>1, Zenon DEF UpgradesWaited, WaitedFor
<1>2. CASE j \in 1..n
  <2>1. events'[j] = events[j] /\ j > 1 /\ WaitedFor(events[j - 1], events[j])
    BY <1>1, <1>2 DEF UpgradesWaited
  <2>2. events'[j - 1] = events[j - 1]
    BY <1>1, <1>2, <2>1
  <2> QED
    BY <2>1, <2>2
<1>3. CASE j = n + 1
  <2>1. e.op = "apply" /\ n > 0 /\ WaitedFor(events[n], e)
    BY <1>1, <1>3
  <2>2. events'[j - 1] = events[n] /\ events'[j] = e
    BY <1>1, <1>3, <2>1
  <2> QED
    BY <1>1, <1>3, <2>1, <2>2
<1> QED
  BY <1>1, <1>2, <1>3

-----------------------------------------------------------------------------
(* The steps.                                                              *)

\* Nominations, acceptances and their withdrawal leave the announced upgrade alone
\* and no stale nomination behind.
LEMMA HandoverKeepsInv ==
    ASSUME CustodyInv,
           NEW r \in Role, NEW caller \in Address, NEW candidate \in Address,
           \/ Propose(r, caller, candidate)
           \/ Accept(r, candidate)
           \/ CancelProposal(r, caller)
    PROVE  CustodyInv'
<1>1. UNCHANGED <<pendingUpgrade, version, events, now>>
  BY DEF Propose, Accept, CancelProposal, upgradeVars
<1>2. CustodyTypeOK'
  <2>1. /\ holder' \in [Role -> Address] /\ nominatedBy' \in [Role -> Address]
        /\ nominee' \in [Role -> SUBSET Address]
    BY DEF CustodyInv, CustodyTypeOK, Propose, Accept, CancelProposal, Nominated
  <2>2. \A q \in Role : Optional(nominee'[q])
    BY DEF CustodyInv, CustodyTypeOK, Optional, Propose, Accept, CancelProposal, Nominated
  <2> QED
    BY <1>1, <2>1, <2>2 DEF CustodyInv, CustodyTypeOK, Optional
<1>3. UpgradesWaited' /\ PendingIsLatest'
  BY <1>1 DEF CustodyInv, UpgradesWaited, WaitedFor, PendingIsLatest
<1> QED
  BY <1>2, <1>3 DEF CustodyInv

\* A proposal, a first one or one that replaces another, is the latest announcement.
LEMMA ProposeUpgradeKeepsInv ==
    ASSUME CustodyInv, NEW caller \in Address, NEW h \in Hash, ProposeUpgrade(caller, h)
    PROVE  CustodyInv'
<1> DEFINE e == [op |-> "announce", hash |-> h, at |-> now]
<1> USE DEF CustodyInv
<1>1. /\ pendingUpgrade' = {[hash |-> h, eta |-> Eta]}
      /\ Record(e)
      /\ UNCHANGED <<holder, nominee, nominatedBy, version, now>>
  BY DEF ProposeUpgrade, Announced, roleVars
<1>2. e \in Event
  BY DEF CustodyTypeOK, Event
<1>3. /\ events' \in Seq(Event) /\ Len(events') = Len(events) + 1
      /\ Len(events) \in Nat /\ Len(events') <= MaxEvents /\ events'[Len(events')] = e
  BY <1>1, <1>2, RecordAppends
<1>4. Eta \in Time /\ (Eta >= now + Delay \/ Eta = MaxTime)
  BY EtaIsLate
<1>5. CustodyTypeOK'
  BY <1>1, <1>3, <1>4 DEF CustodyTypeOK, Optional
<1>6. UpgradesWaited'
  BY <1>1, <1>2, RecordKeepsWaited
<1>7. PendingIsLatest'
  BY <1>1, <1>3, <1>4 DEF PendingIsLatest
<1> QED
  BY <1>5, <1>6, <1>7

\* After a withdrawal nothing is pending, so nothing can be applied.
LEMMA CancelUpgradeKeepsInv ==
    ASSUME CustodyInv, NEW caller \in Address, CancelUpgrade(caller)
    PROVE  CustodyInv'
<1> DEFINE e == [op |-> "withdraw", at |-> now]
<1> USE DEF CustodyInv
<1>1. /\ pendingUpgrade' = {}
      /\ Record(e)
      /\ UNCHANGED <<holder, nominee, nominatedBy, version, now>>
  BY DEF CancelUpgrade, roleVars
<1>2. e \in Event
  BY DEF CustodyTypeOK, Event
<1>3. /\ events' \in Seq(Event) /\ Len(events') <= MaxEvents
      /\ Len(events') = Len(events) + 1 /\ Len(events) \in Nat
  BY <1>1, <1>2, RecordAppends
<1>4. CustodyTypeOK'
  BY <1>1, <1>3 DEF CustodyTypeOK, Optional
<1>5. UpgradesWaited'
  BY <1>1, <1>2, RecordKeepsWaited
<1>6. PendingIsLatest'
  BY <1>1 DEF PendingIsLatest
<1> QED
  BY <1>4, <1>5, <1>6

\* The application closes the wait that PendingIsLatest remembers.
LEMMA ApplyUpgradeKeepsInv ==
    ASSUME CustodyInv, NEW caller \in Address, NEW h \in Hash, ApplyUpgrade(caller, h)
    PROVE  CustodyInv'
<1> DEFINE e == [op |-> "apply", hash |-> h, at |-> now]
<1> USE CustodyAssumption DEF CustodyInv
<1>1. /\ pendingUpgrade' = {} /\ version' = version + 1
      /\ Record(e)
      /\ UNCHANGED <<holder, nominee, nominatedBy, now>>
  BY DEF ApplyUpgrade, roleVars
<1>2. e \in Event
  BY DEF CustodyTypeOK, Event
<1>3. /\ events' \in Seq(Event) /\ Len(events') <= MaxEvents
      /\ Len(events') = Len(events) + 1 /\ Len(events) \in Nat
  BY <1>1, <1>2, RecordAppends
<1>4. Len(events) > 0 /\ WaitedFor(events[Len(events)], e)
  <2>1. PICK u \in pendingUpgrade : u.hash = h /\ u.eta <= now
    BY DEF ApplyUpgrade
  <2> DEFINE last == events[Len(events)]
  <2>2. /\ Len(events) > 0 /\ last.op = "announce" /\ last.hash = h
        /\ u.eta >= last.at + Delay \/ u.eta = MaxTime
    BY <2>1 DEF PendingIsLatest
  <2>3. u.eta \in Time /\ now \in Time /\ last.at \in Time
    <3>1. last \in Event
      BY <2>2 DEF CustodyTypeOK
    <3> HIDE DEF last
    <3>2. last.at \in Time
      BY <3>1 DEF Event
    <3> QED
      BY <2>1, <3>2 DEF CustodyTypeOK
  <2> HIDE DEF last
  <2>4. now >= last.at + Delay \/ now = MaxTime
    BY <2>1, <2>2, <2>3 DEF Time
  <2> QED
    BY <2>2, <2>4 DEF WaitedFor, last
<1>5. CustodyTypeOK'
  BY <1>1, <1>3 DEF CustodyTypeOK, Optional
<1>6. UpgradesWaited'
  BY <1>1, <1>2, <1>4, RecordKeepsWaited
<1>7. PendingIsLatest'
  BY <1>1 DEF PendingIsLatest
<1> QED
  BY <1>5, <1>6, <1>7

\* No call of the contract and no ledger close breaks the invariant.
LEMMA NextKeepsCustodyInv == CustodyInv /\ [CustodyNext]_custodyVars => CustodyInv'
<1> SUFFICES ASSUME CustodyInv, [CustodyNext]_custodyVars PROVE CustodyInv'
  OBVIOUS
<1>1. CASE UNCHANGED custodyVars
  BY <1>1 DEF custodyVars, roleVars, upgradeVars, CustodyInv, CustodyTypeOK, Optional, UpgradesWaited,
              WaitedFor, PendingIsLatest
<1>2. CASE LedgerCloses
  <2>1. UNCHANGED <<holder, nominee, nominatedBy, pendingUpgrade, version, events>>
    BY <1>2 DEF LedgerCloses, roleVars, upgradeVars
  <2>2. now' \in Time
    BY <1>2, CustodyAssumption DEF LedgerCloses, CustodyInv, CustodyTypeOK, Time
  <2> QED
    BY <2>1, <2>2 DEF CustodyInv, CustodyTypeOK, Optional, UpgradesWaited, WaitedFor,
                      PendingIsLatest
<1>3. ASSUME NEW r \in Role, NEW candidate \in Address, Accept(r, candidate)
      PROVE  CustodyInv'
  BY <1>3, HandoverKeepsInv
<1>4. ASSUME NEW r \in Role, NEW caller \in Address, NEW candidate \in Address,
             Propose(r, caller, candidate)
      PROVE  CustodyInv'
  BY <1>4, HandoverKeepsInv
<1>5. ASSUME NEW r \in Role, NEW caller \in Address, CancelProposal(r, caller)
      PROVE  CustodyInv'
  BY <1>5, HandoverKeepsInv
<1> QED
  BY <1>1, <1>2, <1>3, <1>4, <1>5, ProposeUpgradeKeepsInv, CancelUpgradeKeepsInv,
     ApplyUpgradeKeepsInv DEF CustodyNext

-----------------------------------------------------------------------------
(* The results.                                                            *)

\* The inductive invariant of roles and upgrades: types, current nominations, and a
\* pending upgrade that is the latest recorded call with its eta computed from it.
THEOREM CustodyInvariant == CustodySpec => []CustodyInv
<1> QED
  BY InitCustodyInv, NextKeepsCustodyInv, PTL DEF CustodySpec

\* What the contract stores has its type after any sequence of calls: one holder and
\* at most one nominee per role, and at most one upgrade pending.
THEOREM CustodyTypes == CustodySpec => []CustodyTypeOK
<1>1. CustodyInv => CustodyTypeOK
  BY DEF CustodyInv
<1> QED
  BY <1>1, CustodyInvariant, PTL

\* No code goes live that was not announced, alone and unchanged, for the whole
\* delay: for any delay, through any handover of the upgrade role.
THEOREM UpgradesWaitedHolds == CustodySpec => []UpgradesWaited
<1>1. CustodyInv => UpgradesWaited
  BY DEF CustodyInv
<1> QED
  BY <1>1, CustodyInvariant, PTL

\* A nomination never outlives the holder who made it.
THEOREM NominationsAreCurrentHolds == CustodySpec => []NominationsAreCurrent
<1>1. CustodyInit => NominationsAreCurrent
  BY DEF CustodyInit, NominationsAreCurrent
<1>2. CustodyTypeOK /\ NominationsAreCurrent /\ [CustodyNext]_custodyVars => NominationsAreCurrent'
  <2> SUFFICES ASSUME CustodyTypeOK, NominationsAreCurrent, [CustodyNext]_custodyVars
               PROVE  NominationsAreCurrent'
    OBVIOUS
  <2> USE DEF NominationsAreCurrent
  <2>1. CASE UNCHANGED roleVars
    BY <2>1 DEF roleVars
  <2>2. ASSUME NEW r \in Role, NEW caller \in Address, NEW candidate \in Address,
               Propose(r, caller, candidate)
        PROVE  NominationsAreCurrent'
    BY <2>2 DEF Propose, CustodyTypeOK
  <2>3. ASSUME NEW r \in Role, NEW candidate \in Address, Accept(r, candidate)
        PROVE  NominationsAreCurrent'
    BY <2>3 DEF Accept, CustodyTypeOK
  <2>4. ASSUME NEW r \in Role, NEW caller \in Address, CancelProposal(r, caller)
        PROVE  NominationsAreCurrent'
    BY <2>4 DEF CancelProposal, CustodyTypeOK
  <2>5. CASE LedgerCloses
    BY <2>1, <2>5 DEF LedgerCloses
  <2>6. ASSUME NEW caller \in Address, NEW h \in Hash,
               ProposeUpgrade(caller, h) \/ ApplyUpgrade(caller, h)
        PROVE  NominationsAreCurrent'
    BY <2>1, <2>6 DEF ProposeUpgrade, ApplyUpgrade
  <2>7. ASSUME NEW caller \in Address, CancelUpgrade(caller)
        PROVE  NominationsAreCurrent'
    BY <2>1, <2>7 DEF CancelUpgrade
  <2> QED
    BY <2>1, <2>2, <2>3, <2>4, <2>5, <2>6, <2>7 DEF CustodyNext, custodyVars
<1>3. CustodyInv => CustodyTypeOK
  BY DEF CustodyInv
<1> QED
  BY <1>1, <1>2, <1>3, CustodyInvariant, PTL DEF CustodySpec

-----------------------------------------------------------------------------
(* Arithmetic.                                                             *)

\* Multiplication by a natural is monotone, on either side.
LEMMA ProductMonotone ==
    ASSUME NEW k \in Nat, NEW i \in Nat, NEW j \in Nat, i <= j
    PROVE  i * k <= j * k /\ k * i <= k * j
<1>1. PICK d \in Nat : j = i + d
  <2>1. j - i \in Nat /\ j = i + (j - i)
    OBVIOUS
  <2> QED
    BY <2>1
<1>2. j * k = i * k + d * k /\ d * k \in Nat /\ i * k \in Nat
  BY <1>1
<1>3. i * k = k * i /\ j * k = k * j
  OBVIOUS
<1> QED
  BY <1>2, <1>3

\* The quotient rounded half up, as compute_composite_bps divides.
Rounded(n, d) == (n + d \div 2) \div d

\* What rounding half up means, without division.
LEMMA RoundedBounds ==
    ASSUME NEW n \in Nat, NEW d \in Nat \ {0}
    PROVE  /\ Rounded(n, d) \in Nat
           /\ 2 * (d * Rounded(n, d)) <= 2 * n + d
           /\ 2 * n + d < 2 * (d * (Rounded(n, d) + 1))
<1> DEFINE h == d \div 2
           x == n + h
           q == x \div d
           s == x % d
<1>1. h \in Nat /\ 2 * h <= d /\ d <= 2 * h + 1
  OBVIOUS
<1> HIDE DEF h
<1>2. x \in Nat
  BY <1>1
<1>3. x = n + h
  OBVIOUS
<1> HIDE DEF x
<1>4. q \in Int /\ s \in 0..(d - 1) /\ x = d * q + s
  BY <1>2
<1>5. q \in Nat
  BY <1>2
<1> HIDE DEF q, s
<1>6. d * q \in Nat /\ d * (q + 1) = d * q + d
  BY <1>5
<1> DEFINE y == d * q
           z == d * (q + 1)
<1>7. y \in Nat /\ z = y + d /\ x = y + s
  BY <1>4, <1>6
<1> HIDE DEF y, z
<1>8. 2 * y <= 2 * n + d /\ 2 * n + d < 2 * z
  BY <1>1, <1>3, <1>4, <1>7
<1>9. q = Rounded(n, d)
  BY DEF q, x, h, Rounded
<1> QED
  BY <1>5, <1>8, <1>9 DEF y, z

\* A larger dividend and a smaller divisor never round to less: the halves that
\* the integer division drops do not matter.
LEMMA RoundingMonotone ==
    ASSUME NEW n \in Nat, NEW n2 \in Nat, NEW d \in Nat \ {0}, NEW d2 \in Nat \ {0},
           n2 <= n, d <= d2
    PROVE  Rounded(n2, d2) <= Rounded(n, d)
<1> DEFINE q == Rounded(n, d)
           p == Rounded(n2, d2)
<1>1. /\ q \in Nat /\ p \in Nat
      /\ 2 * n + d < 2 * (d * (q + 1))
      /\ 2 * (d2 * p) <= 2 * n2 + d2
  BY RoundedBounds
<1> HIDE DEF q, p
<1> SUFFICES ASSUME q + 1 <= p PROVE FALSE
  BY <1>1 DEF q, p
<1>2. d * (q + 1) <= d * p /\ d * (q + 1) \in Nat /\ d * p \in Nat
  BY <1>1, ProductMonotone
<1>3. d * (2 * p - 1) <= d2 * (2 * p - 1)
  BY <1>1, ProductMonotone
<1>4. d * (2 * p - 1) = 2 * (d * p) - d /\ d2 * (2 * p - 1) = 2 * (d2 * p) - d2
  BY <1>1
<1>5. d2 * p \in Nat
  BY <1>1
<1> QED
  BY <1>1, <1>2, <1>3, <1>4, <1>5

-----------------------------------------------------------------------------
(* The composite score.                                                    *)

\* The three factors and the divisor of the score of m.
FillOf(m) == ClampBps(m.fill)
KeptOf(m) == MaxBps - ClampBps(m.slippage)
Dividend(m) == FillOf(m) * KeptOf(m) * NormSettle
Divisor(m) == MaxBps * NormalizeSettle(m.settle)

ScoreInput == Metrics(Int, Int, Nat, Nat)

\* Clamped inputs are in range, so the dividend is a natural and the divisor is
\* positive: the score is the rounded quotient, clamped.
LEMMA CompositeFacts ==
    ASSUME NEW m \in ScoreInput
    PROVE  /\ FillOf(m) \in 0..MaxBps /\ KeptOf(m) \in 0..MaxBps
           /\ NormalizeSettle(m.settle) \in Nat \ {0}
           /\ Dividend(m) \in Nat /\ Divisor(m) \in Nat \ {0}
           /\ FillOf(m) = 0 => Composite(m) = 0
           /\ FillOf(m) # 0 => Composite(m) = ClampBps(Rounded(Dividend(m), Divisor(m)))
<1> USE OracleAssumption
<1>1. m.fill \in Int /\ m.slippage \in Int /\ m.settle \in Nat
  BY DEF ScoreInput, Metrics
<1>2. FillOf(m) \in 0..MaxBps /\ ClampBps(m.slippage) \in 0..MaxBps
  BY <1>1 DEF FillOf, ClampBps
<1>3. KeptOf(m) \in 0..MaxBps
  BY <1>2 DEF KeptOf
<1>4. NormalizeSettle(m.settle) \in Nat \ {0}
  BY <1>1 DEF NormalizeSettle
<1>5. Dividend(m) \in Nat
  <2> HIDE DEF FillOf, KeptOf
  <2>1. FillOf(m) * KeptOf(m) \in Nat
    BY <1>2, <1>3
  <2> QED
    BY <2>1 DEF Dividend
<1>6. Divisor(m) \in Nat \ {0}
  BY <1>4 DEF Divisor
<1>7. Composite(m) =
          IF FillOf(m) = 0 \/ Divisor(m) = 0
          THEN 0 ELSE ClampBps(Rounded(Dividend(m), Divisor(m)))
  BY DEF Composite, Rounded, Dividend, Divisor, FillOf, KeptOf
<1> QED
  BY <1>2, <1>3, <1>4, <1>5, <1>6, <1>7

\* A score is a number of basis points, whatever it is computed from.
LEMMA CompositeInRange ==
    ASSUME NEW m \in ScoreInput
    PROVE  Composite(m) \in 0..MaxBps
<1>1. Rounded(Dividend(m), Divisor(m)) \in Nat
  BY CompositeFacts, RoundedBounds
<1> QED
  BY <1>1, CompositeFacts, OracleAssumption DEF ClampBps

\* Metrics at least as good in every respect never score lower, out of range
\* ones included.
THEOREM CompositeMonotone ==
    ASSUME NEW m \in ScoreInput, NEW other \in ScoreInput, AtLeastAsGood(m, other)
    PROVE  Composite(other) <= Composite(m)
<1> USE OracleAssumption
<1>1. /\ m.fill \in Int /\ m.slippage \in Int /\ m.settle \in Nat
      /\ other.fill \in Int /\ other.slippage \in Int /\ other.settle \in Nat
  BY DEF ScoreInput, Metrics
<1>2. FillOf(other) <= FillOf(m) /\ KeptOf(other) <= KeptOf(m)
  BY <1>1 DEF AtLeastAsGood, FillOf, KeptOf, ClampBps
<1>3. NormalizeSettle(m.settle) <= NormalizeSettle(other.settle)
  BY <1>1 DEF AtLeastAsGood, NormalizeSettle
<1>4. CASE FillOf(other) = 0
  <2>1. Composite(other) = 0 /\ Composite(m) \in 0..MaxBps
    BY <1>4, CompositeFacts, CompositeInRange
  <2> QED
    BY <2>1
<1>5. CASE FillOf(other) # 0
  <2>1. FillOf(m) # 0
    BY <1>2, <1>5, CompositeFacts
  <2>2. Dividend(other) <= Dividend(m)
    <3> DEFINE f == FillOf(m)
               g == FillOf(other)
               k == KeptOf(m)
               l == KeptOf(other)
    <3>1. f \in Nat /\ g \in Nat /\ k \in Nat /\ l \in Nat /\ g <= f /\ l <= k
      BY <1>2, CompositeFacts
    <3> HIDE DEF f, g, k, l
    <3>2. g * l <= f * l /\ f * l <= f * k
      BY <3>1, ProductMonotone
    <3>3. g * l \in Nat /\ f * l \in Nat /\ f * k \in Nat
      BY <3>1
    <3>4. (g * l) * NormSettle <= (f * k) * NormSettle
      BY <3>2, <3>3, ProductMonotone
    <3> QED
      BY <3>4 DEF Dividend, f, g, k, l
  <2>3. Divisor(m) <= Divisor(other)
    BY <1>3, CompositeFacts, ProductMonotone DEF Divisor
  <2>4. Rounded(Dividend(other), Divisor(other)) <= Rounded(Dividend(m), Divisor(m))
    BY <2>2, <2>3, CompositeFacts, RoundingMonotone
  <2>5. /\ Rounded(Dividend(other), Divisor(other)) \in Nat
        /\ Rounded(Dividend(m), Divisor(m)) \in Nat
    BY CompositeFacts, RoundedBounds
  <2>6. /\ Composite(other) = ClampBps(Rounded(Dividend(other), Divisor(other)))
        /\ Composite(m) = ClampBps(Rounded(Dividend(m), Divisor(m)))
    BY <1>5, <2>1, CompositeFacts
  <2> QED
    BY <2>4, <2>5, <2>6 DEF ClampBps
<1> QED
  BY <1>4, <1>5

-----------------------------------------------------------------------------
(* The invariant.                                                          *)

\* A v2 record is always the expansion of the present v1 record: that is why it
\* does not matter which of the two a view answers from.
MetricsSound ==
    /\ v1 \in [Anchor -> [Corridor -> Stored1]]
    /\ v2 \in [Anchor -> [Corridor -> SUBSET Stored2]]
    /\ \A a \in Anchor, c \in Corridor : v2[a][c] \subseteq {Expand(v1[a][c])}

RatesSound ==
    /\ rate \in [Corridor -> SUBSET [rate : 1..MaxAmount, decimals : 0..MaxDecimals]]
    /\ \A c \in Corridor : AtMostOne(rate[c])

\* Each accumulator is at most a full increment per counted settlement.
VolumesSound ==
    /\ volume \in [Corridor -> [volume : Nat, savings : Nat, count : 0..MaxCount]]
    /\ \A c \in Corridor :
          /\ volume[c].volume <= volume[c].count * MaxDelta
          /\ volume[c].savings <= volume[c].count * MaxDelta

ProbesSound ==
    /\ probe \in [Anchor -> SUBSET Probe]
    /\ \A a \in Anchor : AtMostOne(probe[a])

OracleInv ==
    MetricsSound /\ RatesSound /\ VolumesSound /\ ProbesSound /\ RecordsAreRegistered

\* Stored metrics are inputs of the score, and their expansion is a v2 record.
LEMMA ExpandIsStored ==
    ASSUME NEW m \in Stored1
    PROVE  m \in ScoreInput /\ Expand(m) \in Stored2
<1>1. m \in ScoreInput
  BY OracleAssumption DEF Stored1, ScoreInput, Metrics
<1>2. Composite(m) \in 0..MaxBps
  BY <1>1, CompositeInRange
<1> QED
  BY <1>1, <1>2 DEF Expand, Stored1, Stored2, Metrics

\* A new contract and an upgraded one satisfy the invariant.
LEMMA InitOracleInv == Init => OracleInv
<1> SUFFICES ASSUME Init PROVE OracleInv
  OBVIOUS
<1> USE OracleAssumption
<1>1. /\ v2 = [a \in Anchor |-> [c \in Corridor |-> {}]]
      /\ rate = [c \in Corridor |-> {}]
      /\ volume = [c \in Corridor |-> NoVolume]
      /\ probe = [a \in Anchor |-> {}]
  BY DEF Init
<1>2. v1 \in [Anchor -> [Corridor -> Legacy \cup {Zero}]]
  BY DEF Init, Upgraded
<1>3. Legacy \cup {Zero} \subseteq Stored1
  BY DEF Zero, Stored1, Metrics
<1>4. MetricsSound
  BY <1>1, <1>2, <1>3 DEF MetricsSound
<1>5. RatesSound /\ ProbesSound
  BY <1>1 DEF RatesSound, ProbesSound, AtMostOne
<1>6. VolumesSound /\ RecordsAreRegistered
  BY <1>1 DEF VolumesSound, RecordsAreRegistered, NoVolume
<1> QED
  BY <1>4, <1>5, <1>6 DEF OracleInv

\* A metrics write replaces both records of its pair together.
LEMMA MetricsWriteKeepsSound ==
    ASSUME MetricsSound, NEW p \in Publisher, NEW a \in Anchor, NEW c \in Corridor,
           NEW m \in Metric, SetCorridorMetrics(p, a, c, m)
    PROVE  MetricsSound'
<1>1. m \in Stored1
  BY OracleAssumption DEF SetCorridorMetrics, InRange, Stored1, Metrics
<1>2. Expand(m) \in Stored2
  BY <1>1, ExpandIsStored
<1>3. v1' = [v1 EXCEPT ![a][c] = m] /\ v2' = [v2 EXCEPT ![a][c] = {Expand(m)}]
  BY DEF SetCorridorMetrics, WriteV2
<1>4. /\ v1' \in [Anchor -> [Corridor -> Stored1]]
      /\ v2' \in [Anchor -> [Corridor -> SUBSET Stored2]]
  BY <1>1, <1>2, <1>3 DEF MetricsSound
<1>5. ASSUME NEW b \in Anchor, NEW d \in Corridor
      PROVE  v2'[b][d] \subseteq {Expand(v1'[b][d])}
  <2>1. CASE b = a /\ d = c
    <3>1. v2'[b][d] = {Expand(m)} /\ v1'[b][d] = m
      BY <1>3, <2>1 DEF MetricsSound
    <3> QED
      BY <3>1
  <2>2. CASE ~(b = a /\ d = c)
    <3>1. v2'[b][d] = v2[b][d] /\ v1'[b][d] = v1[b][d]
      BY <1>3, <2>2 DEF MetricsSound
    <3> QED
      BY <3>1 DEF MetricsSound
  <2> QED
    BY <2>1, <2>2
<1> QED
  BY <1>4, <1>5 DEF MetricsSound

\* Migrating a pair makes or leaves its v2 record the expansion of the v1 one.
LEMMA MigratedPairSound ==
    ASSUME MetricsSound, NEW a \in Anchor, NEW c \in Corridor
    PROVE  /\ MigratedPair(a, c) \subseteq {Expand(v1[a][c])}
           /\ MigratedPair(a, c) \in SUBSET Stored2
<1>1. Expand(v1[a][c]) \in Stored2
  BY ExpandIsStored DEF MetricsSound
<1> QED
  BY <1>1 DEF MetricsSound, MigratedPair

\* A migration writes v2 records only, each the expansion of its v1 record.
LEMMA MigrationKeepsSound ==
    ASSUME MetricsSound,
           \/ MigrateAll
           \/ \E a \in Anchor, c \in Corridor : MigrateCorridor(a, c)
    PROVE  MetricsSound'
<1>1. v1' = v1
  BY DEF MigrateAll, MigrateCorridor
<1>2. /\ v2' \in [Anchor -> [Corridor -> SUBSET Stored2]]
      /\ \A b \in Anchor, d \in Corridor :
            v2'[b][d] = v2[b][d] \/ v2'[b][d] = MigratedPair(b, d)
  <2>1. CASE MigrateAll
    BY <2>1, MigratedPairSound DEF MigrateAll, MetricsSound
  <2>2. CASE \E a \in Anchor, c \in Corridor : MigrateCorridor(a, c)
    <3> PICK a \in Anchor, c \in Corridor : MigrateCorridor(a, c)
      BY <2>2
    <3>1. v2' = [v2 EXCEPT ![a][c] = MigratedPair(a, c)]
      BY DEF MigrateCorridor
    <3>2. v2' \in [Anchor -> [Corridor -> SUBSET Stored2]]
      BY <3>1, MigratedPairSound DEF MetricsSound
    <3>3. ASSUME NEW b \in Anchor, NEW d \in Corridor
          PROVE  v2'[b][d] = v2[b][d] \/ v2'[b][d] = MigratedPair(b, d)
      <4>1. CASE b = a /\ d = c
        BY <3>1, <4>1 DEF MetricsSound
      <4>2. CASE ~(b = a /\ d = c)
        BY <3>1, <4>2 DEF MetricsSound
      <4> QED
        BY <4>1, <4>2
    <3> QED
      BY <3>2, <3>3
  <2> QED
    BY <2>1, <2>2
<1> QED
  BY <1>1, <1>2, MigratedPairSound DEF MetricsSound

\* Replacing one corridor's rate by none or by one in range keeps the rates sound.
LEMMA ReplaceRate ==
    ASSUME RatesSound, NEW c \in Corridor,
           NEW new \in SUBSET [rate : 1..MaxAmount, decimals : 0..MaxDecimals],
           AtMostOne(new), rate' = [rate EXCEPT ![c] = new]
    PROVE  RatesSound'
BY DEF RatesSound, AtMostOne

\* A published rate passed every refusal.
LEMMA PublishKeepsRatesSound ==
    ASSUME RatesSound, NEW p \in Publisher, NEW c \in Corridor, NEW r \in Rate,
           NEW decimals \in Decimals, PublishRate(p, c, r, decimals)
    PROVE  RatesSound'
<1>1. r \in 1..MaxAmount /\ decimals \in 0..MaxDecimals
  BY OracleAssumption DEF PublishRate
<1> DEFINE new == {[rate |-> r, decimals |-> decimals]}
<1>2. /\ new \in SUBSET [rate : 1..MaxAmount, decimals : 0..MaxDecimals]
      /\ AtMostOne(new)
  BY <1>1 DEF AtMostOne
<1>3. rate' = [rate EXCEPT ![c] = new]
  BY DEF PublishRate
<1> HIDE DEF new
<1> QED
  BY <1>2, <1>3, ReplaceRate

\* One more settlement pays for one more full increment.
LEMMA SumStaysBelow ==
    ASSUME NEW m \in Nat, NEW k \in Nat, NEW s \in Nat, NEW x \in 0..m, s <= k * m
    PROVE  s + x <= (k + 1) * m
<1>1. (k + 1) * m = k * m + m /\ k * m \in Nat
  OBVIOUS
<1> QED
  BY <1>1

\* Replacing one corridor's volume by one within its bounds.
VolumeRecord == [volume : Nat, savings : Nat, count : 0..MaxCount]
LEMMA ReplaceVolume ==
    ASSUME VolumesSound, NEW c \in Corridor, NEW new \in VolumeRecord,
           new.volume <= new.count * MaxDelta, new.savings <= new.count * MaxDelta,
           volume' = [volume EXCEPT ![c] = new]
    PROVE  VolumesSound'
<1>1. volume' \in [Corridor -> VolumeRecord]
  BY DEF VolumesSound, VolumeRecord
<1>2. ASSUME NEW d \in Corridor
      PROVE  /\ volume'[d].volume <= volume'[d].count * MaxDelta
             /\ volume'[d].savings <= volume'[d].count * MaxDelta
  <2>1. CASE d = c
    BY <2>1 DEF VolumesSound
  <2>2. CASE d # c
    BY <2>2 DEF VolumesSound
  <2> QED
    BY <2>1, <2>2
<1> QED
  BY <1>1, <1>2 DEF VolumesSound, VolumeRecord

\* An accepted settlement adds at most a full increment to either accumulator.
LEMMA AddKeepsVolumesSound ==
    ASSUME VolumesSound, NEW p \in Publisher, NEW c \in Corridor,
           NEW v \in Delta, NEW s \in Delta, AddVolumeSavings(p, c, v, s)
    PROVE  VolumesSound'
<1>1. MaxDelta \in Nat /\ MaxCount \in Nat
  BY OracleAssumption
<1> DEFINE x == volume[c].volume
           y == volume[c].savings
           k == volume[c].count
           new == [volume |-> x + v, savings |-> y + s, count |-> k + 1]
<1>2. v \in 0..MaxDelta /\ s \in 0..MaxDelta /\ k < MaxCount
  BY DEF AddVolumeSavings, ValidDelta
<1>3. x \in Nat /\ y \in Nat /\ k \in 0..MaxCount /\ x <= k * MaxDelta /\ y <= k * MaxDelta
  BY DEF VolumesSound
<1>4. volume' = [volume EXCEPT ![c] = new]
  BY DEF AddVolumeSavings, VolumesSound
<1> HIDE DEF x, y, k
<1>5. x + v <= (k + 1) * MaxDelta /\ y + s <= (k + 1) * MaxDelta
  BY <1>1, <1>2, <1>3, SumStaysBelow
<1>6. x + v \in Nat /\ y + s \in Nat /\ k + 1 \in 0..MaxCount
  BY <1>1, <1>2, <1>3
<1>7. /\ new \in VolumeRecord
      /\ new.volume <= new.count * MaxDelta /\ new.savings <= new.count * MaxDelta
  BY <1>5, <1>6 DEF VolumeRecord
<1> HIDE DEF new
<1> QED
  BY <1>4, <1>7, ReplaceVolume

\* A reset starts from nothing.
LEMMA ResetKeepsVolumesSound ==
    ASSUME VolumesSound, NEW c \in Corridor, ResetVolumeSavings(c)
    PROVE  VolumesSound'
<1>1. MaxDelta \in Nat /\ MaxCount \in Nat
  BY OracleAssumption
<1>2. /\ NoVolume \in VolumeRecord
      /\ NoVolume.volume <= NoVolume.count * MaxDelta
      /\ NoVolume.savings <= NoVolume.count * MaxDelta
  BY <1>1 DEF NoVolume, VolumeRecord
<1>3. volume' = [volume EXCEPT ![c] = NoVolume]
  BY DEF ResetVolumeSavings
<1> QED
  BY <1>2, <1>3, ReplaceVolume

\* Corridors are registered and never taken back.
LEMMA RegistryOnlyAddsCorridors ==
    ASSUME RegistryNext
    PROVE  corridorTags \subseteq corridorTags'
BY DEF RegistryNext, RegisterAnchor, RegisterCorridor, AddPublisher, RevokePublisher,
       SetPublisherScope, ClearPublisherScope, anchorVars, corridorVars, publisherVars

\* A rate or a volume that is new or changed comes from a write that asked.
LEMMA RecordsStayRegistered ==
    ASSUME OracleInv, [Next]_vars
    PROVE  RecordsAreRegistered'
<1> SUFFICES ASSUME NEW c \in Corridor, rate'[c] # {} \/ volume'[c].count > 0
             PROVE  c \in corridorTags'
  BY DEF RecordsAreRegistered
<1>1. corridorTags \subseteq corridorTags'
  <2>1. CASE RegistryNext
    BY <2>1, RegistryOnlyAddsCorridors
  <2>2. CASE ~RegistryNext
    BY <2>2 DEF Next, OracleNext, SetCorridorMetrics, MigrateCorridor, MigrateAll, PublishRate,
                ResetCorridorRate, AddVolumeSavings, ResetVolumeSavings, PublishProbeSignals,
                vars, registryVars, corridorVars
  <2> QED
    BY <2>1, <2>2
<1>2. CASE rate'[c] # {} /\ rate'[c] # rate[c]
  <2>1. \E p \in Publisher, d \in Corridor, r \in Rate, decimals \in Decimals :
            PublishRate(p, d, r, decimals) /\ d = c
    BY <1>2 DEF OracleInv, RatesSound, Next, OracleNext, oracleVars, metricVars,
                SetCorridorMetrics, MigrateCorridor, MigrateAll, PublishRate,
                ResetCorridorRate, AddVolumeSavings, ResetVolumeSavings,
                PublishProbeSignals, vars
  <2> QED
    BY <1>1, <2>1 DEF PublishRate, IsKnown
<1>3. CASE volume'[c].count > 0 /\ volume'[c] # volume[c]
  <2>1. \E p \in Publisher, d \in Corridor, v, s \in Delta :
            AddVolumeSavings(p, d, v, s) /\ d = c
    BY <1>3 DEF OracleInv, VolumesSound, NoVolume, Next, OracleNext, oracleVars, metricVars,
                SetCorridorMetrics, MigrateCorridor, MigrateAll, PublishRate,
                ResetCorridorRate, AddVolumeSavings, ResetVolumeSavings,
                PublishProbeSignals, vars
  <2> QED
    BY <1>1, <2>1 DEF AddVolumeSavings, IsKnown
<1>4. CASE rate'[c] # {} /\ rate'[c] = rate[c]
  BY <1>1, <1>4 DEF OracleInv, RecordsAreRegistered
<1>5. CASE volume'[c].count > 0 /\ volume'[c] = volume[c]
  <2>1. volume[c].count > 0
    BY <1>5
  <2> QED
    BY <1>1, <2>1 DEF OracleInv, RecordsAreRegistered
<1> QED
  BY <1>2, <1>3, <1>4, <1>5

\* Every step keeps the invariant.
LEMMA NextKeepsOracleInv == OracleInv /\ [Next]_vars => OracleInv'
<1> SUFFICES ASSUME OracleInv, [Next]_vars PROVE OracleInv'
  OBVIOUS
<1>1. RecordsAreRegistered'
  BY RecordsStayRegistered
<1>2. MetricsSound'
  <2>1. CASE UNCHANGED metricVars
    BY <2>1 DEF OracleInv, MetricsSound, metricVars
  <2>2. ASSUME NEW p \in Publisher, NEW a \in Anchor, NEW c \in Corridor, NEW m \in Metric,
               SetCorridorMetrics(p, a, c, m)
        PROVE  MetricsSound'
    BY <2>2, MetricsWriteKeepsSound DEF OracleInv
  <2>3. ASSUME MigrateAll \/ \E a \in Anchor, c \in Corridor : MigrateCorridor(a, c)
        PROVE  MetricsSound'
    BY <2>3, MigrationKeepsSound DEF OracleInv
  <2> QED
    BY <2>1, <2>2, <2>3 DEF Next, OracleNext, PublishRate, ResetCorridorRate, AddVolumeSavings,
                            ResetVolumeSavings, PublishProbeSignals, vars, oracleVars
<1>3. RatesSound'
  <2>1. CASE UNCHANGED rate
    BY <2>1 DEF OracleInv, RatesSound
  <2>2. ASSUME NEW p \in Publisher, NEW c \in Corridor, NEW r \in Rate, NEW decimals \in Decimals,
               PublishRate(p, c, r, decimals)
        PROVE  RatesSound'
    BY <2>2, PublishKeepsRatesSound DEF OracleInv
  <2>3. ASSUME NEW c \in Corridor, ResetCorridorRate(c)
        PROVE  RatesSound'
    <3>1. AtMostOne({})
      BY DEF AtMostOne
    <3> QED
      BY <2>3, <3>1, ReplaceRate DEF OracleInv, ResetCorridorRate
  <2> QED
    BY <2>1, <2>2, <2>3 DEF Next, OracleNext, SetCorridorMetrics, MigrateCorridor, MigrateAll,
                            AddVolumeSavings, ResetVolumeSavings, PublishProbeSignals,
                            vars, oracleVars
<1>4. VolumesSound'
  <2>1. CASE UNCHANGED volume
    BY <2>1 DEF OracleInv, VolumesSound
  <2>2. ASSUME NEW p \in Publisher, NEW c \in Corridor, NEW v \in Delta, NEW s \in Delta,
               AddVolumeSavings(p, c, v, s)
        PROVE  VolumesSound'
    BY <2>2, AddKeepsVolumesSound DEF OracleInv
  <2>3. ASSUME NEW c \in Corridor, ResetVolumeSavings(c)
        PROVE  VolumesSound'
    BY <2>3, ResetKeepsVolumesSound DEF OracleInv
  <2> QED
    BY <2>1, <2>2, <2>3 DEF Next, OracleNext, SetCorridorMetrics, MigrateCorridor, MigrateAll,
                            PublishRate, ResetCorridorRate, PublishProbeSignals,
                            vars, oracleVars
<1>5. ProbesSound'
  <2>1. CASE UNCHANGED probe
    BY <2>1 DEF OracleInv, ProbesSound
  <2>2. ASSUME NEW p \in Publisher, NEW a \in Anchor, NEW signals \in Probe,
               PublishProbeSignals(p, a, signals)
        PROVE  ProbesSound'
    BY <2>2 DEF OracleInv, ProbesSound, PublishProbeSignals, AtMostOne
  <2> QED
    BY <2>1, <2>2 DEF Next, OracleNext, SetCorridorMetrics, MigrateCorridor, MigrateAll,
                      PublishRate, ResetCorridorRate, AddVolumeSavings, ResetVolumeSavings,
                      vars, oracleVars
<1> QED
  BY <1>1, <1>2, <1>3, <1>4, <1>5 DEF OracleInv

-----------------------------------------------------------------------------
(* The results.                                                            *)

\* The corridor data is sound in every reachable state.
THEOREM OracleInvariant == Spec => []OracleInv
BY InitOracleInv, NextKeepsOracleInv, PTL DEF Spec

\* The stored data has its types: no accumulator leaves the i128 range, no record
\* is outside the bounds its publication checked.
THEOREM OracleTypes == Spec => []OracleTypeOK
<1> USE OracleAssumption
<1>1. ASSUME OracleInv, NEW c \in Corridor
      PROVE  volume[c].volume <= MaxAmount /\ volume[c].savings <= MaxAmount
  <2> DEFINE x == volume[c].volume
             y == volume[c].savings
             k == volume[c].count
             full == MaxDelta * MaxCount
  <2>1. x \in Nat /\ y \in Nat /\ k \in 0..MaxCount /\ x <= k * MaxDelta /\ y <= k * MaxDelta
    BY <1>1 DEF OracleInv, VolumesSound
  <2>2. MaxDelta \in Nat /\ MaxCount \in Nat /\ MaxAmount \in Nat
    OBVIOUS
  <2>3. full \in Nat /\ full <= MaxAmount /\ MaxCount * MaxDelta = full
    OBVIOUS
  <2> HIDE DEF x, y, k, full
  <2>4. k * MaxDelta <= MaxCount * MaxDelta /\ k * MaxDelta \in Nat
    BY <2>1, <2>2, ProductMonotone
  <2>5. x <= MaxAmount /\ y <= MaxAmount
    BY <2>1, <2>2, <2>3, <2>4
  <2> QED
    BY <2>5 DEF x, y
<1>2. OracleInv => OracleTypeOK
  <2> SUFFICES ASSUME OracleInv PROVE OracleTypeOK
    OBVIOUS
  <2>1. volume \in [Corridor ->
            [volume : 0..MaxAmount, savings : 0..MaxAmount, count : 0..MaxCount]]
    BY <1>1 DEF OracleInv, VolumesSound
  <2>2. \A a \in Anchor, c \in Corridor : AtMostOne(v2[a][c])
    BY DEF OracleInv, MetricsSound, AtMostOne
  <2> QED
    BY <2>1, <2>2 DEF OracleTypeOK, OracleInv, MetricsSound, RatesSound, ProbesSound
<1> QED
  BY <1>2, OracleInvariant, PTL

\* Whichever record the v2 view answers from, it says what the v1 view says.
LEMMA SoundMetricsAgree ==
    ASSUME MetricsSound, NEW a \in Anchor, NEW c \in Corridor
    PROVE  /\ ScoreV2(a, c).composite = Composite(v1[a][c])
           /\ ScoreV2(a, c).fill = v1[a][c].fill
           /\ ScoreV2(a, c).settle = v1[a][c].settle
           /\ ScoreV2(a, c).n = v1[a][c].n
<1> DEFINE used == {m \in v2[a][c] : m.composite # 0 \/ m.n # 0}
<1>1. CASE used # {}
  <2>1. ScoreV2(a, c) \in used
    <3>1. ScoreV2(a, c) = CHOOSE m \in used : TRUE
      BY <1>1 DEF ScoreV2
    <3> HIDE DEF used
    <3> QED
      BY <1>1, <3>1
  <2>2. ScoreV2(a, c) = Expand(v1[a][c])
    BY <2>1 DEF MetricsSound
  <2> QED
    BY <2>2 DEF Expand
<1>2. CASE used = {}
  BY <1>2 DEF ScoreV2, ScoreV1
<1> QED
  BY <1>1, <1>2

\* Readers of v1 and of v2 see the same metrics.
THEOREM ViewsAgreeHolds == Spec => []ViewsAgree
<1>1. OracleInv => ViewsAgree
  BY SoundMetricsAgree DEF OracleInv, ViewsAgree, ScoreV1
<1> QED
  BY <1>1, OracleInvariant, PTL

\* The published scores rank the metrics they are computed from.
THEOREM BetterNeverScoresLowerHolds == Spec => []BetterNeverScoresLower
<1>1. ASSUME OracleInv, NEW a \in Anchor, NEW c \in Corridor, NEW m \in Metric
      PROVE  /\ AtLeastAsGood(m, v1[a][c]) => Composite(m) >= ScoreV2(a, c).composite
             /\ AtLeastAsGood(v1[a][c], m) => Composite(m) <= ScoreV2(a, c).composite
  <2>1. ScoreV2(a, c).composite = Composite(v1[a][c])
    BY <1>1, SoundMetricsAgree DEF OracleInv
  <2>2. v1[a][c] \in ScoreInput
    BY <1>1, ExpandIsStored DEF OracleInv, MetricsSound
  <2>3. m \in ScoreInput
    BY OracleAssumption DEF ScoreInput
  <2>4. Composite(m) \in Int /\ Composite(v1[a][c]) \in Int
    BY <2>2, <2>3, CompositeInRange, OracleAssumption
  <2> QED
    BY <2>1, <2>2, <2>3, <2>4, CompositeMonotone
<1>2. OracleInv => BetterNeverScoresLower
  BY <1>1 DEF BetterNeverScoresLower
<1> QED
  BY <1>2, OracleInvariant, PTL

\* While the count has room, so have both accumulators.
THEOREM OnlyTheCountRefusesVolumeHolds == Spec => []OnlyTheCountRefusesVolume
<1>1. ASSUME OracleInv, NEW c \in Corridor, NEW v \in 0..MaxDelta, volume[c].count < MaxCount
      PROVE  volume[c].volume + v <= MaxAmount /\ volume[c].savings + v <= MaxAmount
  <2> DEFINE x == volume[c].volume
             y == volume[c].savings
             k == volume[c].count
  <2>1. MaxDelta \in Nat /\ MaxCount \in Nat /\ MaxAmount \in Nat
    BY OracleAssumption
  <2>2. x \in Nat /\ y \in Nat /\ k \in 0..MaxCount /\ x <= k * MaxDelta /\ y <= k * MaxDelta
    BY <1>1 DEF OracleInv, VolumesSound
  <2>3. k < MaxCount
    BY <1>1
  <2> HIDE DEF x, y, k
  <2>4. x + v <= (k + 1) * MaxDelta /\ y + v <= (k + 1) * MaxDelta
    BY <2>1, <2>2, SumStaysBelow
  <2>5. (k + 1) * MaxDelta <= MaxCount * MaxDelta
    BY <2>1, <2>2, <2>3, ProductMonotone
  <2>6. MaxCount * MaxDelta = MaxDelta * MaxCount /\ MaxDelta * MaxCount \in Nat
    BY <2>1
  <2>7. (k + 1) * MaxDelta \in Nat /\ x + v \in Nat /\ y + v \in Nat
    BY <2>1, <2>2
  <2> DEFINE full == MaxDelta * MaxCount
             next == (k + 1) * MaxDelta
  <2>8. full <= MaxAmount /\ next <= full /\ full \in Nat /\ next \in Nat
    BY <2>5, <2>6, <2>7, OracleAssumption
  <2>9. x + v <= next /\ y + v <= next
    BY <2>4
  <2> HIDE DEF full, next
  <2> QED
    BY <2>1, <2>7, <2>8, <2>9 DEF x, y
<1>2. OracleInv => OnlyTheCountRefusesVolume
  BY <1>1 DEF OnlyTheCountRefusesVolume
<1> QED
  BY <1>2, OracleInvariant, PTL

\* Rates and volumes exist under registered corridors only.
THEOREM RecordsAreRegisteredHolds == Spec => []RecordsAreRegistered
<1>1. OracleInv => RecordsAreRegistered
  BY DEF OracleInv
<1> QED
  BY <1>1, OracleInvariant, PTL

\* A step that replaces a rate by one of the same scale is a publication within
\* the band.
THEOREM RateMovesAreBoundedHolds == Spec => RateMovesAreBounded
<1>1. ASSUME OracleInv, [Next]_vars,
             NEW c \in Corridor, NEW old \in rate[c], NEW new \in rate'[c],
             old.decimals = new.decimals
      PROVE  new.rate <= 2 * old.rate /\ old.rate <= 2 * new.rate + 1
  <2>1. old.rate \in 1..MaxAmount /\ MaxAmount \in Nat
    BY <1>1, OracleAssumption DEF OracleInv, RatesSound
  <2>2. CASE rate'[c] = rate[c]
    <3>1. old = new
      BY <1>1, <2>2 DEF OracleInv, RatesSound, AtMostOne
    <3> QED
      BY <2>1, <3>1
  <2>3. CASE rate'[c] # rate[c]
    <3>1. PICK p \in Publisher, d \in Corridor, r \in Rate, decimals \in Decimals :
              PublishRate(p, d, r, decimals) /\ d = c
      BY <1>1, <2>3 DEF OracleInv, RatesSound, Next, OracleNext, oracleVars, metricVars,
                SetCorridorMetrics, MigrateCorridor, MigrateAll, PublishRate,
                ResetCorridorRate, AddVolumeSavings, ResetVolumeSavings,
                PublishProbeSignals, vars
    <3>2. new = [rate |-> r, decimals |-> decimals]
      BY <1>1, <3>1 DEF PublishRate, OracleInv, RatesSound
    <3>3. WithinBand(old.rate, new.rate) /\ new.rate = r /\ r \in Int
      BY <1>1, <3>1, <3>2, OracleAssumption DEF PublishRate
    <3> DEFINE o == old.rate
               w == new.rate
               h == o \div 2
    <3>4. h \in Int /\ o <= 2 * h + 1
      BY <2>1
    <3>5. h <= w /\ w <= 2 * o /\ o \in Int /\ w \in Int
      BY <2>1, <3>3 DEF WithinBand
    <3> HIDE DEF o, w, h
    <3>6. w <= 2 * o /\ o <= 2 * w + 1
      BY <3>4, <3>5
    <3> QED
      BY <3>6 DEF o, w
  <2> QED
    BY <2>2, <2>3
<1>2. OracleInv /\ [Next]_vars =>
          [\A c \in Corridor : \A old \in rate[c], new \in rate'[c] :
              old.decimals = new.decimals =>
                  new.rate <= 2 * old.rate /\ old.rate <= 2 * new.rate + 1]_vars
  BY <1>1
<1> QED
  BY <1>2, OracleInvariant, PTL DEF Spec, RateMovesAreBounded
===============================================================================
