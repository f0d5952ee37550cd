--------------------------- MODULE ContractCustody ---------------------------
(***************************************************************************)
(* Who holds the reputation contract and how its code may be replaced      *)
(* (contracts/reputation/src/{admin,upgrade}.rs).                          *)
(*                                                                         *)
(* Two roles, the operational admin and the upgrade admin, are bound at    *)
(* deploy and handed over in two steps: the holder nominates, the nominee  *)
(* accepts.  A WASM upgrade is announced by the upgrade admin and may be   *)
(* applied once Delay has passed, under the announced hash only.           *)
(*                                                                         *)
(* An optional storage entry is a set of at most one element.  Every call  *)
(* is a transaction: a refusal changes nothing and is a stutter.           *)
(***************************************************************************)
EXTENDS Naturals, Sequences

CONSTANTS
    Address,    \* accounts that may call the contract
    Hash,       \* WASM hashes
    Delay,      \* UPGRADE_DELAY_SECONDS, 604 800 in the code
    MaxTime,    \* u64::MAX, where saturating_add stops
    MaxEvents   \* bound on the recorded upgrade calls

ASSUME CustodyAssumption ==
    /\ Delay \in Nat
    /\ MaxTime \in Nat
    /\ MaxEvents \in Nat

VARIABLES
    holder,         \* Admin and UpgradeAdmin
    nominee,        \* PendingAdmin and PendingUpgradeAdmin, optional
    pendingUpgrade, \* PendingUpgrade, optional
    version,        \* Version
    now,            \* the ledger's timestamp
    nominatedBy,    \* history: who made the latest nomination of a role
    events          \* history: the upgrade calls that succeeded, in order

roleVars == <<holder, nominee, nominatedBy>>
upgradeVars == <<pendingUpgrade, version, events>>
custodyVars == <<roleVars, upgradeVars, now>>

Role == {"admin", "upgrade"}
Time == 0..MaxTime
Event ==
    [op : {"announce", "apply"}, hash : Hash, at : Time] \cup [op : {"withdraw"}, at : Time]

Optional(S) == \A x, y \in S : x = y

CustodyTypeOK ==
    /\ holder \in [Role -> Address]
    /\ nominee \in [Role -> SUBSET Address]
    /\ \A r \in Role : Optional(nominee[r])
    /\ nominatedBy \in [Role -> Address]
    /\ pendingUpgrade \subseteq [hash : Hash, eta : Time]
    /\ Optional(pendingUpgrade)
    /\ version \in 1..(Len(events) + 1)
    /\ now \in Time
    /\ events \in Seq(Event)
    /\ Len(events) <= MaxEvents

\* The constructor binds both roles, to one account or to two.
CustodyInit ==
    /\ holder \in [Role -> Address]
    /\ nominee = [r \in Role |-> {}]
    /\ nominatedBy = holder
    /\ pendingUpgrade = {}
    /\ version = 1
    /\ now = 0
    /\ events = <<>>

-----------------------------------------------------------------------------
(* The handover of a role.                                                 *)

\* The entry a nomination writes, over an earlier one.
Nominated(r, candidate) == {candidate}

Propose(r, caller, candidate) ==
    /\ caller = holder[r]
    /\ nominee' = [nominee EXCEPT ![r] = Nominated(r, candidate)]
    /\ nominatedBy' = [nominatedBy EXCEPT ![r] = caller]
    /\ UNCHANGED <<holder, upgradeVars, now>>

Accept(r, candidate) ==
    /\ candidate \in nominee[r]
    /\ holder' = [holder EXCEPT ![r] = candidate]
    /\ nominee' = [nominee EXCEPT ![r] = {}]
    /\ UNCHANGED <<nominatedBy, upgradeVars, now>>

CancelProposal(r, caller) ==
    /\ caller = holder[r]
    /\ nominee' = [nominee EXCEPT ![r] = {}]
    /\ UNCHANGED <<holder, nominatedBy, upgradeVars, now>>

-----------------------------------------------------------------------------
(* Upgrades.                                                               *)

Record(e) == Len(events) < MaxEvents /\ events' = Append(events, e)

Eta == IF now + Delay <= MaxTime THEN now + Delay ELSE MaxTime

\* A proposal whose clock keeps running when the hash is replaced.
ClockKept(h) ==
    {[hash |-> h, eta |-> IF pendingUpgrade = {} THEN Eta
                          ELSE (CHOOSE u \in pendingUpgrade : TRUE).eta]}
Announced(h) == {[hash |-> h, eta |-> Eta]}

\* Replaces any earlier proposal and restarts the clock.
ProposeUpgrade(caller, h) ==
    /\ caller = holder["upgrade"]
    /\ pendingUpgrade' = Announced(h)
    /\ Record([op |-> "announce", hash |-> h, at |-> now])
    /\ UNCHANGED <<roleVars, version, now>>

CancelUpgrade(caller) ==
    /\ caller = holder["upgrade"]
    /\ pendingUpgrade' = {}
    /\ Record([op |-> "withdraw", at |-> now])
    /\ UNCHANGED <<roleVars, version, now>>

\* NoPendingUpgrade, UpgradeHashMismatch and UpgradeNotReady are the refusals.
\* The signature asked for is that of whoever holds the role at that moment.
ApplyUpgrade(caller, h) ==
    /\ caller = holder["upgrade"]
    /\ \E u \in pendingUpgrade : u.hash = h /\ u.eta <= now
    /\ pendingUpgrade' = {}
    /\ version' = version + 1
    /\ Record([op |-> "apply", hash |-> h, at |-> now])
    /\ UNCHANGED <<roleVars, now>>

LedgerCloses ==
    /\ now < MaxTime
    /\ now' = now + 1
    /\ UNCHANGED <<roleVars, upgradeVars>>

CustodyNext ==
    \/ \E r \in Role, caller, candidate \in Address : Propose(r, caller, candidate)
    \/ \E r \in Role, candidate \in Address : Accept(r, candidate)
    \/ \E r \in Role, caller \in Address : CancelProposal(r, caller)
    \/ \E caller \in Address, h \in Hash : ProposeUpgrade(caller, h)
    \/ \E caller \in Address : CancelUpgrade(caller)
    \/ \E caller \in Address, h \in Hash : ApplyUpgrade(caller, h)
    \/ LedgerCloses

CustodySpec == CustodyInit /\ [][CustodyNext]_custodyVars

-----------------------------------------------------------------------------
(* Properties.                                                             *)

\* The time-lock, whoever holds the role meanwhile: the code that goes live was
\* announced under its own hash, for the whole Delay, and nothing was announced,
\* withdrawn or applied in between.  (The clock saturates at MaxTime.)
WaitedFor(announcement, application) ==
    /\ announcement.op = "announce"
    /\ announcement.hash = application.hash
    /\ \/ application.at >= announcement.at + Delay
       \/ application.at = MaxTime
UpgradesWaited ==
    \A j \in 1..Len(events) :
        events[j].op = "apply" => j > 1 /\ WaitedFor(events[j - 1], events[j])

\* A nomination in force was made by the present holder: it does not outlive the
\* handover, so a former holder cannot have left a successor behind.
NominationsAreCurrent ==
    \A r \in Role : nominee[r] # {} => nominatedBy[r] = holder[r]
=============================================================================
