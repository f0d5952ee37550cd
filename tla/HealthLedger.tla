----------------------------- MODULE HealthLedger -----------------------------
(***************************************************************************)
(* The nightly health ledger of the anchors: the job that probes them and  *)
(* proposes the next ledger (scripts/validate-anchors.mjs, the job         *)
(* anchor-health-ledger of .github/workflows/nightly.yml), the committed   *)
(* file, and its dated versions (lib/stellar/{anchors,health-ledger}.ts,   *)
(* app/api/v1/anchor-health/ledger).                                       *)
(*                                                                         *)
(* Runs are scheduled and dispatched, overlap, and each works on the       *)
(* ledger of its own checkout.  A ledger reaches main through a pull       *)
(* request that somebody merges, now, later or never.                      *)
(***************************************************************************)
EXTENDS Naturals, Sequences, FiniteSets

CONSTANTS
    ListedAnchor,
    Run,              \* nightly runs that may overlap, scheduled or dispatched
    ThresholdNights,  \* thresholdNights of the committed ledger
    LastDay,          \* bound on the days
    MaxRuns,          \* bound on the runs
    MaxChanges        \* bound on the changes of the registry

ASSUME HealthLedgerAssumption ==
    /\ ThresholdNights \in Nat \ {0}
    /\ LastDay \in Nat \ {0} /\ MaxRuns \in Nat /\ MaxChanges \in Nat

Day == 1..LastDay

VARIABLES
    today,
    registry,   \* constants/anchors.ts on main
    main,       \* the commits of constants/anchor-health.json on main, in order
    deployed,   \* the one of them the deployment was built with
    runs,
    branches,   \* bot/anchor-health-<day>, by day, with what was pushed to each
    requested,  \* the days that have, or have had, a pull request
    answers,    \* the dated answers read from history: date and commit
    started, changes

nightlyVars == <<today, registry, main, deployed, runs, branches, requested, answers,
                 started, changes>>

\* A ledger is kept as who failed, in this run and in how many in a row.
IsLedger(l) ==
    /\ l.version \in Day
    /\ DOMAIN l.failures \subseteq ListedAnchor /\ l.failed \subseteq DOMAIN l.failures
    /\ \A a \in DOMAIN l.failures : l.failures[a] \in Nat

IdleRun == [pc |-> "idle"]

RunTypeOK(r) ==
    \/ r = IdleRun
    \/ r.pc = "probe" /\ r.base \in DOMAIN main /\ r.registry \subseteq ListedAnchor
    \/ r.pc = "propose" /\ r.base \in DOMAIN main /\ IsLedger(r.ledger)

NightlyTypeOK ==
    /\ today \in Day /\ registry \subseteq ListedAnchor
    /\ started \in 0..MaxRuns /\ changes \in 0..MaxChanges
    /\ \A i \in DOMAIN main : IsLedger(main[i].ledger) /\ main[i].day \in Day
    /\ deployed \in DOMAIN main
    /\ \A r \in Run : RunTypeOK(runs[r])
    /\ DOMAIN branches \subseteq Day /\ requested \subseteq Day
    /\ \A d \in DOMAIN branches : branches[d].base \in DOMAIN main
    /\ answers \subseteq [date : Day, commit : DOMAIN main]

\* The anchors are new: the committed ledger, of the first day, lists none of them.
NightlyInit ==
    /\ today = 1 /\ registry = ListedAnchor /\ started = 0 /\ changes = 0
    /\ main = <<[ledger |-> [version |-> 1, failed |-> {}, failures |-> <<>>],
                 night |-> 0, day |-> 1]>>
    /\ deployed = 1
    /\ runs = [r \in Run |-> IdleRun]
    /\ branches = <<>> /\ requested = {}
    /\ answers = {}

-----------------------------------------------------------------------------
(* The nightly job.                                                        *)

Streak(ledger, a) ==
    IF a \in DOMAIN ledger.failures THEN ledger.failures[a] ELSE 0

\* A streak goes on although the anchor answered.
Latched(ledger, a, ok) == Streak(ledger, a) + (IF ok /\ Streak(ledger, a) = 0 THEN 0 ELSE 1)

NextHealth(ledger, a, ok) == IF ok THEN 0 ELSE Streak(ledger, a) + 1

\* Only registered anchors are kept.  The threshold is that of the ledger before: the
\* workflow sets no ANCHOR_DEGRADE_THRESHOLD.
ApplyProbes(prev, probed, failed, now) ==
    [version |-> now,
     failed |-> failed,
     failures |-> [a \in probed |-> NextHealth(prev, a, a \notin failed)]]

Checkout(r) ==
    /\ runs[r] = IdleRun /\ started < MaxRuns
    /\ started' = started + 1
    /\ runs' = [runs EXCEPT ![r] = [pc |-> "probe", base |-> Len(main), registry |-> registry]]
    /\ UNCHANGED <<today, registry, main, deployed, branches, requested, answers, changes>>

\* With no anchors the script ends before it writes, and there is no diff to propose.
Validate(r) ==
    /\ runs[r].pc = "probe"
    /\ \E failed \in SUBSET runs[r].registry :
          LET prev == main[runs[r].base].ledger IN
          runs' = [runs EXCEPT ![r] =
                      IF @.registry = {} THEN IdleRun
                      ELSE [pc |-> "propose", base |-> @.base,
                            ledger |-> ApplyProbes(prev, @.registry, failed, today)]]
    /\ UNCHANGED <<today, registry, main, deployed, branches, requested, answers, started, changes>>

\* The push of a branch the checkout has never seen is refused if the branch exists
\* (--force-with-lease), and the job fails.  A day that has had a pull request, merged
\* or not, gets no second one.
Propose(r) ==
    /\ runs[r].pc = "propose"
    /\ runs' = [runs EXCEPT ![r] = IdleRun]
    /\ IF today \in DOMAIN branches THEN UNCHANGED <<branches, requested>>
       ELSE /\ branches' = [d \in DOMAIN branches \cup {today} |->
                              IF d \in DOMAIN branches THEN branches[d]
                              ELSE [base |-> runs[r].base, ledger |-> runs[r].ledger,
                                    open |-> today \notin requested]]
            /\ requested' = requested \cup {today}
    /\ UNCHANGED <<today, registry, main, deployed, answers, started, changes>>

\* A run may fail or be cancelled anywhere.
Fail(r) ==
    /\ runs[r].pc \in {"probe", "propose"}
    /\ runs' = [runs EXCEPT ![r] = IdleRun]
    /\ UNCHANGED <<today, registry, main, deployed, branches, requested, answers, started, changes>>

-----------------------------------------------------------------------------
(* What becomes of it on main, and who reads it.                           *)

\* Every ledger differs in its date from the one before, so two that were made from
\* one ledger conflict.
Mergeable(d) == branches[d].open /\ branches[d].base = Len(main)

\* The commit keeps its date in a merge, and gets a new one if it is squashed.  The
\* branch may be kept.
Merge(d) ==
    /\ d \in DOMAIN branches /\ Mergeable(d)
    /\ \E day \in {d, today} :
          main' = Append(main, [ledger |-> branches[d].ledger, night |-> d, day |-> day])
    /\ \/ branches' = [branches EXCEPT ![d].open = FALSE]
       \/ branches' = [e \in DOMAIN branches \ {d} |-> branches[e]]
    /\ UNCHANGED <<today, registry, deployed, runs, requested, answers, started, changes>>

\* Somebody closes the request and deletes its branch.
Discard(d) ==
    /\ d \in DOMAIN branches
    /\ branches' = [e \in DOMAIN branches \ {d} |-> branches[e]]
    /\ UNCHANGED <<today, registry, main, deployed, runs, requested, answers, started, changes>>

DeployLedger ==
    /\ deployed # Len(main)
    /\ deployed' = Len(main)
    /\ UNCHANGED <<today, registry, main, runs, branches, requested, answers, started, changes>>

ChangeRegistry ==
    /\ changes < MaxChanges /\ changes' = changes + 1
    /\ registry' \in SUBSET ListedAnchor \ {registry}
    /\ UNCHANGED <<today, main, deployed, runs, branches, requested, answers, started>>

\* Only a date before the deployed ledger is looked up in the history.
AfterDeployment(date) == date > main[deployed].ledger.version
FromDeployment(date) == date >= main[deployed].ledger.version

CommitFor(date) ==
    CHOOSE i \in DOMAIN main :
        /\ main[i].day <= date
        /\ \A j \in DOMAIN main : main[j].day <= date => j <= i

\* The lookups may fail; an answer from history is served as immutable.
Serve(date) ==
    /\ date <= today /\ ~FromDeployment(date)
    /\ \E i \in DOMAIN main : main[i].day <= date
    /\ answers' = answers \cup {[date |-> date, commit |-> CommitFor(date)]}
    /\ UNCHANGED <<today, registry, main, deployed, runs, branches, requested, started, changes>>

Midnight ==
    /\ today < LastDay /\ today' = today + 1
    /\ UNCHANGED <<registry, main, deployed, runs, branches, requested, answers, started, changes>>

NightlyNext ==
    \/ \E r \in Run : Checkout(r) \/ Validate(r) \/ Propose(r) \/ Fail(r)
    \/ \E d \in Day : Merge(d) \/ Discard(d) \/ Serve(d)
    \/ DeployLedger \/ ChangeRegistry \/ Midnight

NightlySpec == NightlyInit /\ [][NightlyNext]_nightlyVars

-----------------------------------------------------------------------------
(* An anchor is hidden only if it failed in as many ledgers in a row as    *)
(* the threshold says, of as many different nights, however runs overlap,  *)
(* are repeated on a day or cross midnight, and whatever becomes of their  *)
(* pull requests: the "consecutive nightly validation failures" of         *)
(* lib/stellar/anchors.ts:23-26 and the "one authoritative write per       *)
(* night" of nightly.yml:161-163.                                          *)

Degraded(ledger) == {a \in DOMAIN ledger.failures : ledger.failures[a] >= ThresholdNights}

DegradedIsEarned ==
    \A i \in DOMAIN main : \A a \in Degraded(main[i].ledger) :
        LET first == i - ThresholdNights + 1 IN
        /\ first > 1
        /\ \A j \in first..i : a \in main[j].ledger.failed
        /\ \A j \in first..i - 1 : main[j].night < main[j + 1].night

(* "A past date can never change": what was answered from history for a    *)
(* date, and cached as immutable, is still the answer, and describes no    *)
(* later date, however late requests are merged and with whatever date     *)
(* (app/api/v1/anchor-health/ledger/route.ts:31-36).                       *)
PastDatesAreSettled ==
    \A x \in answers :
        /\ x.commit = CommitFor(x.date)
        /\ main[x.commit].ledger.version <= x.date
=============================================================================
