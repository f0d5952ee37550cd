------------------------------- MODULE Webhooks -------------------------------
(***************************************************************************)
(* Webhook subscriptions, the delivery of events to them, and the health   *)
(* changes the publisher tick emits (lib/webhooks/{dispatch,emit,          *)
(* health-diff,store,postgres}.ts, the snapshot row of                     *)
(* lib/api/shared-state.ts, the subscription routes).                      *)
(*                                                                         *)
(* A dispatch runs after the response in the memory of its invocation,     *)
(* and dies with it.  Deliveries of one event run side by side.  Health    *)
(* runs come one at a time: the tick holds its lock.                       *)
(***************************************************************************)
EXTENDS Naturals, Sequences, FiniteSets

CONSTANTS
    Subscription,
    WatchedAnchor,  \* anchors the committed health ledger may list
    MaxAttempts,    \* MAX_ATTEMPTS, 5
    MaxEvents,      \* bound on the events emitted
    MaxDeploys,     \* bound on the deployments that change the ledger
    MaxFaults       \* bound on queries that fail and invocations that die

ASSUME WebhookAssumption ==
    /\ IsFiniteSet(WatchedAnchor)
    /\ MaxAttempts \in Nat \ {0}
    /\ MaxEvents \in Nat /\ MaxDeploys \in Nat /\ MaxFaults \in Nat

Kind == {"intent", "health"}   \* intent: of a request, the kinds of the other routes

VARIABLES
    subs,       \* webhook_subscriptions: the kinds each subscription asks for, and
                \* whether its URL is one isPublicHttpsUrl refuses
    events,     \* the kinds of the events emitted, in order
    queued,     \* the events whose subscriptions have not been listed yet
    jobs,       \* the deliveries begun, by <<event, subscription>>
    log,        \* webhook_delivery_log: the statuses recorded for a delivery
    committed,  \* the running deployment's ledger
    snapshot,   \* webhook_health_snapshot, a set of at most one ledger
    run,        \* the health run in progress
    told,       \* the anchors the baseline and the events since leave degraded
    assumed,    \* those of them that only the baseline says so of
    deploys, faults,
    unsaved,    \* anchors told of by a run whose snapshot was not stored, and not since
    departed    \* anchors told degraded that left the ledger, and not told of since

hooksVars == <<subs, events, queued, jobs, log, committed, snapshot, run, told, assumed,
               deploys, faults, unsaved, departed>>
delivery == <<subs, queued, jobs, log>>
silent == <<unsaved, departed>>
known == <<told, assumed>>
health == <<committed, snapshot, run, known, deploys, silent>>

Job == DOMAIN jobs
EventId == 1..MaxEvents
Endpoint == [kinds : (SUBSET Kind) \ {{}}, blocked : BOOLEAN]

\* What a ledger says: the anchors it lists, and those it flags as degraded.
Ledger == UNION {[tracked : {anchors}, degraded : SUBSET anchors] :
                    anchors \in SUBSET WatchedAnchor}
NoLedger == [tracked |-> {}, degraded |-> {}]
NoRun == [pc |-> "idle", next |-> NoLedger, prev |-> {}]

HooksTypeOK ==
    /\ DOMAIN subs \subseteq Subscription
    /\ subs \in [DOMAIN subs -> Endpoint]
    /\ events \in Seq(Kind) /\ Len(events) <= MaxEvents
    /\ queued \subseteq EventId
    /\ Job \subseteq EventId \X Subscription
    /\ jobs \in [Job -> [pc : {"send", "success", "dead_letter", "done", "lost"},
                         attempts : 0..MaxAttempts,
                         acks : 0..MaxAttempts,   \* attempts answered with a 2xx
                         blocked : BOOLEAN,       \* its target is blocked
                         unlogged : BOOLEAN]]     \* a write to the log has failed
    /\ log \in [EventId \X Subscription -> Seq({"success", "dead_letter"})]
    /\ committed \in Ledger
    /\ snapshot \subseteq Ledger /\ Cardinality(snapshot) <= 1
    /\ run \in [pc : {"idle", "read", "store"}, next : Ledger, prev : SUBSET Ledger]
    /\ told \subseteq WatchedAnchor /\ assumed \subseteq told
    /\ deploys \in 0..MaxDeploys
    /\ faults \in 0..MaxFaults
    /\ unsaved \subseteq WatchedAnchor /\ departed \subseteq WatchedAnchor

\* A row of an earlier deployment may have a URL the route refuses today.
HooksInit ==
    /\ subs \in UNION {[rows -> {to \in Endpoint : to.blocked}] : rows \in SUBSET Subscription}
    /\ events = <<>>
    /\ queued = {}
    /\ jobs = [j \in {} |-> 0]
    /\ log = [j \in EventId \X Subscription |-> <<>>]
    /\ committed \in Ledger
    /\ snapshot = {}
    /\ run = NoRun
    /\ told = {} /\ assumed = {}
    /\ deploys = 0
    /\ faults = 0
    /\ unsaved = {} /\ departed = {}

Fault == faults < MaxFaults /\ faults' = faults + 1
NoFault == UNCHANGED faults

\* emitWebhookEvent, once for each of `kinds'.
Emit(kinds) ==
    /\ Len(events) + Len(kinds) <= MaxEvents
    /\ events' = events \o kinds
    /\ queued' = queued \cup (Len(events) + 1..Len(events) + Len(kinds))

-----------------------------------------------------------------------------
(* The subscription routes.  A subscription that was deleted does not come *)
(* back under its id.                                                      *)

Subscribe(s) ==
    /\ s \notin DOMAIN subs
    /\ \A j \in Job : j[2] # s
    /\ \E to \in Endpoint :
          /\ ~to.blocked
          /\ subs' = [t \in DOMAIN subs \cup {s} |-> IF t = s THEN to ELSE subs[t]]
    /\ UNCHANGED <<events, queued, jobs, log, health, faults>>

Unsubscribe(s) ==
    /\ s \in DOMAIN subs
    /\ subs' = [t \in DOMAIN subs \ {s} |-> subs[t]]
    /\ UNCHANGED <<events, queued, jobs, log, health, faults>>

\* A route or an outcome's append emits an event of its own.
EmitIntentEvent ==
    /\ Emit(<<"intent">>)
    /\ UNCHANGED <<subs, jobs, log, health, faults>>

-----------------------------------------------------------------------------
(* dispatchEvent and deliverToSubscription. *)

\* A delivery to a blocked target is a dead letter at once, without a request.
NewDelivery(s) == [pc |-> IF subs[s].blocked THEN "dead_letter" ELSE "send",
                   attempts |-> 0, acks |-> 0, blocked |-> subs[s].blocked,
                   unlogged |-> FALSE]

\* The subscriptions are listed, or the event is dropped with a warning.
Dispatch(e) ==
    /\ e \in queued
    /\ queued' = queued \ {e}
    /\ \/ LET begun == {<<e, s>> : s \in {t \in DOMAIN subs : events[e] \in subs[t].kinds}}
          IN jobs' = [j \in Job \cup begun |-> IF j \in begun THEN NewDelivery(j[2]) ELSE jobs[j]]
          /\ NoFault
       \/ Fault /\ UNCHANGED jobs
    /\ UNCHANGED <<subs, events, log, health>>

AfterFailureLate(attempts) == IF attempts <= MaxAttempts THEN "send" ELSE "dead_letter"
AfterFailure(attempts) == IF attempts < MaxAttempts THEN "send" ELSE "dead_letter"

\* One POST: a 2xx answer, or any other answer, a time-out or an error.
AttemptAnyAnswer(j) ==
    /\ jobs[j].pc = "send"
    /\ \E ok \in BOOLEAN :
          jobs' = [jobs EXCEPT ![j].attempts = @ + 1, ![j].pc = "success",
                               ![j].acks = IF ok THEN @ + 1 ELSE @]
    /\ UNCHANGED <<subs, events, queued, log, health, faults>>
Attempt(j) ==
    /\ jobs[j].pc = "send"
    /\ LET n == jobs[j].attempts + 1 IN
       \/ jobs' = [jobs EXCEPT ![j].attempts = n, ![j].pc = "success", ![j].acks = @ + 1]
       \/ jobs' = [jobs EXCEPT ![j].attempts = n, ![j].pc = AfterFailure(n)]
    /\ UNCHANGED <<subs, events, queued, log, health, faults>>

\* The write fails before or after it took effect.  After a 2xx the failure is
\* caught like one of the POST, and the delivery is tried again.
RecordDelivery(j) ==
    /\ jobs[j].pc \in {"success", "dead_letter"}
    /\ \/ /\ log' = [log EXCEPT ![j] = Append(@, jobs[j].pc)]
          /\ jobs' = [jobs EXCEPT ![j].pc = "done"]
          /\ NoFault
       \/ /\ Fault
          /\ \/ UNCHANGED log
             \/ log' = [log EXCEPT ![j] = Append(@, jobs[j].pc)]
          /\ jobs' = [jobs EXCEPT
                        ![j].unlogged = TRUE,
                        ![j].pc = IF @ = "success" THEN AfterFailure(jobs[j].attempts)
                                                   ELSE "done"]
    /\ UNCHANGED <<subs, events, queued, health>>

\* The invocation that emitted some of the events is gone, and what it was
\* delivering with it; a health run too if it was the one.
Die(es) ==
    /\ Fault
    /\ queued' = queued \ es
    /\ jobs' = [j \in Job |-> IF j[1] \in es /\ jobs[j].pc # "done"
                              THEN [jobs[j] EXCEPT !.pc = "lost"] ELSE jobs[j]]
    /\ UNCHANGED <<subs, events, log>>

\* diffDegraded: both ways, one event for an anchor.  An anchor that was not listed
\* counts as healthy; one that no longer is counts as nothing.
NewlyDegraded(prev, next) == next.degraded \ prev.degraded
DiffDegraded(prev, next) ==
    {a \in next.tracked : (a \in prev.degraded) # (a \in next.degraded)}

\* What the run in progress has found changed, nothing without a snapshot.
Changed == UNION {DiffDegraded(prev, run.next) : prev \in run.prev}

\* Its snapshot was stored after it told the changes, or was not.
Saved ==
    /\ snapshot' = {run.next}
    /\ unsaved' = unsaved \ Changed
    /\ departed' = (departed \ Changed) \cup (told \ run.next.tracked)
Unsaved ==
    /\ unsaved' = unsaved \cup Changed
    /\ UNCHANGED <<snapshot, departed>>

InvocationDies ==
    \/ /\ \E e \in queued \cup {j[1] : j \in Job} : Die({e})
       /\ UNCHANGED health
    \/ /\ run.pc # "idle"
       /\ run' = NoRun
       /\ Die({})
       /\ IF run.pc = "store" THEN Unsaved ELSE UNCHANGED <<snapshot, silent>>
       /\ UNCHANGED <<committed, known, deploys>>

-----------------------------------------------------------------------------
(* emitHealthChanges.  The first run, without a snapshot, stores one only. *)

\* Anchors join the ledger, leave it and change their flag.
Deploy ==
    /\ deploys < MaxDeploys
    /\ deploys' = deploys + 1
    /\ committed' \in Ledger \ {committed}
    /\ UNCHANGED <<delivery, events, snapshot, run, known, faults, silent>>

\* getSnapshot; the ledger is the running deployment's.
ReadSnapshot ==
    /\ run = NoRun
    /\ \/ run' = [pc |-> "read", next |-> committed, prev |-> snapshot] /\ NoFault
       \/ Fault /\ UNCHANGED run
    /\ UNCHANGED <<delivery, events, committed, snapshot, known, deploys, silent>>

EmitChanges ==
    /\ run.pc = "read"
    /\ \/ /\ run.prev = {}
          /\ told' = run.next.degraded /\ assumed' = run.next.degraded
          /\ UNCHANGED <<events, queued>>
       \/ /\ run.prev # {}
          /\ told' = (told \ Changed) \cup (run.next.degraded \cap Changed)
          /\ assumed' = assumed \ Changed
          /\ Emit([n \in 1..Cardinality(Changed) |-> "health"])
    /\ run' = [run EXCEPT !.pc = "store"]
    /\ UNCHANGED <<subs, jobs, log, committed, snapshot, deploys, faults, silent>>

\* setSnapshot, which may fail before or after it took effect.
StoreSnapshot ==
    /\ run.pc = "store"
    /\ run' = NoRun
    /\ \/ Saved /\ NoFault
       \/ (Saved \/ Unsaved) /\ Fault
    /\ UNCHANGED <<delivery, events, committed, known, deploys>>

HooksNext ==
    \/ \E s \in Subscription : Subscribe(s) \/ Unsubscribe(s)
    \/ EmitIntentEvent
    \/ \E e \in EventId : Dispatch(e)
    \/ \E j \in Job : Attempt(j) \/ RecordDelivery(j)
    \/ InvocationDies
    \/ Deploy
    \/ ReadSnapshot \/ EmitChanges \/ StoreSnapshot

HooksSpec == HooksInit /\ [][HooksNext]_hooksVars

-----------------------------------------------------------------------------
(* The log is what happened: a success was answered with a 2xx, a dead     *)
(* letter used every attempt and had no 2xx, or was to a blocked target,   *)
(* which gets no request at all, and a delivery that ended with its        *)
(* invocation alive left exactly one record; only a delivery one of whose  *)
(* writes to the log has failed may have a dead letter after a 2xx, or     *)
(* another number of records (dispatch.ts:29-115).                         *)
LogIsHonest ==
    \A j \in Job :
        LET has(status) == \E k \in 1..Len(log[j]) : log[j][k] = status
            d == jobs[j]
            full == IF d.blocked THEN 0 ELSE MaxAttempts
        IN /\ d.attempts <= full
           /\ has("success") => d.acks > 0
           /\ has("dead_letter") => d.attempts = full
           /\ has("dead_letter") /\ d.acks > 0 => d.unlogged
           /\ d.pc = "done" /\ Len(log[j]) # 1 => d.unlogged

(* Between two runs what the baseline and the events since say of an       *)
(* anchor is what the snapshot says, except for two kinds of anchor: those *)
(* a run told of and then did not store, and those that left the ledger    *)
(* while degraded; and for these until they are told of again              *)
(* (health-diff.ts:22-103).                                                *)
SnapshotIsTold ==
    run.pc # "store" =>
        \A s \in snapshot, a \in WatchedAnchor \ (unsaved \cup departed) :
            a \in told <=> a \in s.degraded

(* "a failure before that re-sends them on the next run instead of losing  *)
(* them" (health-diff.ts:67-68): the run that next stores a snapshot has   *)
(* told again what a run without one had told of the anchors still listed. *)
LostRunsAreRepeated ==
    [][StoreSnapshot /\ NoFault => unsaved' \cap run.next.tracked = {}]_hooksVars

(* "An anchor that is missing from prev was not degraded as far as anyone  *)
(* was told" (health-diff.ts:17): what an event called degraded is in the  *)
(* snapshot.                                                               *)
MissingWasNotTold ==
    run.pc = "read" => \A prev \in run.prev : told \ assumed \subseteq prev.tracked
=============================================================================
