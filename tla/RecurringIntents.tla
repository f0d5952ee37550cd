--------------------------- MODULE RecurringIntents ---------------------------
(***************************************************************************)
(* The recurring-intent store and its scheduler                            *)
(* (lib/recurring/{store,scheduler,cadence}.ts).  Nothing in src/ calls    *)
(* the scheduler yet, so the actions are the library's exported functions, *)
(* called in any order.                                                    *)
(*                                                                         *)
(* evaluateAllDueIntents reads the due intents once, at a time it keeps,   *)
(* and awaits quotes for each; between two of its intents anything may     *)
(* happen, another evaluation included.  executeCycle has no await.        *)
(***************************************************************************)
EXTENDS Naturals, Sequences

CONSTANTS
    Intent,      \* ids
    Evaluation,  \* calls of evaluateAllDueIntents in progress at once
    Template,    \* what a client registers: the cadence (a named interval or a cron
                 \* period), maxCycles (0: absent), stopDate (Forever: absent), and
                 \* how long after it is registered the first cycle is due
    MaxSkips,    \* MAX_CONSECUTIVE_SKIPS, 3
    LastTime,    \* bound on the clock
    MaxRecords   \* bound on an intent's history

VARIABLES
    time,
    store,       \* recurringIntents: a function on the ids registered
    executions,  \* the history of each intent
    evaluations  \* the due intents, read at a time, that still await a quote

recurringVars == <<time, store, executions, evaluations>>

Time == 0..LastTime
Forever == 2 * LastTime + 1   \* later than any time or any next execution
Status == {"active", "paused", "over"}   \* over: completed or expired

ASSUME RecurringAssumption ==
    /\ Template \subseteq [kind : {"named", "cron"}, every : Nat \ {0}, limit : Nat,
                            stop : Nat, wait : Nat]
    /\ MaxSkips \in Nat \ {0}
    /\ LastTime \in Nat /\ MaxRecords \in Nat

RecurringIntent ==
    [terms : Template, next : Nat, status : Status,
     executed : Nat, skipped : Nat, failed : Nat]

\* `held' is no field of the code's: the user had paused or closed the intent by then.
Execution ==
    [status : {"executed", "skipped", "failed"}, at : Time, held : BOOLEAN]

Registered == DOMAIN store
Idle == [now |-> 0, due |-> {}]

RecurringTypeOK ==
    /\ time \in Time
    /\ Registered \subseteq Intent
    /\ store \in [Registered -> RecurringIntent]
    /\ executions \in [Intent -> Seq(Execution)]
    /\ evaluations \in
         [Evaluation -> [now : Time, due : SUBSET Intent]]

RecurringInit ==
    /\ time = 0
    /\ store = [i \in {} |-> 0]
    /\ executions = [i \in Intent |-> <<>>]
    /\ evaluations = [e \in Evaluation |-> Idle]

-----------------------------------------------------------------------------
(* Cadence. *)

NextExecution(c, after) ==
    IF c.kind = "named" THEN after + c.every ELSE (after \div c.every + 1) * c.every

IsDue(next, now) == now >= next

\* isStopDatePassed, isMaxCyclesReached, or no longer active.
IsOver(ri, now) ==
    \/ now >= ri.terms.stop
    \/ ri.terms.limit # 0 /\ ri.executed >= ri.terms.limit
    \/ ri.status # "active"

-----------------------------------------------------------------------------
(* The store.  An id registered again starts from what the client sends.   *)

Register(i) ==
    /\ i \notin Registered
    /\ \E t \in Template :
          store' = [j \in Registered \cup {i} |->
                      IF j = i THEN [terms |-> t, next |-> time + t.wait, status |-> "active",
                                     executed |-> 0, skipped |-> 0, failed |-> 0]
                               ELSE store[j]]
    /\ UNCHANGED <<time, executions, evaluations>>

SetStatus(i, s) ==
    /\ i \in Registered
    /\ store' = [store EXCEPT ![i].status = s]
    /\ UNCHANGED <<time, executions, evaluations>>

Delete(i) ==
    /\ i \in Registered
    /\ executions' = [executions EXCEPT ![i] = <<>>]
    /\ store' = [j \in Registered \ {i} |-> store[j]]
    /\ UNCHANGED <<time, evaluations>>

-----------------------------------------------------------------------------
(* executeCycle(i, quotes, _, now) on the intent ri read from the store.   *)
(* Whether a quote is live, good enough and in range is left open.  An     *)
(* intent that is not due or not there changes nothing.                    *)

Record(i, status, now) ==
    executions' = [executions EXCEPT ![i] = Append(@,
                     [status |-> status, at |-> now, held |-> store[i].status # "active"])]

Complete(i, ri, now) ==
    /\ IsOver(ri, now)
    /\ Record(i, "failed", now)
    /\ store' = [store EXCEPT ![i].status = "over", ![i].failed = ri.failed + 1]

Execute(i, ri, now) ==
    /\ ~IsOver(ri, now)
    /\ Record(i, "executed", now)
    /\ store' = [store EXCEPT ![i].executed = ri.executed + 1,
                              ![i].next = NextExecution(ri.terms, now)]

\* checkConsecutiveSkips: the skips at the tail of the history.
TooManySkips(history) ==
    /\ Len(history) >= MaxSkips
    /\ \A k \in Len(history) - MaxSkips + 1..Len(history) : history[k].status = "skipped"

Skip(i, ri, now) ==
    /\ ~IsOver(ri, now)
    /\ Record(i, "skipped", now)
    /\ store' = [store EXCEPT
                   ![i].skipped = ri.skipped + 1,
                   ![i].next = NextExecution(ri.terms, now),
                   ![i].status = IF TooManySkips(executions'[i]) THEN "paused" ELSE @]

ExecuteCycle(i, ri, now) ==
    IF IsDue(ri.next, now)
    THEN /\ Len(executions[i]) < MaxRecords
         /\ \/ Complete(i, ri, now)
            \/ Execute(i, ri, now)
            \/ Skip(i, ri, now)
    ELSE UNCHANGED <<store, executions>>

\* Called for one intent, at the current time.
ExecuteNow(i) ==
    /\ i \in Registered
    /\ ExecuteCycle(i, store[i], time)
    /\ UNCHANGED <<time, evaluations>>

-----------------------------------------------------------------------------
(* evaluateAllDueIntents.  The order of the list is left open: the intents *)
(* of a list do not affect each other.                                     *)

StartEvaluation(e) ==
    /\ evaluations[e] = Idle
    /\ LET due == {i \in Registered :
                     store[i].status = "active" /\ IsDue(store[i].next, time)}
       IN /\ due # {}
          /\ evaluations' = [evaluations EXCEPT ![e] =
                [now |-> time, due |-> due]]
    /\ UNCHANGED <<time, store, executions>>

\* The quotes for one of the intents have come, or failed to; the store is read again.
EvaluateUnchecked(e, i) ==
    /\ Len(executions[i]) < MaxRecords
    /\ \/ Complete(i, store[i], evaluations[e].now)
       \/ Execute(i, store[i], evaluations[e].now)
       \/ Skip(i, store[i], evaluations[e].now)
EvaluateCycle(e, i) == ExecuteCycle(i, store[i], evaluations[e].now)

EvaluateNext(e) ==
    \E i \in evaluations[e].due :
        /\ evaluations' = [evaluations EXCEPT
                             ![e] = IF @.due = {i} THEN Idle
                                    ELSE [now |-> @.now, due |-> @.due \ {i}]]
        /\ IF i \in Registered THEN EvaluateCycle(e, i) ELSE UNCHANGED <<store, executions>>
        /\ UNCHANGED time

TimePasses ==
    /\ time < LastTime
    /\ time' = time + 1
    /\ UNCHANGED <<store, executions, evaluations>>

RecurringNext ==
    \/ \E i \in Intent : Register(i) \/ Delete(i) \/ ExecuteNow(i)
    \/ \E i \in Intent, s \in Status : SetStatus(i, s)
    \/ \E e \in Evaluation : StartEvaluation(e) \/ EvaluateNext(e)
    \/ TimePasses

RecurringSpec == RecurringInit /\ [][RecurringNext]_recurringVars

-----------------------------------------------------------------------------
(* Every execution was authorised when it ran, however the evaluations     *)
(* overlap and whatever the user does while a quote is awaited: none while *)
(* the intent was paused or closed, none after its stop date, none beyond  *)
(* maxCycles, and at least one cadence after the cycle before it that was  *)
(* executed or skipped (scheduler.ts:232-241, 256, 353-360, 433).          *)

Ran(e) == e.status # "failed"

RunsAreAuthorised ==
    \A i \in Registered :
        LET history == executions[i]
            terms == store[i].terms
        IN /\ \A k \in DOMAIN history :
                 history[k].status = "executed" => /\ ~history[k].held
                                                   /\ history[k].at < terms.stop
           /\ terms.limit # 0 => store[i].executed <= terms.limit
           /\ \A k, l \in DOMAIN history :
                 k < l /\ Ran(history[k]) /\ Ran(history[l])
                 => history[l].at >= NextExecution(terms, history[k].at)
=============================================================================
