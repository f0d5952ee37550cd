---------------------------- MODULE PublisherTick ----------------------------
(***************************************************************************)
(* The oracle publisher: overlapping cron ticks move reconciled outcome    *)
(* rows from Postgres onto the chain (app/api/publisher/tick/route.ts,     *)
(* packages/publisher/src/{batch,gate}.ts, lib/reputation/lock.ts).        *)
(*                                                                         *)
(* A tick takes the shared lock, reads a batch of pending rows once, and   *)
(* for each row awaits a contract write, a second one for a completed row, *)
(* and the UPDATE that marks the row published.  Every await is a step of  *)
(* its own, at which the platform may kill the invocation and the answer   *)
(* of a write that landed may be lost.  Nothing remembers what was sent:   *)
(* the next tick starts from the rows still unmarked.                      *)
(*                                                                         *)
(* Time is what is left of the lock and of each invocation.  The lock row  *)
(* carries no owner, and a missing row reads like an expired one.          *)
(***************************************************************************)
EXTENDS Naturals, Sequences, FiniteSets

CONSTANTS
    Row,            \* attested withdraw rows of outcome_log
    Completed,      \* those whose outcome is 'completed'
    Refused,        \* those submit_outcome refuses whatever happens
    Unaddable,      \* those whose volume add_volume_savings refuses whatever happens
    Tick,           \* invocations of the tick route that may overlap
    BatchSize,      \* BATCH_SIZE, 100 in the code
    MaxAttempts,    \* maxAttempts of withRetry, 5 in the code
    MaxRun,         \* what is left of maxDuration once a tick holds the lock
    LockTtl,        \* LOCK_TTL_MS, as long as maxDuration
    Mainnet,        \* whether STELLAR_NETWORK is mainnet
    TestnetOracle,  \* whether the contract is the testnet deployment
    Override,       \* PUBLISH_GATE_OVERRIDE = 'true'
    MaxStamp,       \* bound on the start times of reconcile runs
    MaxCopies,      \* bound on the recorded copies of an unaddable row
    MaxFaults       \* bound on failures, kills and coverage gaps

\* maxDuration and LOCK_TTL_MS are both 300 s, and an invocation has spent part
\* of its time before it reads the clock for its lock.  Refused rows exist: the
\* append route takes a settle time of up to 90 days, the contract of a million
\* seconds.  So do unaddable ones: the route takes amounts of up to 10^15 USDC, the
\* contract volumes of up to 10^12.
ASSUME TickAssumption ==
    /\ Completed \subseteq Row
    /\ Refused \subseteq Row
    /\ Unaddable \subseteq Completed
    /\ IsFiniteSet(Row)
    /\ BatchSize \in Nat \ {0}
    /\ MaxAttempts \in Nat \ {0}
    /\ MaxRun \in Nat
    /\ LockTtl \in Nat
    /\ MaxRun < LockTtl
    /\ Mainnet \in BOOLEAN /\ TestnetOracle \in BOOLEAN /\ Override \in BOOLEAN
    /\ MaxStamp \in Nat /\ MaxCopies \in Nat /\ MaxFaults \in Nat

VARIABLES
    reconciledAt,   \* outcome_log.reconciled_at, 0 for NULL
    oracleTx,       \* published_at and oracle_tx_hash: a position in chain, 0 for NULL
    covered,        \* the coverage report: short of the threshold, met, or with a gap
    lockLeft,       \* time until the advisory_locks row expires, 0 for none
    pc,             \* where each invocation awaits
    timeLeft,       \* time until the platform kills it
    batch,          \* its rows still to submit
    attempt,        \* failed attempts of the write in hand
    sent,           \* the transaction that confirmed its row, 0 for none
    chain,          \* the ledger: writes in the order they landed
    faults,         \* failures that may still happen
    lost            \* history: copies of a row that a failure kept from marking it

dbVars == <<reconciledAt, oracleTx, covered>>
runVars == <<pc, timeLeft, batch, attempt, sent>>
vars == <<dbVars, lockLeft, runVars, chain, faults, lost>>

Write == [kind : {"outcome", "volume"}, row : Row]
Running(w) == pc[w] # "idle"
Current(w) == Head(batch[w])

\* Positions of the outcome writes of r on the ledger.
Copies(r) == {i \in 1..Len(chain) : chain[i] = [kind |-> "outcome", row |-> r]}

TypeOK ==
    /\ reconciledAt \in [Row -> 0..MaxStamp]
    /\ oracleTx \in [Row -> 0..Len(chain)]
    /\ covered \in {"short", "met", "gap"}
    /\ lockLeft \in 0..LockTtl
    /\ pc \in [Tick -> {"idle", "fetch", "submit", "volume", "mark", "release"}]
    /\ timeLeft \in [Tick -> 0..MaxRun]
    /\ batch \in [Tick -> Seq(Row)]
    /\ \A w \in Tick : pc[w] \in {"submit", "volume", "mark"} => batch[w] # <<>>
    /\ attempt \in [Tick -> 0..(MaxAttempts - 1)]
    /\ sent \in [Tick -> 0..Len(chain)]
    /\ chain \in Seq(Write)
    /\ faults \in 0..MaxFaults
    /\ lost \in [Row -> Nat]

Init ==
    /\ reconciledAt = [r \in Row |-> 0]
    /\ oracleTx = [r \in Row |-> 0]
    /\ covered \in {"short", "met", "gap"}
    /\ lockLeft = 0
    /\ pc = [w \in Tick |-> "idle"]
    /\ timeLeft = [w \in Tick |-> 0]
    /\ batch = [w \in Tick |-> <<>>]
    /\ attempt = [w \in Tick |-> 0]
    /\ sent = [w \in Tick |-> 0]
    /\ chain = <<>>
    /\ faults = MaxFaults
    /\ lost = [r \in Row |-> 0]

Goto(w, label) == pc' = [pc EXCEPT ![w] = label]
Fault == faults > 0 /\ faults' = faults - 1
NoFault == UNCHANGED faults

\* An unaddable row is sent by every tick that gets to it.  Its copies past MaxCopies
\* are not recorded; any other write is.
Unrecorded(r) == r \in Unaddable /\ Cardinality(Copies(r)) >= MaxCopies
Landing(kind, r) ==
    IF Unrecorded(r)
    THEN UNCHANGED chain
    ELSE chain' = Append(chain, [kind |-> kind, row |-> r])
Lose(r, n) == lost' = [lost EXCEPT ![r] = @ + n]

-----------------------------------------------------------------------------
(* The environment.                                                        *)

\* A reconcile run stamps the rows it could match one by one with the time the
\* run started at.  Runs take no lock: a slow one stamps with a time gone by, and
\* again rows that another has stamped, or that are published by now.
Reconcile(r, started) ==
    /\ reconciledAt[r] # started
    /\ IF reconciledAt[r] = 0 THEN NoFault ELSE Fault
    /\ reconciledAt' = [reconciledAt EXCEPT ![r] = started]
    /\ UNCHANGED <<oracleTx, covered, lockLeft, runVars, chain, lost>>

\* Probe history accumulates up to the threshold.  A missed day is a gap that stays in
\* the history, so a report with a gap is never met again.
CoverageMet ==
    /\ covered = "short"
    /\ covered' = "met"
    /\ UNCHANGED <<reconciledAt, oracleTx, lockLeft, runVars, chain, faults, lost>>

CoverageLapses ==
    /\ covered # "gap"
    /\ covered' = "gap"
    /\ Fault
    /\ UNCHANGED <<reconciledAt, oracleTx, lockLeft, runVars, chain, lost>>

\* No invocation outlives its deadline.
TimePasses ==
    /\ lockLeft > 0
    /\ \A w \in Tick : Running(w) => timeLeft[w] > 0
    /\ lockLeft' = lockLeft - 1
    /\ timeLeft' = [w \in Tick |-> IF Running(w) THEN timeLeft[w] - 1 ELSE timeLeft[w]]
    /\ UNCHANGED <<dbVars, pc, batch, attempt, sent, chain, faults, lost>>

-----------------------------------------------------------------------------
(* The lock and the batch.                                                 *)

\* acquireSharedLock overwrites an expired row only.  A tick that finds the lock
\* taken answers 409 and has done nothing.
AlmostFree(left) == left <= 1
Free(left) == left = 0

Acquire(w) ==
    /\ pc[w] = "idle"
    /\ Free(lockLeft)
    /\ lockLeft' = LockTtl
    /\ timeLeft' = [timeLeft EXCEPT ![w] = MaxRun]
    /\ Goto(w, "fetch")
    /\ UNCHANGED <<dbVars, batch, attempt, sent, chain, faults, lost>>

\* evaluatePublishGate: testnet is ungated, the testnet contract on mainnet is
\* refused whatever the override says.
PublishAllowed(coverage) ==
    \/ ~Mainnet
    \/ ~TestnetOracle /\ (Override \/ coverage = "met")

GateOpen == PublishAllowed(covered)

AnyUnmarked == {r \in Row : oracleTx[r] = 0}
Pending == {r \in Row : reconciledAt[r] # 0 /\ oracleTx[r] = 0}

NotBefore(q, r) == reconciledAt[q] >= reconciledAt[r]
NotAfter(q, r) == reconciledAt[q] <= reconciledAt[r]

\* ORDER BY reconciled_at LIMIT BatchSize: rows of equal stamps in any order.
PendingBatches ==
    LET size == IF Cardinality(Pending) < BatchSize THEN Cardinality(Pending) ELSE BatchSize
        OldestFirst(b) ==
            /\ \A i, j \in 1..size : i < j => b[i] # b[j] /\ NotAfter(b[i], b[j])
            /\ \A i \in 1..size : \A r \in Pending \ {b[j] : j \in 1..size} :
                   NotAfter(b[i], r)
    IN  {b \in [1..size -> Pending] : OldestFirst(b)}

\* An empty queue or a closed gate ends the tick; so does a query that throws.
\* A coverage report that cannot be read is null to the gate.
Fetch(w) ==
    /\ pc[w] = "fetch"
    /\ \E rows \in PendingBatches, coverage \in {covered, "unavailable"} :
        /\ \/ coverage = covered /\ NoFault
           \/ coverage = "unavailable" /\ Fault
        /\ IF rows # <<>> /\ PublishAllowed(coverage)
           THEN batch' = [batch EXCEPT ![w] = rows] /\ Goto(w, "submit")
           ELSE UNCHANGED batch /\ Goto(w, "release")
    /\ UNCHANGED <<dbVars, lockLeft, timeLeft, attempt, sent, chain, lost>>

FetchFails(w) ==
    /\ pc[w] = "fetch"
    /\ Fault
    /\ Goto(w, "release")
    /\ UNCHANGED <<dbVars, lockLeft, timeLeft, batch, attempt, sent, chain, lost>>

-----------------------------------------------------------------------------
(* submitToOracle, one await per step.                                     *)

\* An exception leaves the loop: the rest of the batch waits for another tick.
Abort(w) ==
    /\ Goto(w, "release")
    /\ batch' = [batch EXCEPT ![w] = <<>>]
    /\ attempt' = [attempt EXCEPT ![w] = 0]
    /\ sent' = [sent EXCEPT ![w] = 0]

AfterSubmit(r) == IF r \in Completed THEN "volume" ELSE "mark"

SubmitConfirmed(w) ==
    /\ pc[w] = "submit"
    /\ Current(w) \notin Refused
    /\ Landing("outcome", Current(w))
    /\ sent' = [sent EXCEPT ![w] = Len(chain')]
    /\ attempt' = [attempt EXCEPT ![w] = 0]
    /\ Goto(w, AfterSubmit(Current(w)))
    /\ UNCHANGED <<dbVars, lockLeft, timeLeft, batch, faults, lost>>

\* A row the contract refuses fails in simulation, which is not retryable.
SubmitRefused(w) ==
    /\ pc[w] = "submit"
    /\ Current(w) \in Refused
    /\ Abort(w)
    /\ UNCHANGED <<dbVars, lockLeft, timeLeft, chain, faults, lost>>

\* Unlike submit_outcome's, the answer to add_volume_savings is not asked for its
\* hash: an answer without one counts as done, whether or not the write landed.
VolumeAnswered(w) ==
    /\ pc[w] = "volume"
    /\ Current(w) \notin Unaddable
    /\ \/ Landing("volume", Current(w)) /\ NoFault
       \/ UNCHANGED chain /\ Fault
    /\ attempt' = [attempt EXCEPT ![w] = 0]
    /\ Goto(w, "mark")
    /\ UNCHANGED <<dbVars, lockLeft, timeLeft, batch, sent, lost>>

\* A volume above the contract's bound: the outcome is on the ledger by now, and the
\* row stays pending for the next tick.
VolumeRefused(w) ==
    /\ pc[w] = "volume"
    /\ Current(w) \in Unaddable
    /\ Abort(w)
    /\ UNCHANGED <<dbVars, lockLeft, timeLeft, chain, faults, lost>>

\* withRetry: the loop runs while attempt <= maxAttempts, counting from 1.
MayRetry(failed) == failed + 1 < MaxAttempts

\* A write attempt that comes back as an error may have landed all the same.  A
\* retryable error is tried again while attempts last; any other, and an
\* outcome write answered without a hash, aborts.
WriteFails(w) ==
    /\ pc[w] \in {"submit", "volume"}
    /\ Fault
    /\ \E landed, retryable \in BOOLEAN :
        LET r == Current(w)
            kind == IF pc[w] = "submit" THEN "outcome" ELSE "volume"
            again == retryable /\ MayRetry(attempt[w])
            strayed == landed /\ kind = "outcome"
            dropped == kind = "volume" /\ ~again
        IN  /\ landed => r \notin (IF kind = "outcome" THEN Refused ELSE Unaddable)
            /\ IF landed THEN Landing(kind, r) ELSE UNCHANGED chain
            /\ Lose(r, IF strayed \/ dropped THEN 1 ELSE 0)
            /\ IF again
               THEN /\ attempt' = [attempt EXCEPT ![w] = @ + 1]
                    /\ UNCHANGED <<pc, batch, sent>>
               ELSE Abort(w)
    /\ UNCHANGED <<dbVars, lockLeft, timeLeft>>

\* The hash stamped on a row.
RowTx(w) == sent[w]

\* markPublished.  The refreshes of rates, metrics and probe signals that follow
\* the last row never throw and touch none of this state.
Mark(w) ==
    /\ pc[w] = "mark"
    /\ oracleTx' = [oracleTx EXCEPT ![Current(w)] = RowTx(w)]
    /\ sent' = [sent EXCEPT ![w] = 0]
    /\ batch' = [batch EXCEPT ![w] = Tail(@)]
    /\ Goto(w, IF Len(batch[w]) = 1 THEN "release" ELSE "submit")
    /\ UNCHANGED <<reconciledAt, covered, lockLeft, timeLeft, attempt, chain, faults, lost>>

\* The UPDATE throws, before or after it took effect.
MarkFails(w) ==
    /\ pc[w] = "mark"
    /\ Fault
    /\ \/ oracleTx' = [oracleTx EXCEPT ![Current(w)] = RowTx(w)] /\ UNCHANGED lost
       \/ UNCHANGED oracleTx /\ Lose(Current(w), 1)
    /\ Abort(w)
    /\ UNCHANGED <<reconciledAt, covered, lockLeft, timeLeft, chain>>

-----------------------------------------------------------------------------
(* The end of a tick.                                                      *)

Stop(w) ==
    /\ Goto(w, "idle")
    /\ timeLeft' = [timeLeft EXCEPT ![w] = 0]
    /\ batch' = [batch EXCEPT ![w] = <<>>]
    /\ attempt' = [attempt EXCEPT ![w] = 0]
    /\ sent' = [sent EXCEPT ![w] = 0]

\* releaseLock deletes the row whoever wrote it; a failed DELETE is swallowed.
Release(w) ==
    /\ pc[w] = "release"
    /\ \/ lockLeft' = 0 /\ NoFault
       \/ UNCHANGED lockLeft /\ Fault
    /\ Stop(w)
    /\ UNCHANGED <<dbVars, chain, lost>>

\* The platform kills the invocation, at its deadline or before: the finally
\* block does not run, and the request in flight may still take effect.
Kill(w) ==
    /\ Running(w)
    /\ Fault
    /\ \/ pc[w] \in {"fetch", "submit", "release"} /\ UNCHANGED <<oracleTx, chain, lost, lockLeft>>
       \/ pc[w] = "submit" /\ Current(w) \notin Refused /\ Landing("outcome", Current(w))
              /\ Lose(Current(w), 1) /\ UNCHANGED <<oracleTx, lockLeft>>
       \/ pc[w] = "volume" /\ Current(w) \notin Unaddable /\ Landing("volume", Current(w))
              /\ Lose(Current(w), 1) /\ UNCHANGED <<oracleTx, lockLeft>>
       \/ pc[w] = "volume" /\ Lose(Current(w), 1) /\ UNCHANGED <<oracleTx, chain, lockLeft>>
       \/ pc[w] = "mark" /\ Lose(Current(w), 1) /\ UNCHANGED <<oracleTx, chain, lockLeft>>
       \/ pc[w] = "mark" /\ oracleTx' = [oracleTx EXCEPT ![Current(w)] = RowTx(w)]
              /\ UNCHANGED <<chain, lost, lockLeft>>
       \/ pc[w] = "release" /\ lockLeft' = 0 /\ UNCHANGED <<oracleTx, chain, lost>>
    /\ Stop(w)
    /\ UNCHANGED <<reconciledAt, covered>>

TickStep(w) ==
    \/ Acquire(w) \/ Fetch(w) \/ FetchFails(w)
    \/ SubmitConfirmed(w) \/ SubmitRefused(w)
    \/ VolumeAnswered(w) \/ VolumeRefused(w) \/ WriteFails(w)
    \/ Mark(w) \/ MarkFails(w)
    \/ Release(w) \/ Kill(w)

Next ==
    \/ \E r \in Row, started \in 1..MaxStamp : Reconcile(r, started)
    \/ CoverageMet \/ CoverageLapses
    \/ TimePasses
    \/ \E w \in Tick : TickStep(w)

Spec == Init /\ [][Next]_vars

\* The cron fires every five minutes for ever, the runtime resumes every await and
\* time passes.  Failures are finite in number: while none is left, a call is
\* answered before the deadline.  Nothing promises that the coverage is ever met.
Progress(w) ==
    \/ Fetch(w)
    \/ SubmitConfirmed(w) \/ SubmitRefused(w) \/ VolumeAnswered(w) \/ VolumeRefused(w)
    \/ Mark(w) \/ Release(w)

FairSpec ==
    /\ Spec
    /\ WF_vars(\E w \in Tick : Acquire(w))
    /\ \A w \in Tick : WF_vars(Progress(w))
    /\ WF_vars(TimePasses)

-----------------------------------------------------------------------------
(* Properties.                                                             *)

\* The 409 guard works without an owner in the lock row: the deadline of an
\* invocation comes before the expiry of its lock, so a release deletes only the
\* releaser's own row and two ticks never work at once.
OneTickAtATime == \A w, v \in Tick : Running(w) /\ Running(v) => w = v

\* "Stamps one row with the hash of the transaction that actually carried it."
StampedWithOwnTx ==
    \A r \in Row : oracleTx[r] # 0 => oracleTx[r] \in Copies(r)

\* A published row is settled for good: whatever batch it is in elsewhere, it is
\* never submitted again nor stamped with another transaction.
PublishedIsFinal ==
    [][\A r \in Row : oracleTx[r] # 0 =>
          oracleTx'[r] = oracleTx[r] /\ Copies(r)' = Copies(r)]_vars

\* Every copy of a row the contract takes is accounted for: it is the one that marked
\* it, the one a running tick is about to mark, or one that a failure lost, each
\* failure at most one.  Ticks that merely overlap, retry or restart never add a copy.
\* An unaddable row has no such account: each tick that gets to it adds a copy.
CopiesAreAccounted ==
    \A r \in Row \ Unaddable :
        /\ Cardinality(Copies(r)) =
               lost[r]
               + Cardinality({w \in Tick : pc[w] \in {"volume", "mark"} /\ Current(w) = r})
               + (IF oracleTx[r] = 0 THEN 0 ELSE 1)
        /\ lost[r] <= MaxFaults - faults

\* Rows one of whose two writes the contract refuses for good, and a row that is queued
\* with or after one of them, which ends every tick before its turn.
Stuck == Refused \cup Unaddable
Behind(r) == \E p \in Stuck : reconciledAt[p] \in 1..reconciledAt[r]

\* Whatever is lost, killed or left locked: a reconciled row gets published, unless
\* the gate is shut or the row queues behind one that the contract refuses.
EventuallyPublished ==
    \A r \in Row \ Stuck :
        reconciledAt[r] # 0 /\ GateOpen ~> oracleTx[r] # 0 \/ Behind(r) \/ ~GateOpen

Stage(r) ==
    IF oracleTx[r] # 0 THEN "published"
    ELSE IF reconciledAt[r] # 0 THEN "reconciled" ELSE "recorded"

Lifecycle == INSTANCE OutcomeLifecycle WITH stage <- [r \in Row |-> Stage(r)]

\* The ticks implement the last stage of the promised lifecycle: only reconciled
\* rows are published, one at a time, and none comes back.
RefinesLifecycle == Lifecycle!Spec

-----------------------------------------------------------------------------
(* What the documents promise and the code does not keep.                  *)

\* docs/ARCHITECTURE.md: "Soroban writes are idempotent keyed on intent_hash."
\* submit_outcome keeps no key and appends whatever it is sent.
WritesAreIdempotent == \A r \in Row : Cardinality(Copies(r)) <= 1

\* docs/ARCHITECTURE.md: "At-least-once delivery."  Rows the contract accepts
\* queue for ever behind one that it does not, behind an open gate.
AtLeastOnce ==
    \A r \in Row \ Refused : reconciledAt[r] # 0 /\ GateOpen ~> Copies(r) # {} \/ ~GateOpen
=============================================================================
