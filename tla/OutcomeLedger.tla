---------------------------- MODULE OutcomeLedger ----------------------------
(***************************************************************************)
(* The outcome_log table and its writers: the append route, overlapping    *)
(* reconcile runs, the publisher, and the disputes filed about its rows    *)
(* (app/api/reputation/{append,reconcile,dispute}/route.ts,                *)
(* app/api/admin/disputes/route.ts, lib/reputation/{postgres,reconcile,    *)
(* disputes}.ts).                                                          *)
(*                                                                         *)
(* A reconcile run reads the pending rows once and then awaits, row by     *)
(* row, the payments of the row's transaction and the update.  Runs take   *)
(* no lock, so a row may be handled by several.  Nothing here looks at a   *)
(* row's outcome: the run calls every pending row 'completed'.             *)
(***************************************************************************)
EXTENDS Naturals, Sequences, FiniteSets

CONSTANTS
    Intent,       \* intent hashes, the primary key
    Account,      \* Stellar accounts that sign and pay
    Tx,           \* Stellar transactions a client may name
    Source,       \* who sent the payment of each Tx, Nobody if it carries none
    Nobody,
    NoTx,         \* a NULL stellar_transaction_id
    Absent,       \* the value of log where there is no row
    Run,          \* reconcile runs that may overlap
    MaxDisputes,  \* bound on disputes filed
    MaxFaults     \* bound on lookups and updates that fail and runs killed

VARIABLES
    log,        \* outcome_log
    todo,       \* the rows each run has read and not handled yet
    at,         \* the row whose payment it has just read, a set of at most one
    disputes,   \* the disputes table, in filing order
    faults      \* failures that may still happen

vars == <<log, todo, at, disputes, faults>>

\* What a client may post; the route adds the server-managed columns.
Posted ==
    [direction : {"withdraw", "deposit"}, tx : Tx \cup {NoTx},
     delivered : {"null", "claimed"}, signer : Account]

Stored ==
    [direction : {"withdraw", "deposit"}, tx : Tx \cup {NoTx},
     delivered : {"null", "claimed", "witnessed"}, signer : Account,
     reconciled : BOOLEAN, disputed : BOOLEAN, published : BOOLEAN]

ASSUME LedgerAssumption ==
    /\ Nobody \notin Account
    /\ NoTx \notin Tx
    /\ Absent \notin Stored
    /\ Source \in [Tx -> Account \cup {Nobody}]
    /\ MaxDisputes \in Nat
    /\ MaxFaults \in Nat

Dispute == [intent : Intent, by : Account, status : {"open", "accepted", "rejected"}]

Exists(i) == log[i] # Absent
Recorded == {i \in Intent : Exists(i)}

TypeOK ==
    /\ log \in [Intent -> Stored \cup {Absent}]
    /\ todo \in [Run -> SUBSET Recorded]
    /\ at \in [Run -> SUBSET Recorded]
    /\ \A run \in Run : at[run] \subseteq todo[run] /\ Cardinality(at[run]) <= 1
    /\ disputes \in Seq(Dispute)
    /\ faults \in 0..MaxFaults

Init ==
    /\ log = [i \in Intent |-> Absent]
    /\ todo = [run \in Run |-> {}]
    /\ at = [run \in Run |-> {}]
    /\ disputes = <<>>
    /\ faults = MaxFaults

Fault == faults > 0 /\ faults' = faults - 1

-----------------------------------------------------------------------------
(* POST /api/reputation/append.                                            *)

\* INSERT ... ON CONFLICT DO NOTHING, and the upsert it replaced.
Upsert(i) == TRUE
MayInsert(i) == ~Exists(i)

\* Any account can sign any hash, so any of them may be the first to post it.  A
\* repeat answers 409 and changes nothing.
Record(i, posted) ==
    /\ MayInsert(i)
    /\ log' = [log EXCEPT ![i] =
          [direction |-> posted.direction, tx |-> posted.tx,
           delivered |-> posted.delivered, signer |-> posted.signer,
           reconciled |-> FALSE, disputed |-> FALSE, published |-> FALSE]]
    /\ UNCHANGED <<todo, at, disputes, faults>>

-----------------------------------------------------------------------------
(* GET /api/reputation/reconcile.                                          *)

\* The query with pendingReconciliationOnly and direction 'withdraw'.
Due(row) ==
    /\ row.direction = "withdraw"
    /\ row.tx # NoTx
    /\ row.delivered = "null"
    /\ ~row.reconciled

Scan(run) ==
    /\ todo[run] = {}
    /\ todo' = [todo EXCEPT ![run] = {i \in Recorded : Due(log[i])}]
    /\ UNCHANGED <<log, at, disputes, faults>>

\* Done with row i of a run, whatever came of it.
Leave(run, i) ==
    /\ todo' = [todo EXCEPT ![run] = @ \ {i}]
    /\ at' = [at EXCEPT ![run] = {}]

\* The payments of the row's transaction: without one the row stays pending.
Lookup(run, i) ==
    /\ at[run] = {}
    /\ i \in todo[run]
    /\ IF Source[log[i].tx] = Nobody
       THEN Leave(run, i)
       ELSE at' = [at EXCEPT ![run] = {i}] /\ UNCHANGED todo
    /\ UNCHANGED <<log, disputes, faults>>

\* markDelivered overwrites whatever the row says by now; a payment from another
\* account than the signer's flags the row and delivers nothing.
FallThrough(row) ==
    [row EXCEPT !.delivered = "witnessed", !.reconciled = TRUE,
                !.disputed = @ \/ Source[row.tx] # row.signer]
NoSourceCheck(row) == [row EXCEPT !.delivered = "witnessed", !.reconciled = TRUE]
AmountOnly(row) ==
    IF Source[row.tx] = row.signer
    THEN [row EXCEPT !.delivered = "witnessed"]
    ELSE [row EXCEPT !.disputed = TRUE]

Settled(row) ==
    IF Source[row.tx] = row.signer
    THEN [row EXCEPT !.delivered = "witnessed", !.reconciled = TRUE]
    ELSE [row EXCEPT !.disputed = TRUE]

Settle(run, i) ==
    /\ i \in at[run]
    /\ log' = [log EXCEPT ![i] = Settled(@)]
    /\ Leave(run, i)
    /\ UNCHANGED <<disputes, faults>>

\* Horizon or the database fails on a row: the run goes on with the next one.
\* The update may have been applied before the error.
RowFails(run, i) ==
    /\ i \in todo[run]
    /\ at[run] \subseteq {i}
    /\ Fault
    /\ \/ UNCHANGED log
       \/ i \in at[run] /\ log' = [log EXCEPT ![i] = Settled(@)]
    /\ Leave(run, i)
    /\ UNCHANGED disputes

KillRun(run) ==
    /\ todo[run] # {}
    /\ Fault
    /\ todo' = [todo EXCEPT ![run] = {}]
    /\ at' = [at EXCEPT ![run] = {}]
    /\ UNCHANGED <<log, disputes>>

-----------------------------------------------------------------------------
(* The publisher and the disputes.                                         *)

\* What a tick does to a row in the end (PublisherTick has the steps).
Publish(i) ==
    /\ Exists(i)
    /\ log[i].direction = "withdraw" /\ log[i].reconciled /\ ~log[i].published
    /\ log' = [log EXCEPT ![i].published = TRUE]
    /\ UNCHANGED <<todo, at, disputes, faults>>

\* POST /api/reputation/dispute: the row must exist and the key be its signer's.
\* The limiters may refuse any filing.  Only the disputes table is written.
MayDispute(i, by) == Exists(i) /\ log[i].signer = by

FileDispute(i, by) ==
    /\ MayDispute(i, by)
    /\ Len(disputes) < MaxDisputes
    /\ disputes' = Append(disputes, [intent |-> i, by |-> by, status |-> "open"])
    /\ UNCHANGED <<log, todo, at, faults>>

\* POST /api/admin/disputes: unconditional, so a verdict may be reversed.
Resolve(k, verdict) ==
    /\ k \in 1..Len(disputes)
    /\ disputes' = [disputes EXCEPT ![k].status = verdict]
    /\ UNCHANGED <<log, todo, at, faults>>

-----------------------------------------------------------------------------
Handle(run, i) == Lookup(run, i) \/ Settle(run, i)

Next ==
    \/ \E i \in Intent, posted \in Posted : Record(i, posted)
    \/ \E run \in Run : Scan(run) \/ KillRun(run)
    \/ \E run \in Run, i \in Intent : Handle(run, i) \/ RowFails(run, i)
    \/ \E i \in Intent : Publish(i)
    \/ \E i \in Intent, by \in Account : FileDispute(i, by)
    \/ \E k \in 1..MaxDisputes, verdict \in {"accepted", "rejected"} : Resolve(k, verdict)

Spec == Init /\ [][Next]_vars

\* The cron starts a run every five minutes, and a run gets through its rows.  That
\* the publisher gets to a row is nothing to count on (PublisherTick says when it does).
FairSpec ==
    /\ Spec
    /\ \A run \in Run : WF_vars(Scan(run))
    /\ \A run \in Run, i \in Intent : WF_vars(Handle(run, i))

-----------------------------------------------------------------------------
(* Properties.                                                             *)

\* "An anchor cannot inflate its own delivery numbers": what is published was
\* delivered by a payment on the ledger, sent by the account that signed the row,
\* and is never the amount a client claimed.
PublishedIsWitnessed ==
    \A i \in Recorded : log[i].published =>
        /\ log[i].delivered = "witnessed"
        /\ Source[log[i].tx] = log[i].signer

\* Overlapping and repeated posts and runs never rewrite what a row says: the
\* first client's claims stay, and a reconciled or published row stays so.
RowsAreNeverRewritten ==
    [][\A i \in Recorded :
          /\ log'[i] # Absent
          /\ \A f \in {"direction", "tx", "signer"} : log'[i][f] = log[i][f]
          /\ log[i].delivered # "null" => log'[i].delivered = log[i].delivered
          /\ \A f \in {"reconciled", "disputed", "published"} : log[i][f] => log'[i][f]]_vars

\* A row whose payment its signer sent is settled by that payment and put up for
\* publication, whichever runs fail on it, overlap on it or are killed at it.
WitnessedRowsGetSettled ==
    \A i \in Intent :
        (Exists(i) /\ Due(log[i]) /\ Source[log[i].tx] = log[i].signer)
            ~> (Exists(i) /\ log[i].reconciled /\ log[i].delivered = "witnessed")

Stage(i) ==
    IF ~Exists(i) THEN "absent"
    ELSE IF log[i].published THEN "published"
    ELSE IF log[i].disputed THEN "disputed"
    ELSE IF log[i].reconciled THEN "reconciled"
    ELSE "recorded"

Lifecycle == INSTANCE OutcomeLifecycle WITH Row <- Intent, stage <- [i \in Intent |-> Stage(i)]

\* The table and its writers implement the promised lifecycle of a row.
RefinesLifecycle == Lifecycle!Spec

-----------------------------------------------------------------------------
(* What the documents promise and the code does not keep.                  *)

\* docs/ARCHITECTURE.md: "Every terminal intent (completed, refunded, or error)
\* produces an outcome tuple the publisher writes to the Soroban oracle."  The
\* publisher reads reconciled rows only.  A row posted with its delivered amount is
\* never due for that, although the ledger shows the signer's payment;
\* useWithdrawStatus posts the amount whenever it knows it.
EveryOutcomeReachesThePublisher ==
    \A i \in Intent :
        (/\ Exists(i)
         /\ log[i].direction = "withdraw" /\ log[i].tx # NoTx
         /\ Source[log[i].tx] = log[i].signer)
            ~> (Exists(i) /\ log[i].reconciled)
=============================================================================
