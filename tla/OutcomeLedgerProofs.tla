------------------------- MODULE OutcomeLedgerProofs -------------------------
(***************************************************************************)
(* Proofs about the outcome table, for every set of intents, accounts,     *)
(* transactions and overlapping reconcile runs.                            *)
(*                                                                         *)
(* The invariant of the table has a part about rows (what a row's flags    *)
(* say of its payment) and one about the runs' snapshots (what stays true  *)
(* of a row however long ago a run has read it).                           *)
(***************************************************************************)
EXTENDS OutcomeLedger, FiniteSetTheorems, TLAPS

LedgerTypes ==
    /\ log \in [Intent -> Stored \cup {Absent}]
    /\ todo \in [Run -> SUBSET Intent]
    /\ at \in [Run -> SUBSET Intent]

\* What a row's flags say of its payment.
Sound(row) ==
    /\ row.reconciled =>
           /\ row.direction = "withdraw"
           /\ row.delivered = "witnessed"
           /\ Source[row.tx] = row.signer
    /\ row.disputed => Source[row.tx] # row.signer
    /\ row.published => row.reconciled
    /\ row.delivered = "witnessed" => row.reconciled

\* What stays true of a row that was due once.
WasDue(row) ==
    /\ row.direction = "withdraw"
    /\ row.tx # NoTx
    /\ row.delivered # "claimed"

RowsSound == \A i \in Intent : Exists(i) => Sound(log[i])

SnapshotsHold ==
    \A run \in Run :
        /\ at[run] \subseteq todo[run]
        /\ \A i \in todo[run] : Exists(i) /\ WasDue(log[i])

LedgerInv == LedgerTypes /\ RowsSound /\ SnapshotsHold

\* What a step may do to a row: nothing, record it, settle it, publish it.
RowStep(i) ==
    \/ log' = log
    \/ \E posted \in Posted : ~Exists(i) /\ log' = [log EXCEPT ![i] =
          [direction |-> posted.direction, tx |-> posted.tx,
           delivered |-> posted.delivered, signer |-> posted.signer,
           reconciled |-> FALSE, disputed |-> FALSE, published |-> FALSE]]
    \/ Exists(i) /\ WasDue(log[i]) /\ log' = [log EXCEPT ![i] = Settled(@)]
    \/ /\ Exists(i) /\ log[i].direction = "withdraw"
       /\ log[i].reconciled /\ ~log[i].published
       /\ log' = [log EXCEPT ![i].published = TRUE]

\* Settling a row that was due, perhaps long ago and by another run already,
\* keeps it a sound row that was due and takes no flag away.
LEMMA SettledIsSound ==
    ASSUME NEW row \in Stored, Sound(row), WasDue(row)
    PROVE  /\ Settled(row) \in Stored
           /\ Sound(Settled(row))
           /\ WasDue(Settled(row))
<1>1. CASE Source[row.tx] = row.signer
  <2>1. Settled(row) = [row EXCEPT !.delivered = "witnessed", !.reconciled = TRUE]
    BY <1>1 DEF Settled
  <2> QED
    BY <1>1, <2>1 DEF Stored, Sound, WasDue
<1>2. CASE Source[row.tx] # row.signer
  <2>1. Settled(row) = [row EXCEPT !.disputed = TRUE]
    BY <1>2 DEF Settled
  <2> QED
    BY <1>2, <2>1 DEF Stored, Sound, WasDue
<1> QED
  BY <1>1, <1>2

\* Publishing a reconciled row keeps it sound.
LEMMA PublishedIsSound ==
    ASSUME NEW row \in Stored, Sound(row), row.reconciled
    PROVE  /\ [row EXCEPT !.published = TRUE] \in Stored
           /\ Sound([row EXCEPT !.published = TRUE])
           /\ WasDue(row) => WasDue([row EXCEPT !.published = TRUE])
BY DEF Stored, Sound, WasDue

\* A row fresh from a client is sound.
LEMMA PostedIsSound ==
    ASSUME NEW posted \in Posted, NEW row,
           row = [direction |-> posted.direction, tx |-> posted.tx,
                  delivered |-> posted.delivered, signer |-> posted.signer,
                  reconciled |-> FALSE, disputed |-> FALSE, published |-> FALSE]
    PROVE  row \in Stored /\ Sound(row)
BY DEF Posted, Stored, Sound

\* Every step is a step of at most one row.
LEMMA NextIsRowStep ==
    ASSUME LedgerInv, Next
    PROVE  log' = log \/ \E i \in Intent : RowStep(i)
<1> USE DEF RowStep
<1>1. ASSUME NEW i \in Intent, NEW posted \in Posted, Record(i, posted)
      PROVE  RowStep(i)
  BY <1>1 DEF Record, MayInsert
<1>2. ASSUME NEW run \in Run, NEW i \in Intent, Settle(run, i) \/ RowFails(run, i)
      PROVE  RowStep(i)
  <2>1. i \in todo[run] => Exists(i) /\ WasDue(log[i])
    BY DEF LedgerInv, SnapshotsHold
  <2>2. i \in todo[run]
    BY <1>2 DEF Settle, RowFails, LedgerInv, SnapshotsHold
  <2> QED
    BY <1>2, <2>1, <2>2 DEF Settle, RowFails
<1>3. ASSUME NEW i \in Intent, Publish(i)
      PROVE  RowStep(i)
  BY <1>3 DEF Publish
<1>4. ASSUME NEW run \in Run, Scan(run) \/ KillRun(run)
      PROVE  log' = log
  BY <1>4 DEF Scan, KillRun
<1>5. ASSUME NEW run \in Run, NEW i \in Intent, Lookup(run, i)
      PROVE  log' = log
  BY <1>5 DEF Lookup
<1>6. ASSUME NEW i \in Intent, NEW by \in Account, FileDispute(i, by)
      PROVE  log' = log
  BY <1>6 DEF FileDispute
<1>7. ASSUME NEW k \in 1..MaxDisputes, NEW verdict \in {"accepted", "rejected"},
             Resolve(k, verdict)
      PROVE  log' = log
  BY <1>7 DEF Resolve
<1> QED
  BY <1>1, <1>2, <1>3, <1>4, <1>5, <1>6, <1>7 DEF Next, Handle

\* A row step keeps every row of its type and sound, and what was due once.
LEMMA RowStepKeepsRows ==
    ASSUME LedgerInv, NEW i \in Intent, RowStep(i)
    PROVE  /\ log' \in [Intent -> Stored \cup {Absent}]
           /\ RowsSound'
           /\ \A j \in Intent : Exists(j) /\ WasDue(log[j]) =>
                  log'[j] # Absent /\ WasDue(log'[j])
<1> USE DEF LedgerInv, LedgerTypes
<1>1. \A j \in Intent : Exists(j) => log[j] \in Stored /\ Sound(log[j])
  BY DEF Exists, RowsSound
<1>2. \A row \in Stored : row # Absent
  BY LedgerAssumption
<1>3. CASE log' = log
  BY <1>3 DEF RowsSound, Exists
<1>4. ASSUME NEW row \in Stored, Sound(row), log' = [log EXCEPT ![i] = row],
             Exists(i) /\ WasDue(log[i]) => WasDue(row)
      PROVE  /\ log' \in [Intent -> Stored \cup {Absent}]
             /\ RowsSound'
             /\ \A j \in Intent : Exists(j) /\ WasDue(log[j]) =>
                    log'[j] # Absent /\ WasDue(log'[j])
  <2>1. \A j \in Intent : log'[j] = IF j = i THEN row ELSE log[j]
    BY <1>4
  <2>2. RowsSound'
    <3>1. ASSUME NEW j \in Intent, log'[j] # Absent
          PROVE  Sound(log'[j])
      <4>1. CASE j = i
        BY <4>1, <2>1, <1>4
      <4>2. CASE j # i
        BY <4>2, <3>1, <2>1, <1>1 DEF Exists
      <4> QED
        BY <4>1, <4>2
    <3> QED
      BY <3>1 DEF RowsSound, Exists, Sound
  <2>3. ASSUME NEW j \in Intent, Exists(j), WasDue(log[j])
        PROVE  log'[j] # Absent /\ WasDue(log'[j])
    <3>1. CASE j = i
      BY <3>1, <2>1, <2>3, <1>2, <1>4
    <3>2. CASE j # i
      BY <3>2, <2>1, <2>3 DEF Exists
    <3> QED
      BY <3>1, <3>2
  <2> QED
    BY <1>4, <2>2, <2>3
<1>5. CASE \E posted \in Posted : ~Exists(i) /\ log' = [log EXCEPT ![i] =
          [direction |-> posted.direction, tx |-> posted.tx,
           delivered |-> posted.delivered, signer |-> posted.signer,
           reconciled |-> FALSE, disputed |-> FALSE, published |-> FALSE]]
  BY <1>5, <1>4, PostedIsSound
<1>6. CASE Exists(i) /\ WasDue(log[i]) /\ log' = [log EXCEPT ![i] = Settled(@)]
  BY <1>6, <1>1, <1>4, SettledIsSound
<1>7. CASE /\ Exists(i) /\ log[i].direction = "withdraw"
           /\ log[i].reconciled /\ ~log[i].published
           /\ log' = [log EXCEPT ![i].published = TRUE]
  <2>1. log' = [log EXCEPT ![i] = [log[i] EXCEPT !.published = TRUE]]
    BY <1>7
  <2> QED
    BY <1>7, <2>1, <1>1, <1>4, PublishedIsSound
<1> QED
  BY <1>3, <1>5, <1>6, <1>7 DEF RowStep

\* A run's snapshot only shrinks, or is read afresh from rows that are due.
LEMMA SnapshotStep ==
    ASSUME LedgerInv, [Next]_vars
    PROVE  /\ todo' \in [Run -> SUBSET Intent]
           /\ at' \in [Run -> SUBSET Intent]
           /\ \A run \in Run :
                  /\ at'[run] \subseteq todo'[run]
                  /\ \A i \in todo'[run] : Exists(i) /\ WasDue(log[i])
<1> USE DEF LedgerInv, LedgerTypes
<1>1. CASE UNCHANGED <<todo, at>>
  BY <1>1 DEF SnapshotsHold
<1>2. ASSUME NEW run \in Run, Scan(run)
      PROVE  /\ todo' \in [Run -> SUBSET Intent]
             /\ at' \in [Run -> SUBSET Intent]
             /\ \A v \in Run : /\ at'[v] \subseteq todo'[v]
                               /\ \A i \in todo'[v] : Exists(i) /\ WasDue(log[i])
  <2>1. todo' = [todo EXCEPT ![run] = {i \in Recorded : Due(log[i])}] /\ at' = at
    BY <1>2 DEF Scan
  <2>2. \A i \in Recorded : i \in Intent /\ Exists(i) /\ (Due(log[i]) => WasDue(log[i]))
    BY DEF Recorded, Due, WasDue
  <2>3. at[run] = {}
    BY <1>2 DEF Scan, SnapshotsHold
  <2> QED
    BY <2>1, <2>2, <2>3 DEF SnapshotsHold
<1>3. ASSUME NEW run \in Run, NEW t \in SUBSET todo[run], NEW a \in SUBSET t,
             todo' = [todo EXCEPT ![run] = t], at' = [at EXCEPT ![run] = a]
      PROVE  /\ todo' \in [Run -> SUBSET Intent]
             /\ at' \in [Run -> SUBSET Intent]
             /\ \A v \in Run : /\ at'[v] \subseteq todo'[v]
                               /\ \A i \in todo'[v] : Exists(i) /\ WasDue(log[i])
  BY <1>3 DEF SnapshotsHold
<1>4. ASSUME NEW run \in Run, KillRun(run)
      PROVE  todo' = [todo EXCEPT ![run] = {}] /\ at' = [at EXCEPT ![run] = {}]
  BY <1>4 DEF KillRun
<1>5. ASSUME NEW run \in Run, NEW i \in Intent, Lookup(run, i) \/ Settle(run, i) \/ RowFails(run, i)
      PROVE  \/ Leave(run, i)
             \/ /\ i \in todo[run]
                /\ todo' = [todo EXCEPT ![run] = todo[run]] /\ at' = [at EXCEPT ![run] = {i}]
  BY <1>5 DEF Lookup, Settle, RowFails
<1>6. ASSUME NEW run \in Run, NEW i \in Intent, Leave(run, i)
      PROVE  todo' = [todo EXCEPT ![run] = todo[run] \ {i}] /\ at' = [at EXCEPT ![run] = {}]
  BY <1>6 DEF Leave
<1>7. ASSUME NEW i \in Intent, NEW posted \in Posted, Record(i, posted)
      PROVE  UNCHANGED <<todo, at>>
  BY <1>7 DEF Record
<1>8. ASSUME NEW i \in Intent, Publish(i)
      PROVE  UNCHANGED <<todo, at>>
  BY <1>8 DEF Publish
<1>9. ASSUME NEW i \in Intent, NEW by \in Account, FileDispute(i, by)
      PROVE  UNCHANGED <<todo, at>>
  BY <1>9 DEF FileDispute
<1>10. ASSUME NEW k \in 1..MaxDisputes, NEW verdict \in {"accepted", "rejected"},
              Resolve(k, verdict)
       PROVE  UNCHANGED <<todo, at>>
  BY <1>10 DEF Resolve
<1>11. CASE \E run \in Run : KillRun(run)
  BY <1>11, <1>3, <1>4
<1>12. CASE \E run \in Run, i \in Intent : Handle(run, i) \/ RowFails(run, i)
  <2>1. PICK run \in Run, i \in Intent : Lookup(run, i) \/ Settle(run, i) \/ RowFails(run, i)
    BY <1>12 DEF Handle
  <2>2. PICK t \in SUBSET todo[run], a \in SUBSET todo[run] :
            /\ a \subseteq t
            /\ todo' = [todo EXCEPT ![run] = t]
            /\ at' = [at EXCEPT ![run] = a]
    BY <2>1, <1>5, <1>6
  <2> QED
    BY <2>2, <1>3
<1>13. CASE UNCHANGED vars
  BY <1>13, <1>1 DEF vars
<1> QED
  BY <1>1, <1>2, <1>7, <1>8, <1>9, <1>10, <1>11, <1>12, <1>13 DEF Next

\* The invariant is inductive.
LEMMA NextKeepsLedger == LedgerInv /\ [Next]_vars => LedgerInv'
<1> SUFFICES ASSUME LedgerInv, [Next]_vars
             PROVE  LedgerInv'
  OBVIOUS
<1>1. /\ log' \in [Intent -> Stored \cup {Absent}]
      /\ RowsSound'
      /\ \A j \in Intent : Exists(j) /\ WasDue(log[j]) =>
             log'[j] # Absent /\ WasDue(log'[j])
  <2>1. CASE log' = log
    BY <2>1 DEF LedgerInv, LedgerTypes, RowsSound, Exists
  <2>2. CASE \E i \in Intent : RowStep(i)
    BY <2>2, RowStepKeepsRows
  <2>3. CASE UNCHANGED vars
    BY <2>1, <2>3 DEF vars
  <2> QED
    BY <2>1, <2>2, <2>3, NextIsRowStep
<1>2. LedgerTypes'
  BY <1>1, SnapshotStep DEF LedgerTypes
<1>3. SnapshotsHold'
  <2>1. ASSUME NEW run \in Run
        PROVE  /\ at'[run] \subseteq todo'[run]
               /\ \A i \in todo'[run] : log'[i] # Absent /\ WasDue(log'[i])
    <3>1. \A i \in todo'[run] : i \in Intent /\ Exists(i) /\ WasDue(log[i])
      BY SnapshotStep
    <3> QED
      BY <1>1, <3>1, SnapshotStep
  <2> QED
    BY <2>1 DEF SnapshotsHold, Exists, WasDue
<1> QED
  BY <1>1, <1>2, <1>3 DEF LedgerInv

\* The inductive invariant of the table and the runs.
THEOREM LedgerInvariant == Spec => []LedgerInv
<1>1. Init => LedgerInv
  BY DEF Init, LedgerInv, LedgerTypes, RowsSound, SnapshotsHold, Exists
<1> QED
  BY <1>1, NextKeepsLedger, PTL DEF Spec

\* What is published was delivered on the ledger by the account that signed it,
\* and is never a client's claim.
THEOREM PublishedIsWitnessedHolds == Spec => []PublishedIsWitnessed
<1>1. LedgerInv => PublishedIsWitnessed
  <2> SUFFICES ASSUME LedgerInv, NEW i \in Recorded, log[i].published
               PROVE  log[i].delivered = "witnessed" /\ Source[log[i].tx] = log[i].signer
    BY DEF PublishedIsWitnessed
  <2>1. Sound(log[i])
    BY DEF LedgerInv, RowsSound, Recorded
  <2> QED
    BY <2>1 DEF Sound
<1> QED
  BY <1>1, LedgerInvariant, PTL

-----------------------------------------------------------------------------
(* Rows are never rewritten, and follow the promised lifecycle.            *)

\* What later versions of a row keep of it.
Keeps(row, new) ==
    /\ new.direction = row.direction /\ new.tx = row.tx /\ new.signer = row.signer
    /\ row.delivered # "null" => new.delivered = row.delivered
    /\ row.reconciled => new.reconciled
    /\ row.disputed => new.disputed
    /\ row.published => new.published

StageOf(row) ==
    IF row.published THEN "published"
    ELSE IF row.disputed THEN "disputed"
    ELSE IF row.reconciled THEN "reconciled"
    ELSE "recorded"

\* Settling keeps a row or takes it to one of the two stages after "recorded".
LEMMA SettledAdvances ==
    ASSUME NEW row \in Stored, Sound(row), WasDue(row)
    PROVE  /\ Keeps(row, Settled(row))
           /\ \/ StageOf(Settled(row)) = StageOf(row)
              \/ <<StageOf(row), StageOf(Settled(row))>> \in Lifecycle!Edges
<1>1. CASE Source[row.tx] = row.signer
  <2>1. Settled(row) = [row EXCEPT !.delivered = "witnessed", !.reconciled = TRUE]
    BY <1>1 DEF Settled
  <2> QED
    BY <1>1, <2>1 DEF Stored, Sound, WasDue, Keeps, StageOf, Lifecycle!Edges
<1>2. CASE Source[row.tx] # row.signer
  <2>1. Settled(row) = [row EXCEPT !.disputed = TRUE]
    BY <1>2 DEF Settled
  <2> QED
    BY <1>2, <2>1 DEF Stored, Sound, WasDue, Keeps, StageOf, Lifecycle!Edges
<1> QED
  BY <1>1, <1>2

\* Publishing takes a row from "reconciled" to "published".
LEMMA PublishAdvances ==
    ASSUME NEW row \in Stored, Sound(row), row.reconciled, ~row.published
    PROVE  /\ Keeps(row, [row EXCEPT !.published = TRUE])
           /\ <<StageOf(row), StageOf([row EXCEPT !.published = TRUE])>> \in Lifecycle!Edges
BY DEF Stored, Sound, Keeps, StageOf, Lifecycle!Edges

\* A step changes at most one row: it records it, or keeps it and takes it along
\* an edge of the lifecycle if its stage changes at all.
LEMMA NextAdvances ==
    ASSUME LedgerInv, Next
    PROVE  \/ log' = log
           \/ \E i \in Intent, new \in Stored :
                 /\ log' = [log EXCEPT ![i] = new]
                 /\ \/ ~Exists(i) /\ StageOf(new) = "recorded"
                    \/ /\ Exists(i) /\ Keeps(log[i], new)
                       /\ \/ StageOf(new) = StageOf(log[i])
                          \/ <<StageOf(log[i]), StageOf(new)>> \in Lifecycle!Edges
<1> USE DEF LedgerInv, LedgerTypes
<1>1. \A j \in Intent : Exists(j) => log[j] \in Stored /\ Sound(log[j])
  BY DEF Exists, RowsSound
<1>2. CASE log' = log
  BY <1>2
<1>3. ASSUME NEW i \in Intent, RowStep(i), log' # log
      PROVE  \E new \in Stored :
                 /\ log' = [log EXCEPT ![i] = new]
                 /\ \/ ~Exists(i) /\ StageOf(new) = "recorded"
                    \/ /\ Exists(i) /\ Keeps(log[i], new)
                       /\ \/ StageOf(new) = StageOf(log[i])
                          \/ <<StageOf(log[i]), StageOf(new)>> \in Lifecycle!Edges
  <2>1. CASE \E posted \in Posted : ~Exists(i) /\ log' = [log EXCEPT ![i] =
          [direction |-> posted.direction, tx |-> posted.tx,
           delivered |-> posted.delivered, signer |-> posted.signer,
           reconciled |-> FALSE, disputed |-> FALSE, published |-> FALSE]]
    <3>1. PICK posted \in Posted : ~Exists(i) /\ log' = [log EXCEPT ![i] =
            [direction |-> posted.direction, tx |-> posted.tx,
             delivered |-> posted.delivered, signer |-> posted.signer,
             reconciled |-> FALSE, disputed |-> FALSE, published |-> FALSE]]
      BY <2>1
    <3> DEFINE new == [direction |-> posted.direction, tx |-> posted.tx,
                       delivered |-> posted.delivered, signer |-> posted.signer,
                       reconciled |-> FALSE, disputed |-> FALSE, published |-> FALSE]
    <3>2. new \in Stored
      BY PostedIsSound
    <3>3. StageOf(new) = "recorded"
      BY DEF StageOf
    <3> HIDE DEF new
    <3> QED
      BY <3>1, <3>2, <3>3 DEF new
  <2>2. CASE Exists(i) /\ WasDue(log[i]) /\ log' = [log EXCEPT ![i] = Settled(@)]
    BY <2>2, <1>1, SettledIsSound, SettledAdvances
  <2>3. CASE /\ Exists(i) /\ log[i].direction = "withdraw"
             /\ log[i].reconciled /\ ~log[i].published
             /\ log' = [log EXCEPT ![i].published = TRUE]
    <3>1. log' = [log EXCEPT ![i] = [log[i] EXCEPT !.published = TRUE]]
      BY <2>3
    <3> QED
      BY <2>3, <3>1, <1>1, PublishedIsSound, PublishAdvances
  <2> QED
    BY <1>3, <2>1, <2>2, <2>3 DEF RowStep
<1> QED
  BY <1>2, <1>3, NextIsRowStep

\* No post, run, tick or dispute ever rewrites what a row says or takes back what
\* became of it.
THEOREM RowsAreNeverRewrittenHolds == Spec => RowsAreNeverRewritten
<1> DEFINE Kept ==
      \A i \in Recorded :
          /\ log'[i] # Absent
          /\ \A f \in {"direction", "tx", "signer"} : log'[i][f] = log[i][f]
          /\ log[i].delivered # "null" => log'[i].delivered = log[i].delivered
          /\ \A f \in {"reconciled", "disputed", "published"} : log[i][f] => log'[i][f]
<1>1. LedgerInv /\ [Next]_vars => [Kept]_vars
  <2> SUFFICES ASSUME LedgerInv, Next
               PROVE  Kept
    OBVIOUS
  <2>1. CASE log' = log
    BY <2>1 DEF Recorded, Exists
  <2>2. ASSUME NEW i \in Intent, NEW new \in Stored,
               log' = [log EXCEPT ![i] = new], Exists(i) => Keeps(log[i], new)
        PROVE  Kept
    <3>1. ASSUME NEW j \in Recorded
          PROVE  log'[j] # Absent /\ Keeps(log[j], log'[j])
      <4>1. j \in Intent /\ Exists(j) /\ log \in [Intent -> Stored \cup {Absent}]
        BY DEF Recorded, LedgerInv, LedgerTypes
      <4>2. CASE j = i
        BY <2>2, <4>1, <4>2, LedgerAssumption
      <4>3. CASE j # i
        BY <2>2, <4>1, <4>3 DEF Exists, Keeps
      <4> QED
        BY <4>2, <4>3
    <3> QED
      BY <3>1 DEF Keeps
  <2> QED
    BY <2>1, <2>2, NextAdvances
<1> QED
  BY <1>1, LedgerInvariant, PTL DEF RowsAreNeverRewritten, Spec

\* The table and its writers implement the lifecycle: whatever overlaps, a row is
\* recorded, then reconciled or disputed, and only reconciled rows are published.
THEOREM LedgerRefinesLifecycle == Spec => RefinesLifecycle
<1> DEFINE stages == [i \in Intent |-> Stage(i)]
<1>1. Init => Lifecycle!Init
  BY DEF Init, Lifecycle!Init, Stage, Exists
<1>2. LedgerInv /\ [Next]_vars => [Lifecycle!Next]_stages
  <2> SUFFICES ASSUME LedgerInv, [Next]_vars
               PROVE  Lifecycle!Next \/ stages' = stages
    OBVIOUS
  <2>0. \A i \in Intent : Stage(i) = IF ~Exists(i) THEN "absent" ELSE StageOf(log[i])
    BY DEF Stage, StageOf
  <2>1. CASE log' = log
    BY <2>1 DEF Stage, Exists
  <2>2. ASSUME NEW i \in Intent, NEW new \in Stored, log' = [log EXCEPT ![i] = new],
               \/ StageOf(new) = Stage(i)
               \/ <<Stage(i), StageOf(new)>> \in Lifecycle!Edges
        PROVE  Lifecycle!Next \/ stages' = stages
    <3>1. stages' = [stages EXCEPT ![i] = StageOf(new)]
      <4>1. new # Absent
        BY LedgerAssumption
      <4>2. \A j \in Intent : Stage(j)' = IF j = i THEN StageOf(new) ELSE Stage(j)
        BY <2>2, <4>1 DEF LedgerInv, LedgerTypes, Stage, StageOf, Exists
      <4> QED
        BY <4>2
    <3>2. CASE StageOf(new) = Stage(i)
      BY <3>1, <3>2
    <3>3. CASE <<Stage(i), StageOf(new)>> \in Lifecycle!Edges
      BY <3>1, <3>3 DEF Lifecycle!Next, Lifecycle!Advance
    <3> QED
      BY <2>2, <3>2, <3>3
  <2>3. CASE UNCHANGED vars
    BY <2>1, <2>3 DEF vars
  <2>4. <<"absent", "recorded">> \in Lifecycle!Edges
    BY DEF Lifecycle!Edges
  <2> QED
    BY <2>0, <2>1, <2>2, <2>3, <2>4, NextAdvances
<1> QED
  BY <1>1, <1>2, LedgerInvariant, PTL DEF RefinesLifecycle, Lifecycle!Spec, Spec

=============================================================================
