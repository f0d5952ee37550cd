------------------------- MODULE PublisherTickProofs -------------------------
(***************************************************************************)
(* Proofs about overlapping publisher ticks, for every number of rows and  *)
(* ticks and every run time shorter than the lock.                         *)
(*                                                                         *)
(* LockInv: an invocation's deadline comes before the expiry of the lock,  *)
(* so whoever finds the lock free finds nobody running.  BatchInv: the     *)
(* rows a tick still holds are distinct and unpublished.                   *)
(***************************************************************************)
EXTENDS PublisherTick, TLAPS, FiniteSetTheorems

Labels == {"idle", "fetch", "submit", "volume", "mark", "release"}
Writing == {"submit", "volume", "mark"}

LockTypes ==
    /\ pc \in [Tick -> Labels]
    /\ timeLeft \in [Tick -> Nat]
    /\ lockLeft \in Nat

Deadline == \A w \in Tick : Running(w) => timeLeft[w] < lockLeft

LockInv == LockTypes /\ Deadline /\ OneTickAtATime

\* Steps between a tick's acquiring and releasing leave lock and clock alone.
InnerStep(w) ==
    \/ Fetch(w) \/ FetchFails(w)
    \/ SubmitConfirmed(w) \/ SubmitRefused(w)
    \/ VolumeAnswered(w) \/ VolumeRefused(w) \/ WriteFails(w)
    \/ Mark(w) \/ MarkFails(w)

\* What an inner step does to lock and clock.
LEMMA InnerStepKeepsRunning ==
    ASSUME LockTypes, NEW w \in Tick, InnerStep(w)
    PROVE  /\ Running(w)
           /\ \E label \in Labels \ {"idle"} : pc' = [pc EXCEPT ![w] = label]
           /\ UNCHANGED <<lockLeft, timeLeft>>
<1> USE DEF Running, Labels, Goto, Abort
<1>1. CASE Fetch(w)
  BY <1>1 DEF Fetch
<1>2. CASE FetchFails(w)
  BY <1>2 DEF FetchFails
<1>3. CASE SubmitConfirmed(w)
  <2>1. AfterSubmit(Current(w)) \in Labels \ {"idle"}
    BY DEF AfterSubmit
  <2> QED
    BY <1>3, <2>1 DEF SubmitConfirmed
<1>4. CASE SubmitRefused(w)
  BY <1>4 DEF SubmitRefused
<1>5. CASE VolumeAnswered(w)
  BY <1>5 DEF VolumeAnswered
<1>6. CASE WriteFails(w)
  <2>1. UNCHANGED pc \/ pc' = [pc EXCEPT ![w] = "release"]
    BY <1>6 DEF WriteFails
  <2>2. Running(w) /\ UNCHANGED <<lockLeft, timeLeft>>
    BY <1>6 DEF WriteFails
  <2>3. pc = [pc EXCEPT ![w] = pc[w]] /\ pc[w] \in Labels \ {"idle"}
    BY <2>2 DEF LockTypes
  <2> QED
    BY <2>1, <2>2, <2>3
<1>7. CASE Mark(w)
  BY <1>7 DEF Mark
<1>8. CASE MarkFails(w)
  BY <1>8 DEF MarkFails
<1>9. CASE VolumeRefused(w)
  BY <1>9 DEF VolumeRefused
<1> QED
  BY <1>1, <1>2, <1>3, <1>4, <1>5, <1>6, <1>7, <1>8, <1>9 DEF InnerStep

\* Nobody runs while the lock is free, and the releaser is the only one running.
LEMMA NextKeepsLock == LockInv /\ [Next]_vars => LockInv'
<1> SUFFICES ASSUME LockInv, [Next]_vars
             PROVE  LockInv'
  OBVIOUS
<1> USE TickAssumption DEF LockInv, LockTypes, Deadline, OneTickAtATime, Running
<1>0. CASE UNCHANGED <<lockLeft, pc, timeLeft>>
  BY <1>0
<1>1. CASE \E r \in Row, started \in 1..MaxStamp : Reconcile(r, started)
  BY <1>1, <1>0 DEF Reconcile, runVars
<1>2. CASE CoverageMet \/ CoverageLapses
  BY <1>2, <1>0 DEF CoverageMet, CoverageLapses, runVars
<1>3. CASE TimePasses
  BY <1>3 DEF TimePasses
<1>4. ASSUME NEW w \in Tick, Acquire(w)
      PROVE  LockInv'
  <2>1. \A v \in Tick : ~Running(v)
    BY <1>4 DEF Acquire, Free
  <2> QED
    BY <1>4, <2>1 DEF Acquire, Goto, Labels
<1>5. ASSUME NEW w \in Tick, InnerStep(w)
      PROVE  LockInv'
  <2>1. PICK label \in Labels \ {"idle"} : pc' = [pc EXCEPT ![w] = label]
    BY <1>5, InnerStepKeepsRunning
  <2>2. pc[w] # "idle" /\ UNCHANGED <<lockLeft, timeLeft>>
    BY <1>5, InnerStepKeepsRunning
  <2>3. \A v \in Tick : pc'[v] # "idle" => pc[v] # "idle"
    BY <2>1, <2>2
  <2> QED
    BY <2>1, <2>2, <2>3
<1>6. ASSUME NEW w \in Tick, Release(w) \/ Kill(w)
      PROVE  LockInv'
  <2>1. /\ Running(w)
        /\ pc' = [pc EXCEPT ![w] = "idle"]
        /\ timeLeft' = [timeLeft EXCEPT ![w] = 0]
        /\ lockLeft' \in {0, lockLeft}
    BY <1>6 DEF Release, Kill, Stop, Goto
  <2>2. \A v \in Tick : pc'[v] = "idle"
    BY <2>1
  <2> QED
    BY <2>1, <2>2 DEF Labels
<1>7. CASE UNCHANGED vars
  BY <1>7, <1>0 DEF vars, runVars
<1> QED
  BY <1>1, <1>2, <1>3, <1>4, <1>5, <1>6, <1>7 DEF Next, TickStep, InnerStep

\* No tick runs in an initial state.
LEMMA InitLock == Init => LockInv
BY TickAssumption DEF Init, LockInv, LockTypes, Deadline, OneTickAtATime, Running, Labels

\* The lock outlives the tick that took it: whoever runs has less time left than the
\* lock has, and is alone.
THEOREM LockInvariant == Spec => []LockInv
BY InitLock, NextKeepsLock, PTL DEF Spec

\* Two invocations of the tick route are never at work at once.
THEOREM OneTickAtATimeHolds == Spec => []OneTickAtATime
<1>1. LockInv => OneTickAtATime
  BY DEF LockInv
<1> QED
  BY <1>1, LockInvariant, PTL

-----------------------------------------------------------------------------
(* What a tick holds and what the ledger carries.                          *)

BatchTypes ==
    /\ batch \in [Tick -> Seq(Row)]
    /\ sent \in [Tick -> Nat]
    /\ oracleTx \in [Row -> Nat]
    /\ chain \in Seq(Write)

Held(w) == {batch[w][i] : i \in 1..Len(batch[w])}
Distinct(b) == \A i, j \in 1..Len(b) : b[i] = b[j] => i = j

\* A tick that is not writing holds nothing; what it holds is still unpublished.
HeldInv ==
    \A w \in Tick :
        /\ pc[w] \in Writing <=> batch[w] # <<>>
        /\ Distinct(batch[w])
        /\ \A r \in Held(w) : oracleTx[r] = 0

\* A confirmed row is on the ledger where its tick says it is, save an unaddable one,
\* which may not be recorded and never gets to be marked.
SentIs(label, s, r, copies) ==
    label \in {"volume", "mark"} =>
        IF r \in Unaddable THEN label = "volume" ELSE s \in copies
SentInv == \A w \in Tick : SentIs(pc[w], sent[w], Current(w), Copies(Current(w)))

BatchInv == BatchTypes /\ HeldInv /\ SentInv /\ StampedWithOwnTx

\* The ledger only grows, by a write of a row some tick has at hand.
Grows == chain' = chain \/ \E x \in Write : chain' = Append(chain, x)

\* Copies of r after a write lands: its position joins if it is an outcome of r.
LEMMA CopiesAfterAppend ==
    ASSUME chain \in Seq(Write), NEW x \in Write, chain' = Append(chain, x), NEW r \in Row
    PROVE  /\ chain' \in Seq(Write)
           /\ Copies(r) \subseteq Copies(r)'
           /\ x = [kind |-> "outcome", row |-> r] => Len(chain) + 1 \in Copies(r)'
           /\ x # [kind |-> "outcome", row |-> r] => Copies(r)' = Copies(r)
<1>1. /\ Len(chain') = Len(chain) + 1
      /\ Len(chain) \in Nat
      /\ \A i \in 1..Len(chain) : chain'[i] = chain[i]
      /\ chain'[Len(chain) + 1] = x
  OBVIOUS
<1>2. Copies(r)' = {i \in 1..Len(chain') : chain'[i] = [kind |-> "outcome", row |-> r]}
  BY DEF Copies
<1> QED
  BY <1>1, <1>2 DEF Copies

\* The ledger stays a sequence of writes.
LEMMA LedgerType ==
    ASSUME chain \in Seq(Write), Grows
    PROVE  chain' \in Seq(Write)
<1>1. \A x \in Write : Append(chain, x) \in Seq(Write)
  OBVIOUS
<1> QED
  BY <1>1 DEF Grows

\* A set of positions that the ledger's growth leaves in place.
LEMMA CopiesKept ==
    ASSUME chain \in Seq(Write), Grows, NEW r \in Row
    PROVE  chain' \in Seq(Write) /\ Copies(r) \subseteq Copies(r)'
<1>1. CASE chain' = chain
  BY <1>1 DEF Copies
<1>2. CASE \E x \in Write : chain' = Append(chain, x)
  BY <1>2, CopiesAfterAppend
<1> QED
  BY <1>1, <1>2 DEF Grows

\* A batch read from the table: distinct rows, none of them published.
LEMMA BatchesAreFresh ==
    ASSUME BatchTypes, NEW b \in PendingBatches
    PROVE  /\ b \in Seq(Row)
           /\ Distinct(b)
           /\ \A i \in 1..Len(b) : oracleTx[b[i]] = 0
<1> DEFINE size == IF Cardinality(Pending) < BatchSize THEN Cardinality(Pending) ELSE BatchSize
<1>1. Pending \subseteq Row /\ \A r \in Pending : oracleTx[r] = 0
  BY DEF Pending
<1>2. IsFiniteSet(Pending) /\ Cardinality(Pending) \in Nat
  BY <1>1, TickAssumption, FS_Subset, FS_CardinalityType
<1>3. size \in Nat
  BY <1>2, TickAssumption
<1>4. /\ b \in [1..size -> Pending]
      /\ \A i, j \in 1..size : i < j => b[i] # b[j]
  BY DEF PendingBatches
<1> HIDE DEF size
<1>5. b \in Seq(Pending) /\ Len(b) = size
  BY <1>3, <1>4
<1> QED
  BY <1>1, <1>3, <1>4, <1>5 DEF Distinct

\* A step of w leaves every other tick idle and empty-handed, so what it must
\* establish is about w, the rows and the ledger alone.
LEMMA StepOfOne ==
    ASSUME LockTypes, BatchInv, NEW w \in Tick,
           \A v \in Tick : v # w => ~Running(v),
           Grows,
           NEW l \in Labels, pc' = [pc EXCEPT ![w] = l],
           NEW b \in Seq(Row), batch' = [batch EXCEPT ![w] = b],
           NEW s \in Nat, sent' = [sent EXCEPT ![w] = s],
           \/ oracleTx' = oracleTx
           \/ pc[w] = "mark" /\ oracleTx' = [oracleTx EXCEPT ![Current(w)] = RowTx(w)],
           l \in Writing <=> b # <<>>,
           Distinct(b),
           \A i \in 1..Len(b) : oracleTx'[b[i]] = 0,
           SentIs(l, s, Head(b), Copies(Head(b))')
    PROVE  BatchInv'
<1> USE DEF BatchInv, BatchTypes, LockTypes
<1>1. pc[w] = "mark" => /\ Current(w) \in Row
                        /\ RowTx(w) \in Nat
                        /\ RowTx(w) \in Copies(Current(w))
  BY DEF HeldInv, SentInv, SentIs, Writing, Current, RowTx
<1>2. BatchTypes'
  BY <1>1, LedgerType
<1>3. \A v \in Tick : v # w => batch'[v] = <<>> /\ pc'[v] \notin Writing
  BY DEF HeldInv, Running, Writing
<1>4. batch'[w] = b /\ pc'[w] = l /\ sent'[w] = s
  OBVIOUS
<1>5. HeldInv'
  <2>1. ASSUME NEW v \in Tick
        PROVE  /\ pc'[v] \in Writing <=> batch'[v] # <<>>
               /\ Distinct(batch'[v])
               /\ \A i \in 1..Len(batch'[v]) : oracleTx'[batch'[v][i]] = 0
    <3>1. CASE v = w
      BY <3>1, <1>4
    <3>2. CASE v # w
      BY <3>2, <1>3 DEF Distinct
    <3> QED
      BY <3>1, <3>2
  <2>2. ASSUME NEW v \in Tick, NEW r \in Held(v)' PROVE oracleTx'[r] = 0
    <3>1. PICK i \in 1..Len(batch'[v]) : r = batch'[v][i]
      BY DEF Held
    <3>2. \A j \in 1..Len(batch'[v]) : oracleTx'[batch'[v][j]] = 0
      BY <2>1
    <3> QED BY <3>1, <3>2
  <2> QED
    BY <2>1, <2>2 DEF HeldInv
<1>6. SentInv'
  <2>1. ASSUME NEW v \in Tick, pc'[v] \in {"volume", "mark"}
        PROVE  SentIs(pc'[v], sent'[v], Head(batch'[v]), Copies(Head(batch[v]))')
    <3>1. v = w
      BY <2>1, <1>3 DEF Writing
    <3> QED
      BY <3>1, <2>1, <1>4
  <2>2. ASSUME NEW v \in Tick
        PROVE  SentIs(pc'[v], sent'[v], Head(batch'[v]), Copies(Head(batch[v]))')
    BY <2>1 DEF SentIs
  <2> QED
    BY <2>2 DEF SentInv, Current
<1>7. StampedWithOwnTx'
  <2>1. ASSUME NEW r \in Row, oracleTx'[r] # 0
        PROVE  oracleTx'[r] \in Copies(r)
    BY <2>1, <1>1 DEF StampedWithOwnTx
  <2> QED
    BY <2>1, CopiesKept DEF StampedWithOwnTx
<1> QED
  BY <1>2, <1>5, <1>6, <1>7

\* A step that moves no tick and marks no row keeps the batches.
LEMMA LedgerStep ==
    ASSUME BatchInv, UNCHANGED <<pc, batch, sent, oracleTx>>, Grows
    PROVE  BatchInv'
<1> USE DEF BatchInv, BatchTypes
<1>1. BatchTypes' /\ HeldInv'
  <2>1. BatchTypes'
    BY LedgerType
  <2>2. HeldInv'
    BY DEF HeldInv, Held, Distinct, Writing
  <2> QED
    BY <2>1, <2>2
<1>2. \A w \in Tick : pc[w] \in {"volume", "mark"} => Current(w) \in Row
  BY DEF HeldInv, Writing, Current
<1>3. SentInv'
  <2>1. ASSUME NEW w \in Tick
        PROVE  SentIs(pc[w], sent[w], Head(batch[w]), Copies(Head(batch[w]))')
    <3>1. CASE pc[w] \in {"volume", "mark"}
      <4>1. Copies(Current(w)) \subseteq Copies(Current(w))'
        <5>1. PICK r \in Row : r = Current(w)
          BY <1>2, <3>1
        <5>2. Current(w)' = r
          BY <5>1 DEF Current
        <5>3. Copies(r) \subseteq Copies(r)'
          BY CopiesKept
        <5>4. Copies(Current(w))' = Copies(r)'
          BY <5>2 DEF Copies
        <5> QED
          BY <5>1, <5>3, <5>4
      <4>2. SentIs(pc[w], sent[w], Current(w), Copies(Current(w)))
        BY DEF SentInv
      <4> QED
        BY <4>1, <4>2 DEF SentIs, Current
    <3>2. CASE pc[w] \notin {"volume", "mark"}
      BY <3>2 DEF SentIs
    <3> QED
      BY <3>1, <3>2
  <2> QED
    BY <2>1 DEF SentInv, Current
<1>4. StampedWithOwnTx'
  BY CopiesKept DEF StampedWithOwnTx
<1> QED
  BY <1>1, <1>3, <1>4

\* A step at whose end w holds nothing.
LEMMA StepToRest ==
    ASSUME LockTypes, BatchInv, NEW w \in Tick,
           \A v \in Tick : v # w => ~Running(v),
           Grows,
           NEW l \in Labels \ Writing, pc' = [pc EXCEPT ![w] = l],
           batch' = [batch EXCEPT ![w] = <<>>],
           sent' = sent \/ sent' = [sent EXCEPT ![w] = 0],
           \/ oracleTx' = oracleTx
           \/ pc[w] = "mark" /\ oracleTx' = [oracleTx EXCEPT ![Current(w)] = RowTx(w)]
    PROVE  BatchInv'
<1>1. PICK s \in Nat : sent' = [sent EXCEPT ![w] = s]
  <2>1. sent = [sent EXCEPT ![w] = sent[w]] /\ sent[w] \in Nat
    BY DEF BatchInv, BatchTypes
  <2> QED
    BY <2>1
<1>2. <<>> \in Seq(Row) /\ Distinct(<<>>) /\ \A i \in 1..Len(<<>>) : oracleTx'[<<>>[i]] = 0
  BY DEF Distinct
<1>3. SentIs(l, s, Head(<<>>), Copies(Head(<<>>))')
  BY DEF Writing, SentIs
<1> QED
  BY <1>1, <1>2, <1>3, StepOfOne

\* What a writing tick has at hand.
LEMMA AtHand ==
    ASSUME BatchInv, NEW w \in Tick, pc[w] \in Writing
    PROVE  /\ batch[w] \in Seq(Row) /\ batch[w] # <<>>
           /\ Distinct(batch[w])
           /\ \A i \in 1..Len(batch[w]) : oracleTx[batch[w][i]] = 0
           /\ Current(w) \in Row
           /\ oracleTx[Current(w)] = 0
           /\ [kind |-> "outcome", row |-> Current(w)] \in Write
           /\ [kind |-> "volume", row |-> Current(w)] \in Write
           /\ batch = [batch EXCEPT ![w] = batch[w]]
<1>1. /\ batch[w] \in Seq(Row) /\ batch[w] # <<>>
      /\ Distinct(batch[w])
      /\ \A i \in 1..Len(batch[w]) : oracleTx[batch[w][i]] = 0
      /\ batch = [batch EXCEPT ![w] = batch[w]]
  BY DEF BatchInv, BatchTypes, HeldInv, Held
<1>2. Current(w) = batch[w][1] /\ 1 \in 1..Len(batch[w]) /\ Current(w) \in Row
  BY <1>1 DEF Current
<1> QED
  BY <1>1, <1>2 DEF Write

\* A write of the row at hand is recorded at the end of the ledger, or not at all.
LEMMA LandingGrows ==
    ASSUME BatchInv, NEW w \in Tick, pc[w] \in Writing,
           Landing("outcome", Current(w)) \/ Landing("volume", Current(w))
    PROVE  Grows
BY AtHand DEF Landing, Grows

\* The outcome of a row that is not unaddable is recorded.
LEMMA LandedAtTheEnd ==
    ASSUME chain \in Seq(Write), NEW r \in Row, r \notin Unaddable, Landing("outcome", r)
    PROVE  Len(chain') \in Copies(r)'
<1>1. PICK x \in Write : x = [kind |-> "outcome", row |-> r] /\ chain' = Append(chain, x)
  BY DEF Landing, Unrecorded, Write
<1>2. Len(chain') = Len(chain) + 1
  BY <1>1
<1> QED
  BY <1>1, <1>2, CopiesAfterAppend

\* The rows left after the first one is published are still unpublished.
LEMMA TailStaysFresh ==
    ASSUME NEW b \in Seq(Row), b # <<>>, Distinct(b),
           oracleTx \in [Row -> Nat], NEW x,
           \A i \in 1..Len(b) : oracleTx[b[i]] = 0,
           oracleTx' = [oracleTx EXCEPT ![Head(b)] = x]
    PROVE  /\ Tail(b) \in Seq(Row)
           /\ Distinct(Tail(b))
           /\ \A i \in 1..Len(Tail(b)) : oracleTx'[Tail(b)[i]] = 0
           /\ Len(b) = 1 <=> Tail(b) = <<>>
<1>1. /\ Tail(b) \in Seq(Row)
      /\ Len(Tail(b)) = Len(b) - 1
      /\ \A i \in 1..Len(Tail(b)) : Tail(b)[i] = b[i + 1] /\ i + 1 \in 1..Len(b)
      /\ Head(b) = b[1] /\ 1 \in 1..Len(b)
  OBVIOUS
<1>2. Distinct(Tail(b))
  BY <1>1 DEF Distinct
<1>3. \A i \in 1..Len(Tail(b)) : b[i + 1] # Head(b)
  BY <1>1 DEF Distinct
<1>4. \A i \in 1..Len(Tail(b)) : oracleTx'[Tail(b)[i]] = 0
  BY <1>1, <1>3
<1>5. Len(b) = 1 <=> Tail(b) = <<>>
  BY <1>1
<1> QED
  BY <1>1, <1>2, <1>4, <1>5

\* Every step of a tick keeps what the ticks hold.
LEMMA TickStepKeepsBatch ==
    ASSUME LockInv, BatchInv, NEW w \in Tick, TickStep(w)
    PROVE  BatchInv'
<1> USE DEF Goto
<1>0. LockTypes /\ BatchTypes
  BY DEF LockInv, BatchInv
<1>1. Running(w) => \A v \in Tick : v # w => ~Running(v)
  BY DEF LockInv, OneTickAtATime
<1>2. pc[w] \in Writing => Running(w)
  BY DEF Writing, Running
<1>3. \A l \in Labels : pc = [pc EXCEPT ![w] = l] <=> pc[w] = l
  BY <1>0 DEF LockTypes
<1>4. sent = [sent EXCEPT ![w] = sent[w]] /\ sent[w] \in Nat
  BY <1>0 DEF BatchTypes
<1>5. pc[w] \notin Writing => batch = [batch EXCEPT ![w] = <<>>]
  BY <1>0 DEF BatchInv, BatchTypes, HeldInv
<1>a. CASE Acquire(w)
  <2>1. \A v \in Tick : ~Running(v)
    BY <1>a DEF Acquire, Free, LockInv, LockTypes, Deadline
  <2>2. "fetch" \in Labels \ Writing /\ pc[w] \notin Writing
    BY <1>a DEF Labels, Writing, Acquire
  <2>3. Grows /\ sent' = sent /\ oracleTx' = oracleTx /\ batch' = batch
    BY <1>a DEF Acquire, Grows, dbVars
  <2> QED
    BY <1>0, <1>5, <1>a, <2>1, <2>2, <2>3, StepToRest DEF Acquire
<1>b. CASE Fetch(w)
  <2>1. Running(w) /\ pc[w] \notin Writing
    BY <1>b DEF Fetch, Running, Writing
  <2>2. Grows /\ sent' = sent /\ oracleTx' = oracleTx
    BY <1>b DEF Fetch, Grows, dbVars
  <2>3. CASE batch' = batch /\ pc' = [pc EXCEPT ![w] = "release"]
    <3>1. "release" \in Labels \ Writing
      BY DEF Labels, Writing
    <3> QED
      BY <1>0, <1>1, <1>5, <2>1, <2>2, <2>3, <3>1, StepToRest
  <2>4. ASSUME NEW rows \in PendingBatches, rows # <<>>,
               batch' = [batch EXCEPT ![w] = rows], pc' = [pc EXCEPT ![w] = "submit"]
        PROVE  BatchInv'
    <3>1. /\ rows \in Seq(Row)
          /\ Distinct(rows)
          /\ \A i \in 1..Len(rows) : oracleTx'[rows[i]] = 0
      BY <1>0, <2>2, BatchesAreFresh
    <3>2. "submit" \in Labels /\ "submit" \in Writing
      BY DEF Labels, Writing
    <3>3. SentIs("submit", sent[w], Head(rows), Copies(Head(rows))')
      BY DEF SentIs
    <3> QED
      BY <1>0, <1>1, <1>4, <2>1, <2>2, <2>4, <3>1, <3>2, <3>3, StepOfOne
  <2> QED
    BY <1>b, <2>3, <2>4 DEF Fetch
<1>c. CASE FetchFails(w)
  <2>1. Running(w) /\ pc[w] \notin Writing
    BY <1>c DEF FetchFails, Running, Writing
  <2>2. /\ Grows /\ sent' = sent /\ oracleTx' = oracleTx /\ batch' = batch
        /\ pc' = [pc EXCEPT ![w] = "release"]
    BY <1>c DEF FetchFails, Grows, dbVars
  <2>3. "release" \in Labels \ Writing
    BY DEF Labels, Writing
  <2> QED
    BY <1>0, <1>1, <1>5, <2>1, <2>2, <2>3, StepToRest
<1>d. CASE SubmitConfirmed(w)
  <2>1. pc[w] \in Writing
    BY <1>d DEF SubmitConfirmed, Writing
  <2>2. Landing("outcome", Current(w)) /\ oracleTx' = oracleTx /\ batch' = batch
    BY <1>d DEF SubmitConfirmed, dbVars
  <2>3. Grows
    BY <2>1, <2>2, LandingGrows
  <2>4. PICK n \in Nat : n = Len(chain')
    BY <1>0, <2>3, LedgerType DEF BatchTypes
  <2>5. PICK l \in {"volume", "mark"} : l = AfterSubmit(Current(w))
    BY DEF AfterSubmit
  <2>6. PICK b \in Seq(Row) : b = batch[w]
    BY <2>1, AtHand
  <2>7. /\ pc' = [pc EXCEPT ![w] = l]
        /\ sent' = [sent EXCEPT ![w] = n]
        /\ batch' = [batch EXCEPT ![w] = b]
    BY <1>d, <2>1, <2>2, <2>4, <2>5, <2>6, AtHand DEF SubmitConfirmed
  <2>8. l \in Labels /\ l \in Writing
    BY DEF Labels, Writing
  <2>9. b # <<>> /\ Distinct(b) /\ \A i \in 1..Len(b) : oracleTx'[b[i]] = 0
    BY <2>1, <2>2, <2>6, AtHand
  <2>10. SentIs(l, n, Head(b), Copies(Head(b))')
    <3>1. PICK r \in Row : r = Head(b) /\ r = Current(w)
      BY <2>1, <2>6, AtHand DEF Current
    <3>2. CASE r \in Unaddable
      BY <2>5, <3>1, <3>2, TickAssumption DEF AfterSubmit, SentIs
    <3>3. CASE r \notin Unaddable
      <4>1. n \in Copies(r)'
        BY <1>0, <2>2, <2>4, <3>1, <3>3, LandedAtTheEnd DEF BatchTypes
      <4>2. Copies(Head(b))' = Copies(r)'
        BY <3>1 DEF Copies
      <4> QED
        BY <3>1, <3>3, <4>1, <4>2 DEF SentIs
    <3> QED
      BY <3>2, <3>3
  <2> QED
    BY <1>0, <1>1, <1>2, <2>1, <2>2, <2>3, <2>7, <2>8, <2>9, <2>10, StepOfOne
<1>e. CASE SubmitRefused(w)
  <2>1. pc[w] \in Writing
    BY <1>e DEF SubmitRefused, Writing
  <2>2. /\ Grows /\ oracleTx' = oracleTx
        /\ pc' = [pc EXCEPT ![w] = "release"]
        /\ batch' = [batch EXCEPT ![w] = <<>>]
        /\ sent' = [sent EXCEPT ![w] = 0]
    BY <1>e DEF SubmitRefused, Abort, Grows, dbVars
  <2>3. "release" \in Labels \ Writing
    BY DEF Labels, Writing
  <2> QED
    BY <1>0, <1>1, <1>2, <2>1, <2>2, <2>3, StepToRest
<1>k. CASE VolumeRefused(w)
  <2>1. pc[w] \in Writing
    BY <1>k DEF VolumeRefused, Writing
  <2>2. /\ Grows /\ oracleTx' = oracleTx
        /\ pc' = [pc EXCEPT ![w] = "release"]
        /\ batch' = [batch EXCEPT ![w] = <<>>]
        /\ sent' = [sent EXCEPT ![w] = 0]
    BY <1>k DEF VolumeRefused, Abort, Grows, dbVars
  <2>3. "release" \in Labels \ Writing
    BY DEF Labels, Writing
  <2> QED
    BY <1>0, <1>1, <1>2, <2>1, <2>2, <2>3, StepToRest
<1>f. CASE VolumeAnswered(w)
  <2>1. pc[w] \in Writing /\ pc[w] = "volume" /\ Current(w) \notin Unaddable
    BY <1>f DEF VolumeAnswered, Writing
  <2>2. Grows
    BY <1>f, <2>1, LandingGrows DEF VolumeAnswered, Grows
  <2>3. PICK b \in Seq(Row) : b = batch[w]
    BY <2>1, AtHand
  <2>4. PICK s \in Nat : s = sent[w]
    BY <1>4
  <2>5. /\ pc' = [pc EXCEPT ![w] = "mark"]
        /\ sent' = [sent EXCEPT ![w] = s]
        /\ batch' = [batch EXCEPT ![w] = b]
        /\ oracleTx' = oracleTx
    BY <1>f, <1>4, <2>1, <2>3, <2>4, AtHand DEF VolumeAnswered, dbVars
  <2>6. b # <<>> /\ Distinct(b) /\ \A i \in 1..Len(b) : oracleTx'[b[i]] = 0
    BY <2>1, <2>3, <2>5, AtHand
  <2>7. s \in Copies(Head(b)) /\ Head(b) \in Row /\ Head(b) \notin Unaddable
    BY <2>1, <2>3, <2>4, AtHand DEF BatchInv, SentInv, SentIs, Current
  <2>8. SentIs("mark", s, Head(b), Copies(Head(b))')
    BY <1>0, <2>2, <2>7, CopiesKept DEF BatchTypes, SentIs
  <2>9. "mark" \in Labels /\ "mark" \in Writing
    BY DEF Labels, Writing
  <2> QED
    BY <1>0, <1>1, <1>2, <2>1, <2>2, <2>5, <2>6, <2>8, <2>9, StepOfOne
<1>g. CASE WriteFails(w)
  <2>1. pc[w] \in Writing
    BY <1>g DEF WriteFails, Writing
  <2>2. Grows
    BY <1>g, <2>1, LandingGrows DEF WriteFails, Grows
  <2>3. oracleTx' = oracleTx
    BY <1>g DEF WriteFails, dbVars
  <2>4. \/ UNCHANGED <<pc, batch, sent>>
        \/ /\ pc' = [pc EXCEPT ![w] = "release"]
           /\ batch' = [batch EXCEPT ![w] = <<>>]
           /\ sent' = [sent EXCEPT ![w] = 0]
    BY <1>g DEF WriteFails, Abort
  <2>5. "release" \in Labels \ Writing
    BY DEF Labels, Writing
  <2> QED
    BY <1>0, <1>1, <1>2, <2>1, <2>2, <2>3, <2>4, <2>5, StepToRest, LedgerStep
<1>h. CASE Mark(w)
  <2>1. pc[w] \in Writing /\ pc[w] = "mark"
    BY <1>h DEF Mark, Writing
  <2>2. /\ Grows
        /\ oracleTx' = [oracleTx EXCEPT ![Current(w)] = RowTx(w)]
        /\ sent' = [sent EXCEPT ![w] = 0]
    BY <1>h DEF Mark, Grows
  <2>3. PICK b \in Seq(Row) : b = batch[w]
    BY <2>1, AtHand
  <2>4. /\ Tail(b) \in Seq(Row)
        /\ Distinct(Tail(b))
        /\ \A i \in 1..Len(Tail(b)) : oracleTx'[Tail(b)[i]] = 0
        /\ Len(b) = 1 <=> Tail(b) = <<>>
    BY <1>0, <2>1, <2>2, <2>3, AtHand, TailStaysFresh DEF BatchTypes, Current
  <2>5. batch' = [batch EXCEPT ![w] = Tail(b)]
    BY <1>h, <2>3 DEF Mark
  <2>6. PICK l \in {"release", "submit"} :
            /\ pc' = [pc EXCEPT ![w] = l]
            /\ l \in Writing <=> Tail(b) # <<>>
    BY <1>h, <2>3, <2>4 DEF Mark, Writing
  <2>7. l \in Labels /\ SentIs(l, 0, Head(Tail(b)), Copies(Head(Tail(b)))')
    BY DEF Labels, SentIs
  <2> QED
    BY <1>0, <1>1, <1>2, <2>1, <2>2, <2>4, <2>5, <2>6, <2>7, StepOfOne
<1>i. CASE MarkFails(w)
  <2>1. pc[w] \in Writing /\ pc[w] = "mark"
    BY <1>i DEF MarkFails, Writing
  <2>2. /\ Grows
        /\ oracleTx' = oracleTx \/ oracleTx' = [oracleTx EXCEPT ![Current(w)] = RowTx(w)]
        /\ pc' = [pc EXCEPT ![w] = "release"]
        /\ batch' = [batch EXCEPT ![w] = <<>>]
        /\ sent' = [sent EXCEPT ![w] = 0]
    BY <1>i DEF MarkFails, Abort, Grows
  <2>3. "release" \in Labels \ Writing
    BY DEF Labels, Writing
  <2> QED
    BY <1>0, <1>1, <1>2, <2>1, <2>2, <2>3, StepToRest
<1>j. CASE Release(w) \/ Kill(w)
  <2>1. Running(w)
    BY <1>j DEF Release, Kill, Running
  <2>2. /\ pc' = [pc EXCEPT ![w] = "idle"]
        /\ batch' = [batch EXCEPT ![w] = <<>>]
        /\ sent' = [sent EXCEPT ![w] = 0]
    BY <1>j DEF Release, Kill, Stop
  <2>3. Grows
    <3>1. chain' = chain \/ (pc[w] \in Writing /\
             (Landing("outcome", Current(w)) \/ Landing("volume", Current(w))))
      BY <1>j DEF Release, Kill, Writing
    <3> QED
      BY <3>1, LandingGrows DEF Grows
  <2>4. \/ oracleTx' = oracleTx
        \/ pc[w] = "mark" /\ oracleTx' = [oracleTx EXCEPT ![Current(w)] = RowTx(w)]
    BY <1>j DEF Release, Kill, dbVars
  <2>5. "idle" \in Labels \ Writing
    BY DEF Labels, Writing
  <2> QED
    BY <1>0, <1>1, <2>1, <2>2, <2>3, <2>4, <2>5, StepToRest
<1> QED
  BY <1>a, <1>b, <1>c, <1>d, <1>e, <1>f, <1>g, <1>h, <1>i, <1>j, <1>k DEF TickStep

\* The environment's steps leave batches, marks and ledger alone.
LEMMA NextKeepsBatch == LockInv /\ BatchInv /\ [Next]_vars => BatchInv'
<1> SUFFICES ASSUME LockInv, BatchInv, [Next]_vars
             PROVE  BatchInv'
  OBVIOUS
<1>1. CASE UNCHANGED <<pc, batch, sent, oracleTx, chain>>
  BY <1>1, LedgerStep DEF Grows
<1>2. CASE \E r \in Row, started \in 1..MaxStamp : Reconcile(r, started)
  BY <1>1, <1>2 DEF Reconcile, runVars
<1>3. CASE CoverageMet \/ CoverageLapses \/ TimePasses
  BY <1>1, <1>3 DEF CoverageMet, CoverageLapses, TimePasses, runVars, dbVars
<1>4. CASE UNCHANGED vars
  BY <1>1, <1>4 DEF vars, runVars, dbVars
<1>5. ASSUME NEW w \in Tick, TickStep(w)
      PROVE  BatchInv'
  BY <1>5, TickStepKeepsBatch
<1> QED
  BY <1>2, <1>3, <1>4, <1>5 DEF Next

\* No tick holds a row and the ledger is empty in an initial state.
LEMMA InitBatch == Init => BatchInv
<1> SUFFICES ASSUME Init
             PROVE  BatchInv
  OBVIOUS
<1>1. BatchTypes
  BY DEF Init, BatchTypes
<1>2. HeldInv
  BY DEF Init, HeldInv, Held, Distinct, Writing
<1>3. SentInv /\ StampedWithOwnTx
  BY DEF Init, SentInv, SentIs, StampedWithOwnTx
<1> QED
  BY <1>1, <1>2, <1>3 DEF BatchInv

\* The inductive invariant of the publisher.
THEOREM TickInvariant == Spec => [](LockInv /\ BatchInv)
<1>1. Init => LockInv /\ BatchInv
  BY InitLock, InitBatch
<1>2. LockInv /\ BatchInv /\ [Next]_vars => (LockInv /\ BatchInv)'
  BY NextKeepsLock, NextKeepsBatch
<1> QED
  BY <1>1, <1>2, PTL DEF Spec

\* A stamped row points at an outcome transaction of its own, whatever was
\* retried, killed or lost around it.
THEOREM StampedWithOwnTxHolds == Spec => []StampedWithOwnTx
<1>1. BatchInv => StampedWithOwnTx
  BY DEF BatchInv
<1> QED
  BY <1>1, TickInvariant, PTL

\* A tick's step changes the mark and the copies of no row but the one it has at
\* hand, which is unpublished.
LEMMA PublishedUntouched ==
    ASSUME LockInv, BatchInv, NEW w \in Tick, TickStep(w), NEW r \in Row, oracleTx[r] # 0
    PROVE  oracleTx'[r] = oracleTx[r] /\ Copies(r)' = Copies(r)
<1>1. pc[w] \in Writing => Current(w) # r
  BY AtHand
<1>2. oracleTx'[r] = oracleTx[r]
  <2>1. \/ oracleTx' = oracleTx
        \/ pc[w] \in Writing /\ oracleTx' = [oracleTx EXCEPT ![Current(w)] = RowTx(w)]
    BY DEF TickStep, Acquire, Fetch, FetchFails, SubmitConfirmed, SubmitRefused,
           VolumeAnswered, VolumeRefused, WriteFails, Mark, MarkFails, Release, Kill, dbVars, Writing
  <2> QED
    BY <1>1, <2>1 DEF BatchInv, BatchTypes
<1>3. \/ chain' = chain
      \/ pc[w] \in Writing /\ (Landing("outcome", Current(w)) \/ Landing("volume", Current(w)))
  BY DEF TickStep, Acquire, Fetch, FetchFails, SubmitConfirmed, SubmitRefused,
         VolumeAnswered, VolumeRefused, WriteFails, Mark, MarkFails, Release, Kill, Writing
<1>4. CASE chain' = chain
  BY <1>2, <1>4 DEF Copies
<1>5. ASSUME pc[w] \in Writing, chain' # chain,
             Landing("outcome", Current(w)) \/ Landing("volume", Current(w))
      PROVE  oracleTx'[r] = oracleTx[r] /\ Copies(r)' = Copies(r)
  <2>1. PICK x \in Write : chain' = Append(chain, x) /\ x # [kind |-> "outcome", row |-> r]
    BY <1>1, <1>5, AtHand DEF Landing
  <2> QED
    BY <1>2, <2>1, CopiesAfterAppend DEF BatchInv, BatchTypes
<1> QED
  BY <1>3, <1>4, <1>5

\* Publication is final: a row once marked is never submitted again, by that
\* tick or any other, nor stamped with another transaction.
THEOREM PublishedIsFinalHolds == Spec => PublishedIsFinal
<1> DEFINE Final == \A r \in Row : oracleTx[r] # 0 =>
                        oracleTx'[r] = oracleTx[r] /\ Copies(r)' = Copies(r)
<1>1. LockInv /\ BatchInv /\ [Next]_vars => [Final]_vars
  <2> SUFFICES ASSUME LockInv, BatchInv, Next
               PROVE  Final
    OBVIOUS
  <2>1. CASE UNCHANGED <<oracleTx, chain>>
    BY <2>1 DEF Copies
  <2>2. CASE \E r \in Row, started \in 1..MaxStamp : Reconcile(r, started)
    BY <2>1, <2>2 DEF Reconcile
  <2>3. CASE CoverageMet \/ CoverageLapses \/ TimePasses
    BY <2>1, <2>3 DEF CoverageMet, CoverageLapses, TimePasses, dbVars
  <2>4. ASSUME NEW w \in Tick, TickStep(w)
        PROVE  Final
    BY <2>4, PublishedUntouched
  <2> QED
    BY <2>2, <2>3, <2>4 DEF Next
<1> QED
  BY <1>1, TickInvariant, PTL DEF PublishedIsFinal, Spec

-----------------------------------------------------------------------------
(* The account of copies.  Only the one running tick can hold a copy it is *)
(* about to mark, so each step moves at most one copy from one entry of    *)
(* the account to another, or adds one to both sides.                      *)

Confirmed == {"volume", "mark"}
Holders(r) == {w \in Tick : pc[w] \in Confirmed /\ Current(w) = r}
InHand(w, r) == IF pc[w] \in Confirmed /\ Current(w) = r THEN 1 ELSE 0
Published(r) == IF oracleTx[r] = 0 THEN 0 ELSE 1

Accounted(r) == Cardinality(Copies(r)) = lost[r] + Cardinality(Holders(r)) + Published(r)

\* Rows whose every copy is recorded and accounted for.
Addable == Row \ Unaddable

\* Each copy lost is paid for with a failure.
Paid ==
    /\ faults \in Nat /\ faults <= MaxFaults
    /\ \A r \in Row : lost[r] <= MaxFaults - faults

AccountInv == lost \in [Row -> Nat] /\ Paid /\ \A r \in Addable : Accounted(r)

\* A set with at most one possible member.
LEMMA AtMostOne ==
    ASSUME NEW w, NEW S, S \subseteq {w}
    PROVE  Cardinality(S) = IF w \in S THEN 1 ELSE 0
<1>1. CASE w \in S
  <2>1. S = {w}
    BY <1>1
  <2> QED
    BY <1>1, <2>1, FS_Singleton
<1>2. CASE w \notin S
  <2>1. S = {}
    BY <1>2
  <2> QED
    BY <1>2, <2>1, FS_EmptySet
<1> QED
  BY <1>1, <1>2

\* The copies of a row are finitely many.
LEMMA CopiesAreFinite ==
    ASSUME chain \in Seq(Write), NEW r
    PROVE  IsFiniteSet(Copies(r)) /\ Cardinality(Copies(r)) \in Nat
<1>1. Len(chain) \in Nat
  OBVIOUS
<1>2. IsFiniteSet(1..Len(chain))
  BY <1>1, FS_Interval
<1>3. Copies(r) \subseteq 1..Len(chain)
  BY DEF Copies
<1> QED
  BY <1>2, <1>3, FS_Subset, FS_CardinalityType

\* A landing outcome adds one copy of its row, any other write none.
LEMMA CopiesCount ==
    ASSUME chain \in Seq(Write), NEW x \in Write, chain' = Append(chain, x), NEW r \in Row
    PROVE  Cardinality(Copies(r)') = Cardinality(Copies(r))
               + (IF x = [kind |-> "outcome", row |-> r] THEN 1 ELSE 0)
<1> DEFINE o == [kind |-> "outcome", row |-> r]
<1>1. /\ Len(chain') = Len(chain) + 1
      /\ Len(chain) \in Nat
      /\ \A i \in 1..Len(chain) : chain'[i] = chain[i]
      /\ chain'[Len(chain) + 1] = x
  OBVIOUS
<1>2. Copies(r)' = {i \in 1..Len(chain') : chain'[i] = o}
  BY DEF Copies
<1>3. Copies(r) = {i \in 1..Len(chain) : chain[i] = o}
  BY DEF Copies
<1> HIDE DEF o
<1>4. CASE x = o
  <2>1. Copies(r)' = Copies(r) \cup {Len(chain) + 1} /\ Len(chain) + 1 \notin Copies(r)
    BY <1>1, <1>2, <1>3, <1>4
  <2>2. Cardinality(Copies(r) \cup {Len(chain) + 1}) = Cardinality(Copies(r)) + 1
    BY <2>1, CopiesAreFinite, FS_AddElement
  <2> QED
    BY <1>4, <2>1, <2>2 DEF o
<1>5. CASE x # o
  <2>1. Copies(r)' = Copies(r)
    BY <1>1, <1>2, <1>3, <1>5
  <2> QED
    BY <1>5, <2>1, CopiesAreFinite DEF o
<1> QED
  BY <1>4, <1>5

\* The sum both sides of the account come to.
LEMMA Sums ==
    ASSUME NEW c \in Nat, NEW l \in Nat, NEW h \in Nat, NEW p \in Nat, c = l + h + p,
           NEW hh \in Nat, NEW pp \in Nat, NEW landing \in Nat, NEW losing \in Nat,
           landing + h + p = losing + hh + pp
    PROVE  c + landing = (l + losing) + hh + pp
OBVIOUS

\* What a step must balance when one tick moves and the others are idle.
LEMMA Balance ==
    ASSUME LockTypes, BatchTypes, AccountInv, NEW w \in Tick, NEW r \in Addable,
           \A v \in Tick : v # w => ~Running(v) /\ pc'[v] = pc[v],
           NEW landing \in {0, 1}, NEW losing \in {0, 1},
           Cardinality(Copies(r)') = Cardinality(Copies(r)) + landing,
           lost'[r] = lost[r] + losing,
           landing + InHand(w, r) + Published(r) = losing + InHand(w, r)' + Published(r)'
    PROVE  Accounted(r)'
<1>1. Cardinality(Holders(r)) = InHand(w, r)
  <2>1. Holders(r) \subseteq {w}
    BY DEF Holders, Running, Confirmed
  <2>2. w \in Holders(r) <=> pc[w] \in Confirmed /\ Current(w) = r
    BY DEF Holders
  <2> HIDE DEF Holders
  <2> QED
    BY <2>1, <2>2, AtMostOne DEF InHand
<1>2. Cardinality(Holders(r)') = InHand(w, r)'
  <2>1. Holders(r)' \subseteq {w}
    BY DEF Holders, Running, Confirmed
  <2>2. w \in Holders(r)' <=> pc'[w] \in Confirmed /\ Current(w)' = r
    BY DEF Holders
  <2>3. InHand(w, r)' = IF pc'[w] \in Confirmed /\ Current(w)' = r THEN 1 ELSE 0
    BY DEF InHand
  <2> HIDE DEF Holders, InHand, Current
  <2>4. Cardinality(Holders(r)') = IF w \in Holders(r)' THEN 1 ELSE 0
    BY <2>1, AtMostOne
  <2> QED
    BY <2>2, <2>3, <2>4
<1>3. /\ Cardinality(Copies(r)) \in Nat /\ lost[r] \in Nat
      /\ InHand(w, r) \in Nat /\ InHand(w, r)' \in Nat
      /\ Published(r) \in Nat /\ Published(r)' \in Nat
      /\ landing \in Nat /\ losing \in Nat
  BY CopiesAreFinite DEF AccountInv, BatchTypes, InHand, Published, Addable
<1>4. Cardinality(Copies(r)) = lost[r] + InHand(w, r) + Published(r)
  BY <1>1 DEF AccountInv, Accounted
<1>5. Cardinality(Copies(r)') = lost'[r] + InHand(w, r)' + Published(r)'
  <2>1. PICK c \in Nat : c = Cardinality(Copies(r))
    BY <1>3
  <2>2. PICK h \in Nat : h = InHand(w, r)
    BY <1>3
  <2>3. PICK hh \in Nat : hh = InHand(w, r)'
    BY <1>3
  <2>4. PICK p \in Nat : p = Published(r)
    BY <1>3
  <2>5. PICK pp \in Nat : pp = Published(r)'
    BY <1>3
  <2>6. c = lost[r] + h + p /\ lost[r] \in Nat
    BY <1>3, <1>4, <2>1, <2>2, <2>4
  <2>7. landing + h + p = losing + hh + pp
    BY <2>2, <2>3, <2>4, <2>5
  <2>8. c + landing = (lost[r] + losing) + hh + pp
    BY <1>3, <2>6, <2>7, Sums
  <2> QED
    BY <2>1, <2>3, <2>5, <2>8
<1> QED
  BY <1>2, <1>5 DEF Accounted

\* What a step does to the account: nothing, a confirmed copy comes to hand, a copy is
\* lost as it lands, the copy at hand stays there, is one that an unaddable row leaves
\* behind, is lost, or marks its row.
OutcomeLands(w) == Landing("outcome", Current(w))
NoOutcomeLands(w) == chain' = chain \/ Landing("volume", Current(w))

Quiet(w) ==
    /\ pc[w] \notin Confirmed /\ pc'[w] \notin Confirmed
    /\ UNCHANGED <<chain, lost, oracleTx>>
Confirms(w) ==
    /\ pc[w] = "submit" /\ pc'[w] \in Confirmed
    /\ OutcomeLands(w) /\ UNCHANGED <<batch, lost, oracleTx>>
Strays(w) ==
    /\ pc[w] = "submit" /\ pc'[w] \notin Confirmed
    /\ OutcomeLands(w) /\ Lose(Current(w), 1) /\ UNCHANGED oracleTx
Keeps(w) ==
    /\ pc[w] \in Confirmed /\ pc'[w] \in Confirmed
    /\ NoOutcomeLands(w) /\ UNCHANGED <<batch, lost, oracleTx>>
Spurns(w) ==
    /\ pc[w] \in Confirmed /\ pc'[w] \notin Confirmed
    /\ Current(w) \in Unaddable /\ UNCHANGED <<chain, lost, oracleTx>>
Drops(w) ==
    /\ pc[w] \in Confirmed /\ pc'[w] \notin Confirmed
    /\ NoOutcomeLands(w) /\ Lose(Current(w), 1) /\ UNCHANGED oracleTx
Marks(w) ==
    /\ pc[w] = "mark" /\ pc'[w] \notin Confirmed
    /\ UNCHANGED <<chain, lost>>
    /\ oracleTx' = [oracleTx EXCEPT ![Current(w)] = RowTx(w)]

\* A failed write is one of them, by where it fails, whether it landed and whether it
\* is tried again (batch.ts withRetry).
LEMMA WriteFailsIs ==
    ASSUME LockTypes, BatchInv, AccountInv, NEW w \in Tick, WriteFails(w)
    PROVE  Quiet(w) \/ Strays(w) \/ Keeps(w) \/ Drops(w)
<1>1. pc[w] \in {"submit", "volume"} /\ pc[w] \in Writing
  BY DEF WriteFails, Writing
<1>2. Current(w) \in Row /\ lost \in [Row -> Nat]
  BY <1>1, AtHand DEF AccountInv
<1>3. Lose(Current(w), 0) => UNCHANGED lost
  BY <1>2 DEF Lose
<1>4. PICK landed \in BOOLEAN, again \in BOOLEAN :
          /\ IF landed
             THEN Landing(IF pc[w] = "submit" THEN "outcome" ELSE "volume", Current(w))
             ELSE UNCHANGED chain
          /\ Lose(Current(w), IF (landed /\ pc[w] = "submit") \/ (pc[w] = "volume" /\ ~again)
                              THEN 1 ELSE 0)
          /\ IF again THEN UNCHANGED <<pc, batch>> ELSE pc' = [pc EXCEPT ![w] = "release"]
  <2>1. PICK landed \in BOOLEAN, retryable \in BOOLEAN :
          LET r == Current(w)
              kind == IF pc[w] = "submit" THEN "outcome" ELSE "volume"
              again == retryable /\ MayRetry(attempt[w])
              strayed == landed /\ kind = "outcome"
              dropped == kind = "volume" /\ ~again
          IN  /\ IF landed THEN Landing(kind, r) ELSE UNCHANGED chain
              /\ Lose(r, IF strayed \/ dropped THEN 1 ELSE 0)
              /\ IF again THEN UNCHANGED <<pc, batch>> ELSE pc' = [pc EXCEPT ![w] = "release"]
    BY DEF WriteFails, Abort, Goto
  <2>2. PICK again \in BOOLEAN : again <=> (retryable /\ MayRetry(attempt[w]))
    OBVIOUS
  <2> QED
    BY <1>1, <2>1, <2>2
<1>5. UNCHANGED oracleTx
  BY DEF WriteFails, dbVars
<1>6. pc'[w] = pc[w] \/ pc'[w] = "release"
  BY <1>4 DEF LockTypes
<1>7. ~again => pc'[w] = "release"
  BY <1>4 DEF LockTypes
<1>8. CASE pc[w] = "submit"
  <2>1. pc[w] \notin Confirmed /\ pc'[w] \notin Confirmed
    BY <1>6, <1>8 DEF Confirmed
  <2>2. CASE landed
    BY <1>4, <1>5, <1>8, <2>1, <2>2 DEF Strays, OutcomeLands
  <2>3. CASE ~landed
    <3>1. UNCHANGED <<chain, lost>>
      BY <1>3, <1>4, <1>8, <2>3
    <3> QED
      BY <1>5, <2>1, <3>1 DEF Quiet
  <2> QED
    BY <2>2, <2>3
<1>9. CASE pc[w] = "volume"
  <2>1. NoOutcomeLands(w)
    BY <1>4, <1>9 DEF NoOutcomeLands
  <2>2. CASE again
    <3>1. UNCHANGED <<pc, batch, lost>>
      BY <1>3, <1>4, <1>9, <2>2
    <3> QED
      BY <1>5, <1>9, <2>1, <3>1 DEF Keeps, Confirmed
  <2>3. CASE ~again
    <3>1. Lose(Current(w), 1)
      BY <1>4, <1>9, <2>3
    <3> QED
      BY <1>5, <1>7, <1>9, <2>1, <2>3, <3>1 DEF Drops, Confirmed
  <2> QED
    BY <2>2, <2>3
<1> QED
  BY <1>1, <1>8, <1>9

\* Every step of a tick is one of them.
LEMMA TickStepIs ==
    ASSUME LockInv, BatchInv, AccountInv, NEW w \in Tick, TickStep(w)
    PROVE  \/ Quiet(w) \/ Confirms(w) \/ Strays(w) \/ Keeps(w) \/ Spurns(w) \/ Drops(w)
           \/ Marks(w)
<1> USE DEF Goto, Confirmed, LockInv, LockTypes
<1>1. CASE Acquire(w) \/ Fetch(w) \/ FetchFails(w) \/ Release(w)
  BY <1>1 DEF Quiet, Acquire, Fetch, FetchFails, Release, Stop, dbVars
<1>2. CASE SubmitConfirmed(w)
  <2>1. /\ pc[w] = "submit" /\ pc' = [pc EXCEPT ![w] = AfterSubmit(Current(w))]
        /\ OutcomeLands(w) /\ UNCHANGED <<batch, lost, oracleTx>>
    BY <1>2 DEF SubmitConfirmed, OutcomeLands, dbVars
  <2>2. AfterSubmit(Current(w)) \in Confirmed
    BY DEF AfterSubmit
  <2> QED
    BY <2>1, <2>2 DEF Confirms
<1>3. CASE SubmitRefused(w)
  BY <1>3 DEF Quiet, SubmitRefused, Abort, dbVars
<1>4. CASE VolumeAnswered(w)
  BY <1>4 DEF Keeps, VolumeAnswered, NoOutcomeLands, dbVars
<1>9. CASE VolumeRefused(w)
  BY <1>9 DEF Spurns, VolumeRefused, Abort, dbVars
<1>5. CASE WriteFails(w)
  BY <1>5, WriteFailsIs
<1>6. CASE Mark(w)
  BY <1>6 DEF Marks, Mark
<1>7. CASE MarkFails(w)
  <2>1. pc[w] = "mark" /\ pc' = [pc EXCEPT ![w] = "release"] /\ UNCHANGED chain
    BY <1>7 DEF MarkFails, Abort
  <2> QED
    BY <1>7, <2>1 DEF Marks, Drops, MarkFails, NoOutcomeLands
<1>8. CASE Kill(w)
  <2>1. pc' = [pc EXCEPT ![w] = "idle"]
    BY <1>8 DEF Kill, Stop
  <2> QED
    BY <1>8, <2>1 DEF Kill, Quiet, Strays, Drops, Marks, OutcomeLands, NoOutcomeLands
<1> QED
  BY <1>1, <1>2, <1>3, <1>4, <1>5, <1>6, <1>7, <1>8, <1>9 DEF TickStep

\* While one tick moves, the others are idle.
LEMMA OthersIdle ==
    ASSUME LockInv, NEW w \in Tick, TickStep(w), NEW v \in Tick, v # w
    PROVE  ~Running(v) /\ pc'[v] = pc[v]
<1>1. pc' = pc \/ \E l \in Labels : pc' = [pc EXCEPT ![w] = l]
  <2>1. CASE InnerStep(w)
    BY <2>1, InnerStepKeepsRunning DEF LockInv
  <2>2. CASE Acquire(w) \/ Release(w) \/ Kill(w)
    BY <2>2 DEF Acquire, Release, Kill, Stop, Goto, Labels
  <2> QED
    BY <2>1, <2>2 DEF TickStep, InnerStep
<1>2. ~Running(v)
  <2>1. CASE Acquire(w)
    BY <2>1 DEF Acquire, Free, LockInv, LockTypes, Deadline
  <2>2. CASE ~Acquire(w)
    <3>1. CASE InnerStep(w)
      BY <3>1, InnerStepKeepsRunning DEF LockInv, OneTickAtATime
    <3>2. CASE Release(w) \/ Kill(w)
      BY <3>2 DEF Release, Kill, Running, LockInv, OneTickAtATime
    <3> QED
      BY <2>2, <3>1, <3>2 DEF TickStep, InnerStep
  <2> QED
    BY <2>1, <2>2
<1> QED
  BY <1>1, <1>2 DEF LockInv, LockTypes

\* A sequence that grows is another one.
LEMMA SeqIsLonger ==
    ASSUME NEW S, NEW q \in Seq(S), NEW x \in S
    PROVE  Append(q, x) # q
<1>1. Len(Append(q, x)) = Len(q) + 1 /\ Len(q) \in Nat
  OBVIOUS
<1> QED
  BY <1>1

\* What a write of the row at hand does to the number of copies of an addable row.
LEMMA CopiesMove ==
    ASSUME BatchInv, NEW w \in Tick, NEW r \in Addable
    PROVE  /\ chain' = chain => Cardinality(Copies(r)') = Cardinality(Copies(r)) + 0
           /\ pc[w] \in Writing /\ NoOutcomeLands(w)
                => Cardinality(Copies(r)') = Cardinality(Copies(r)) + 0
           /\ pc[w] \in Writing /\ OutcomeLands(w)
                => Cardinality(Copies(r)') = Cardinality(Copies(r))
                       + (IF Current(w) = r THEN 1 ELSE 0)
<1>1. chain \in Seq(Write) /\ Cardinality(Copies(r)) \in Nat /\ r \in Row /\ r \notin Unaddable
  BY CopiesAreFinite DEF BatchInv, BatchTypes, Addable
<1>2. chain' = chain => Cardinality(Copies(r)') = Cardinality(Copies(r)) + 0
  <2> SUFFICES ASSUME chain' = chain
               PROVE  Copies(r)' = Copies(r)
    BY <1>1
  <2> QED
    BY DEF Copies
<1>3. ASSUME pc[w] \in Writing, chain' # chain, Landing("volume", Current(w))
      PROVE  Cardinality(Copies(r)') = Cardinality(Copies(r)) + 0
  <2>1. PICK x \in Write : x = [kind |-> "volume", row |-> Current(w)]
    BY <1>3, AtHand
  <2>2. chain' = Append(chain, x) /\ x # [kind |-> "outcome", row |-> r]
    BY <1>3, <2>1 DEF Landing
  <2> QED
    BY <1>1, <2>2, CopiesCount
<1>4. ASSUME pc[w] \in Writing, chain' # chain, OutcomeLands(w)
      PROVE  Cardinality(Copies(r)') = Cardinality(Copies(r))
                 + (IF Current(w) = r THEN 1 ELSE 0)
  <2>1. PICK x \in Write : x = [kind |-> "outcome", row |-> Current(w)]
    BY <1>4, AtHand
  <2>2. chain' = Append(chain, x) /\ (x = [kind |-> "outcome", row |-> r] <=> Current(w) = r)
    BY <1>4, <2>1 DEF OutcomeLands, Landing
  <2>3. Cardinality(Copies(r)') = Cardinality(Copies(r))
            + (IF x = [kind |-> "outcome", row |-> r] THEN 1 ELSE 0)
    BY <1>1, <2>2, CopiesCount
  <2> QED
    BY <2>2, <2>3
<1>5. ASSUME chain' = chain, OutcomeLands(w)
      PROVE  Current(w) # r
  <2> SUFFICES ASSUME Current(w) = r
               PROVE  FALSE
    OBVIOUS
  <2>1. PICK x \in Write : x = [kind |-> "outcome", row |-> r]
    BY <1>1 DEF Write
  <2>2. chain' = Append(chain, x)
    BY <1>1, <1>5, <2>1 DEF OutcomeLands, Landing, Unrecorded
  <2> QED
    BY <1>1, <1>5, <2>2, SeqIsLonger
<1> QED
  BY <1>2, <1>3, <1>4, <1>5 DEF NoOutcomeLands

\* A row that is marked was not, and is from then on.
LEMMA MarkedNow ==
    ASSUME BatchInv, NEW w \in Tick, Marks(w), NEW r \in Row
    PROVE  /\ Current(w) = r => Published(r) = 0 /\ Published(r)' = 1
           /\ Current(w) # r => Published(r)' = Published(r)
<1>1. pc[w] \in Writing /\ pc[w] = "mark"
  BY DEF Marks, Writing
<1>2. Current(w) \in Row /\ oracleTx[Current(w)] = 0
  BY <1>1, AtHand
<1>3. RowTx(w) # 0
  <2>1. sent[w] \in Copies(Current(w))
    BY <1>1 DEF BatchInv, SentInv, SentIs
  <2> QED
    BY <2>1 DEF RowTx, Copies
<1>4. oracleTx' = [oracleTx EXCEPT ![Current(w)] = RowTx(w)] /\ oracleTx \in [Row -> Nat]
  BY DEF Marks, BatchInv, BatchTypes
<1>5. Current(w) = r => oracleTx[r] = 0 /\ oracleTx'[r] # 0
  BY <1>2, <1>3, <1>4
<1>6. Current(w) # r => oracleTx'[r] = oracleTx[r]
  BY <1>2, <1>4
<1> QED
  BY <1>5, <1>6 DEF Published

\* What is lost is lost of the row at hand.
LEMMA LostNow ==
    ASSUME lost \in [Row -> Nat], NEW q \in Row, Lose(q, 1), NEW r \in Row
    PROVE  /\ lost' \in [Row -> Nat]
           /\ lost'[r] = lost[r] + (IF q = r THEN 1 ELSE 0)
<1>1. lost' = [lost EXCEPT ![q] = lost[q] + 1]
  BY DEF Lose
<1> QED
  BY <1>1

\* A step of a tick loses nothing, or one copy of one row for one failure.
LEMMA LossIsPaid ==
    ASSUME BatchInv, AccountInv, NEW w \in Tick, TickStep(w)
    PROVE  \/ lost' = lost /\ (NoFault \/ Fault)
           \/ Fault /\ \E q \in Row : Lose(q, 1)
<1> USE DEF Fault, NoFault
<1>1. lost \in [Row -> Nat]
  BY DEF AccountInv
<1>2. CASE Acquire(w) \/ Fetch(w) \/ FetchFails(w) \/ SubmitConfirmed(w) \/ SubmitRefused(w)
           \/ VolumeAnswered(w) \/ VolumeRefused(w) \/ Mark(w) \/ Release(w)
  BY <1>2 DEF Acquire, Fetch, FetchFails, SubmitConfirmed, SubmitRefused, VolumeAnswered,
              VolumeRefused, Mark, Release
<1>3. CASE WriteFails(w)
  <2>1. Fault /\ pc[w] \in Writing /\ \E n \in {0, 1} : Lose(Current(w), n)
    BY <1>3 DEF WriteFails, Writing
  <2>2. Current(w) \in Row
    BY <2>1, AtHand
  <2>3. Lose(Current(w), 0) => lost' = lost
    BY <1>1, <2>2 DEF Lose
  <2> QED
    BY <2>1, <2>2, <2>3
<1>4. CASE MarkFails(w) \/ Kill(w)
  <2>1. Fault /\ (lost' = lost \/ (pc[w] \in Writing /\ Lose(Current(w), 1)))
    BY <1>4 DEF MarkFails, Kill, Writing
  <2> QED
    BY <2>1, AtHand
<1> QED
  BY <1>2, <1>3, <1>4 DEF TickStep

\* What is spent grows as what is left shrinks.
LEMMA MoreIsLeft ==
    ASSUME NEW m \in Nat, NEW f \in Nat, NEW g \in Nat, g <= f, NEW n \in Nat, n <= m - f
    PROVE  n <= m - g
OBVIOUS

\* Failures only ever run out.
LEMMA FailuresRunOut ==
    ASSUME Paid, lost \in [Row -> Nat], lost' = lost, NoFault \/ Fault
    PROVE  Paid'
<1>1. PICK m \in Nat, f \in Nat : m = MaxFaults /\ f = faults /\ f <= m
  BY TickAssumption DEF Paid
<1>2. PICK g \in Nat : g = faults' /\ g <= f
  BY <1>1 DEF NoFault, Fault
<1>3. ASSUME NEW r \in Row
      PROVE  lost'[r] <= MaxFaults - faults'
  <2>1. lost[r] \in Nat /\ lost[r] <= m - f
    BY <1>1 DEF Paid
  <2>2. lost[r] <= m - g
    BY <1>2, <2>1, MoreIsLeft
  <2> QED
    BY <1>1, <1>2, <2>2
<1>4. g <= m
  BY <1>1, <1>2
<1> QED
  BY <1>1, <1>2, <1>3, <1>4 DEF Paid

\* Each kind of step balances the account of each row.
LEMMA TickStepBalances ==
    ASSUME LockInv, BatchInv, AccountInv, NEW w \in Tick, TickStep(w), NEW r \in Addable
    PROVE  Accounted(r)'
<1> DEFINE one == IF Current(w) = r THEN 1 ELSE 0
<1>0. LockTypes /\ BatchTypes /\ lost \in [Row -> Nat] /\ lost[r] \in Nat /\ lost[r] = lost[r] + 0
  BY DEF LockInv, BatchInv, AccountInv, Addable
<1>1. \A v \in Tick : v # w => ~Running(v) /\ pc'[v] = pc[v]
  BY OthersIdle
<1>2. one \in {0, 1}
  OBVIOUS
<1>3. oracleTx' = oracleTx => Published(r)' = Published(r)
  BY DEF Published
<1>4. Published(r) \in {0, 1}
  BY DEF Published
<1>5. /\ pc[w] \in Confirmed => InHand(w, r) = one
      /\ pc[w] \notin Confirmed => InHand(w, r) = 0
  BY DEF InHand
<1>6. /\ pc'[w] \in Confirmed /\ batch' = batch => InHand(w, r)' = one
      /\ pc'[w] \notin Confirmed => InHand(w, r)' = 0
  BY DEF InHand, Current
<1>7. pc[w] \in Confirmed \cup {"submit"} => pc[w] \in Writing /\ Current(w) \in Row
  <2>1. pc[w] \in Confirmed \cup {"submit"} => pc[w] \in Writing
    BY DEF Confirmed, Writing
  <2> QED
    BY <2>1, AtHand
<1> HIDE DEF one
<1>8. Cardinality(Copies(r)) \in Nat
  BY <1>0, CopiesAreFinite DEF BatchTypes
<1>a. CASE Quiet(w)
  <2>1. lost' = lost /\ Cardinality(Copies(r)') = Cardinality(Copies(r)) + 0
    BY <1>a, CopiesMove DEF Quiet
  <2>2. 0 + InHand(w, r) + Published(r) = 0 + InHand(w, r)' + Published(r)'
    BY <1>a, <1>3, <1>5, <1>6 DEF Quiet
  <2> QED
    BY <1>0, <1>1, <2>1, <2>2, Balance
<1>b. CASE Confirms(w)
  <2>1. lost' = lost /\ Cardinality(Copies(r)') = Cardinality(Copies(r)) + one
    BY <1>b, <1>7, CopiesMove DEF Confirms, one
  <2>2. one + InHand(w, r) + Published(r) = 0 + InHand(w, r)' + Published(r)'
    BY <1>b, <1>2, <1>3, <1>4, <1>5, <1>6 DEF Confirms, Confirmed
  <2> QED
    BY <1>0, <1>1, <1>2, <2>1, <2>2, Balance
<1>c. CASE Strays(w)
  <2>1. /\ lost'[r] = lost[r] + one
        /\ Cardinality(Copies(r)') = Cardinality(Copies(r)) + one
    BY <1>0, <1>c, <1>7, CopiesMove, LostNow DEF Strays, one, Addable
  <2>2. one + InHand(w, r) + Published(r) = one + InHand(w, r)' + Published(r)'
    BY <1>c, <1>2, <1>3, <1>4, <1>5, <1>6 DEF Strays, Confirmed
  <2> QED
    BY <1>0, <1>1, <1>2, <2>1, <2>2, Balance
<1>d. CASE Keeps(w)
  <2>1. lost' = lost /\ Cardinality(Copies(r)') = Cardinality(Copies(r)) + 0
    BY <1>d, <1>7, CopiesMove DEF Keeps
  <2>2. 0 + InHand(w, r) + Published(r) = 0 + InHand(w, r)' + Published(r)'
    BY <1>d, <1>3, <1>5, <1>6 DEF Keeps
  <2> QED
    BY <1>0, <1>1, <2>1, <2>2, Balance
<1>e. CASE Drops(w)
  <2>1. /\ lost'[r] = lost[r] + one
        /\ Cardinality(Copies(r)') = Cardinality(Copies(r)) + 0
    BY <1>0, <1>e, <1>7, CopiesMove, LostNow DEF Drops, one, Addable
  <2>2. 0 + InHand(w, r) + Published(r) = one + InHand(w, r)' + Published(r)'
    BY <1>e, <1>2, <1>3, <1>4, <1>5, <1>6 DEF Drops
  <2> QED
    BY <1>0, <1>1, <1>2, <2>1, <2>2, Balance
<1>g. CASE Spurns(w)
  <2>1. lost' = lost /\ Cardinality(Copies(r)') = Cardinality(Copies(r)) + 0
    BY <1>g, CopiesMove DEF Spurns
  <2>2. one = 0
    BY <1>g DEF Spurns, Addable, one
  <2>3. 0 + InHand(w, r) + Published(r) = 0 + InHand(w, r)' + Published(r)'
    BY <1>g, <2>2, <1>3, <1>5, <1>6 DEF Spurns
  <2> QED
    BY <1>0, <1>1, <2>1, <2>3, Balance
<1>f. CASE Marks(w)
  <2>1. lost' = lost /\ Cardinality(Copies(r)') = Cardinality(Copies(r)) + 0
    BY <1>f, CopiesMove DEF Marks
  <2>2. InHand(w, r) = one /\ InHand(w, r)' = 0
    BY <1>f, <1>5, <1>6 DEF Marks, Confirmed
  <2>3. Published(r)' = Published(r) + one
    BY <1>f, <1>4, MarkedNow DEF one, Addable
  <2>4. 0 + InHand(w, r) + Published(r) = 0 + InHand(w, r)' + Published(r)'
    BY <1>2, <1>4, <2>2, <2>3
  <2> QED
    BY <1>0, <1>1, <2>1, <2>4, Balance
<1> QED
  BY <1>a, <1>b, <1>c, <1>d, <1>e, <1>f, <1>g, TickStepIs

\* Nothing outside the ticks touches the account.
LEMMA NextBalances == LockInv /\ BatchInv /\ AccountInv /\ [Next]_vars => AccountInv'
<1> SUFFICES ASSUME LockInv, BatchInv, AccountInv, [Next]_vars
             PROVE  AccountInv'
  OBVIOUS
<1>1. ASSUME UNCHANGED <<oracleTx, pc, batch, chain, lost>>, NoFault \/ Fault
      PROVE  AccountInv'
  <2>1. Paid'
    BY <1>1, FailuresRunOut DEF AccountInv
  <2>2. \A r \in Addable : Accounted(r)'
    BY <1>1 DEF AccountInv, Accounted, Copies, Holders, Published, Current
  <2>3. lost' \in [Row -> Nat]
    BY <1>1 DEF AccountInv
  <2> QED
    BY <2>1, <2>2, <2>3 DEF AccountInv, Addable
<1>2. CASE \E r \in Row, started \in 1..MaxStamp : Reconcile(r, started)
  BY <1>1, <1>2 DEF Reconcile, runVars
<1>3. CASE CoverageMet \/ CoverageLapses \/ TimePasses
  BY <1>1, <1>3 DEF CoverageMet, CoverageLapses, TimePasses, runVars, dbVars, NoFault
<1>4. CASE UNCHANGED vars
  BY <1>1, <1>4 DEF vars, runVars, dbVars, NoFault
<1>5. ASSUME NEW w \in Tick, TickStep(w)
      PROVE  AccountInv'
  <2>1. \A r \in Addable : Accounted(r)'
    BY <1>5, TickStepBalances
  <2>2. CASE lost' = lost /\ (NoFault \/ Fault)
    BY <2>1, <2>2, FailuresRunOut DEF AccountInv, Addable
  <2>3. ASSUME Fault, NEW q \in Row, Lose(q, 1)
        PROVE  AccountInv'
    <3>1. lost \in [Row -> Nat] /\ faults \in Nat /\ MaxFaults \in Nat
      BY TickAssumption DEF AccountInv, Paid
    <3>2. lost' \in [Row -> Nat] /\ \A r \in Row : lost'[r] <= lost[r] + 1
      BY <2>3, <3>1, LostNow
    <3>3. faults' \in Nat /\ faults' = faults - 1 /\ faults <= MaxFaults
      BY <2>3, <3>1 DEF Fault, AccountInv, Paid
    <3>4. ASSUME NEW r \in Row
          PROVE  lost'[r] <= MaxFaults - faults'
      <4>1. lost[r] <= MaxFaults - faults /\ lost[r] \in Nat /\ lost'[r] \in Nat
        BY <3>1, <3>2 DEF AccountInv, Paid
      <4> QED
        BY <3>1, <3>2, <3>3, <4>1
    <3> QED
      BY <2>1, <3>1, <3>2, <3>3, <3>4 DEF AccountInv, Paid, Addable
  <2> QED
    BY <1>5, <2>2, <2>3, LossIsPaid
<1> QED
  BY <1>2, <1>3, <1>4, <1>5 DEF Next

\* The account is empty in an initial state.
LEMMA InitBalances == Init => AccountInv
<1> SUFFICES ASSUME Init
             PROVE  AccountInv
  OBVIOUS
<1>1. ASSUME NEW r \in Addable
      PROVE  Accounted(r)
  <2>1. Copies(r) = {} /\ Holders(r) = {}
    BY DEF Init, Copies, Holders, Confirmed
  <2>2. lost[r] = 0 /\ Published(r) = 0
    BY DEF Init, Published, Addable
  <2> QED
    BY <2>1, <2>2, FS_EmptySet DEF Accounted
<1>2. Paid /\ lost \in [Row -> Nat]
  BY TickAssumption DEF Init, Paid
<1> QED
  BY <1>1, <1>2 DEF AccountInv

\* Every copy of a row that the contract takes marked it, is about to, or was lost to a
\* failure, one for each at most: overlapping, retrying and restarting add none (batch.ts).
THEOREM CopiesAreAlwaysAccounted == Spec => []CopiesAreAccounted
<1>1. LockInv /\ BatchInv /\ AccountInv /\ [Next]_vars => (LockInv /\ BatchInv /\ AccountInv)'
  BY NextKeepsLock, NextKeepsBatch, NextBalances
<1>2. Init => LockInv /\ BatchInv /\ AccountInv
  BY InitLock, InitBatch, InitBalances
<1>3. AccountInv => CopiesAreAccounted
  BY DEF AccountInv, Paid, Addable, Accounted, Holders, Published, Confirmed,
         CopiesAreAccounted
<1> QED
  BY <1>1, <1>2, <1>3, PTL DEF Spec

-----------------------------------------------------------------------------
(* The lifecycle.  A batch holds reconciled rows, however old it is: no    *)
(* step takes a reconciliation back.                                       *)

HeldAreReconciled == \A w \in Tick : \A r \in Held(w) : reconciledAt[r] # 0

StageInv == reconciledAt \in [Row -> Nat] /\ HeldAreReconciled

\* What the batch of a tick can become: rows it held, or rows that are pending.
LEMMA BatchComesFrom ==
    ASSUME BatchInv, NEW w \in Tick, TickStep(w)
    PROVE  \/ batch' = batch
           \/ batch' = [batch EXCEPT ![w] = <<>>]
           \/ pc[w] = "mark" /\ batch' = [batch EXCEPT ![w] = Tail(@)]
           \/ \E rows \in PendingBatches : batch' = [batch EXCEPT ![w] = rows]
<1>1. CASE Fetch(w)
  BY <1>1 DEF Fetch
<1>2. CASE Mark(w)
  BY <1>2 DEF Mark
<1>3. CASE Release(w) \/ Kill(w)
  BY <1>3 DEF Release, Kill, Stop
<1>4. CASE SubmitRefused(w) \/ VolumeRefused(w) \/ MarkFails(w) \/ WriteFails(w)
  BY <1>4 DEF SubmitRefused, VolumeRefused, MarkFails, WriteFails, Abort
<1>5. CASE Acquire(w) \/ FetchFails(w) \/ SubmitConfirmed(w) \/ VolumeAnswered(w)
  BY <1>5 DEF Acquire, FetchFails, SubmitConfirmed, VolumeAnswered
<1> QED
  BY <1>1, <1>2, <1>3, <1>4, <1>5 DEF TickStep

\* The rows of a batch read from the table are reconciled.
LEMMA BatchesAreReconciled ==
    ASSUME NEW b \in PendingBatches
    PROVE  \A i \in 1..Len(b) : reconciledAt[b[i]] # 0
<1> DEFINE size == IF Cardinality(Pending) < BatchSize THEN Cardinality(Pending) ELSE BatchSize
<1>1. IsFiniteSet(Pending) /\ Cardinality(Pending) \in Nat
  <2>1. Pending \subseteq Row
    BY DEF Pending
  <2> QED
    BY <2>1, TickAssumption, FS_Subset, FS_CardinalityType
<1>2. size \in Nat
  BY <1>1, TickAssumption
<1>3. b \in [1..size -> Pending]
  BY DEF PendingBatches
<1> HIDE DEF size
<1>4. b \in Seq(Pending) /\ Len(b) = size
  BY <1>2, <1>3
<1> QED
  BY <1>2, <1>3, <1>4 DEF Pending

\* No step of a tick touches the time of a reconciliation.
LEMMA TickStepKeepsTimes ==
    ASSUME NEW w \in Tick, TickStep(w)
    PROVE  reconciledAt' = reconciledAt
BY DEF TickStep, Acquire, Fetch, FetchFails, SubmitConfirmed, SubmitRefused,
       VolumeAnswered, VolumeRefused, WriteFails, Mark, MarkFails, Release, Kill, dbVars

\* What a tick holds is reconciled after its step as before.
LEMMA TickStepKeepsStages ==
    ASSUME BatchInv, StageInv, NEW w \in Tick, TickStep(w)
    PROVE  StageInv'
<1>1. reconciledAt' = reconciledAt
  BY TickStepKeepsTimes
<1>2. \A v \in Tick : batch[v] \in Seq(Row) /\ \A i \in 1..Len(batch[v]) : reconciledAt[batch[v][i]] # 0
  BY DEF BatchInv, BatchTypes, StageInv, HeldAreReconciled, Held
<1>3. ASSUME NEW b, batch' = [batch EXCEPT ![w] = b],
             \A i \in 1..Len(b) : reconciledAt[b[i]] # 0
      PROVE  StageInv'
  <2>1. ASSUME NEW v \in Tick, NEW i \in 1..Len(batch'[v])
        PROVE  reconciledAt'[batch'[v][i]] # 0
    <3>1. batch'[v] = IF v = w THEN b ELSE batch[v]
      BY <1>3 DEF BatchInv, BatchTypes
    <3> QED
      BY <1>1, <1>2, <1>3, <2>1, <3>1
  <2> QED
    BY <1>1, <2>1 DEF StageInv, HeldAreReconciled, Held
<1>4. CASE batch' = batch
  BY <1>1, <1>4 DEF StageInv, HeldAreReconciled, Held
<1>5. CASE batch' = [batch EXCEPT ![w] = <<>>]
  <2>1. \A i \in 1..Len(<<>>) : reconciledAt[<<>>[i]] # 0
    OBVIOUS
  <2> QED
    BY <1>3, <1>5, <2>1
<1>6. CASE pc[w] = "mark" /\ batch' = [batch EXCEPT ![w] = Tail(@)]
  <2>1. batch[w] # <<>>
    BY <1>6, AtHand DEF Writing
  <2>2. \A i \in 1..Len(Tail(batch[w])) : Tail(batch[w])[i] = batch[w][i + 1] /\ i + 1 \in 1..Len(batch[w])
    BY <1>2, <2>1
  <2>3. batch' = [batch EXCEPT ![w] = Tail(batch[w])]
    BY <1>6
  <2> QED
    BY <1>2, <1>3, <2>2, <2>3
<1>7. CASE \E rows \in PendingBatches : batch' = [batch EXCEPT ![w] = rows]
  BY <1>3, <1>7, BatchesAreReconciled
<1> QED
  BY <1>4, <1>5, <1>6, <1>7, BatchComesFrom

\* Reconcile runs only ever set the time of a reconciliation.
LEMMA NextKeepsStages == BatchInv /\ StageInv /\ [Next]_vars => StageInv'
<1> SUFFICES ASSUME BatchInv, StageInv, [Next]_vars
             PROVE  StageInv'
  OBVIOUS
<1>1. CASE UNCHANGED <<reconciledAt, batch>>
  BY <1>1 DEF StageInv, HeldAreReconciled, Held
<1>2. ASSUME NEW r \in Row, NEW started \in 1..MaxStamp, Reconcile(r, started)
      PROVE  StageInv'
  <2>1. reconciledAt' = [reconciledAt EXCEPT ![r] = started] /\ batch' = batch
    BY <1>2 DEF Reconcile, runVars
  <2>2. \A q \in Row : reconciledAt[q] # 0 => reconciledAt'[q] # 0
    BY <2>1, TickAssumption DEF StageInv
  <2>3. \A w \in Tick : Held(w) \subseteq Row
    BY DEF BatchInv, BatchTypes, Held
  <2>4. reconciledAt' \in [Row -> Nat]
    BY <2>1, TickAssumption DEF StageInv
  <2> QED
    BY <2>1, <2>2, <2>3, <2>4 DEF StageInv, HeldAreReconciled, Held
<1>3. CASE CoverageMet \/ CoverageLapses \/ TimePasses
  BY <1>1, <1>3 DEF CoverageMet, CoverageLapses, TimePasses, runVars, dbVars
<1>4. CASE UNCHANGED vars
  BY <1>1, <1>4 DEF vars, runVars, dbVars
<1>5. ASSUME NEW w \in Tick, TickStep(w)
      PROVE  StageInv'
  BY <1>5, TickStepKeepsStages
<1> QED
  BY <1>2, <1>3, <1>4, <1>5 DEF Next

\* The function that the lifecycle is about.
Stages == [r \in Row |-> Stage(r)]

\* The stages after a step that moves at most the stage of one row.
LEMMA OneStageMoves ==
    ASSUME NEW r \in Row, NEW s, \A q \in Row : Stage(q)' = IF q = r THEN s ELSE Stage(q)
    PROVE  Stages' = [Stages EXCEPT ![r] = s]
BY DEF Stages

\* Marking a row that a tick holds takes it from reconciled to published.
LEMMA TickStepAdvances ==
    ASSUME LockInv, BatchInv, AccountInv, StageInv, NEW w \in Tick, TickStep(w)
    PROVE  Lifecycle!Next \/ UNCHANGED Stages
<1>1. reconciledAt' = reconciledAt
  BY TickStepKeepsTimes
<1>2. CASE oracleTx' = oracleTx
  BY <1>1, <1>2 DEF Stage, Stages
<1>3. CASE Marks(w)
  <2>1. pc[w] \in Writing
    BY <1>3 DEF Marks, Writing
  <2>2. PICK r \in Row : r = Current(w)
    BY <2>1, AtHand
  <2>3. oracleTx[r] = 0 /\ reconciledAt[r] # 0
    <3>1. batch[w] \in Seq(Row) /\ batch[w] # <<>> /\ oracleTx[Current(w)] = 0
      BY <2>1, AtHand
    <3>2. Head(batch[w]) \in Held(w)
      BY <3>1 DEF Held
    <3>3. \A q \in Held(w) : reconciledAt[q] # 0
      BY DEF StageInv, HeldAreReconciled
    <3> QED
      BY <2>2, <3>1, <3>2, <3>3 DEF Current
  <2>4. oracleTx'[r] # 0 /\ \A q \in Row : q # r => oracleTx'[q] = oracleTx[q]
    <3>1. oracleTx'[r] # 0
      BY <1>3, <2>2, MarkedNow DEF Published
    <3> QED
      BY <1>3, <2>2, <3>1 DEF Marks, BatchInv, BatchTypes
  <2>5. Stage(r) = "reconciled"
    BY <2>3 DEF Stage
  <2>6. \A q \in Row : Stage(q)' = IF q = r THEN "published" ELSE Stage(q)
    BY <1>1, <2>4 DEF Stage
  <2>7. Stages' = [Stages EXCEPT ![r] = "published"]
    BY <2>6, OneStageMoves
  <2>8. <<"reconciled", "published">> \in Lifecycle!Edges
    BY DEF Lifecycle!Edges
  <2> QED
    BY <2>2, <2>5, <2>7, <2>8 DEF Lifecycle!Next, Lifecycle!Advance, Stages
<1> QED
  BY <1>2, <1>3, TickStepIs DEF Quiet, Confirms, Strays, Keeps, Spurns, Drops

\* A first reconciliation takes a row from recorded to reconciled; any other leaves
\* its stage.
LEMMA ReconcileAdvances ==
    ASSUME StageInv, NEW r \in Row, NEW started \in 1..MaxStamp, Reconcile(r, started)
    PROVE  Lifecycle!Next \/ UNCHANGED Stages
<1>1. /\ reconciledAt' = [reconciledAt EXCEPT ![r] = started]
      /\ oracleTx' = oracleTx /\ started # 0
  BY TickAssumption DEF Reconcile
<1>2. CASE oracleTx[r] # 0 \/ reconciledAt[r] # 0
  <2>1. \A q \in Row : Stage(q)' = Stage(q)
    BY <1>1, <1>2 DEF Stage, StageInv
  <2> QED
    BY <2>1 DEF Stages
<1>3. CASE oracleTx[r] = 0 /\ reconciledAt[r] = 0
  <2>1. Stage(r) = "recorded"
    BY <1>3 DEF Stage
  <2>2. \A q \in Row : Stage(q)' = IF q = r THEN "reconciled" ELSE Stage(q)
    BY <1>1, <1>3 DEF Stage, StageInv
  <2>3. Stages' = [Stages EXCEPT ![r] = "reconciled"]
    BY <2>2, OneStageMoves
  <2>4. <<"recorded", "reconciled">> \in Lifecycle!Edges
    BY DEF Lifecycle!Edges
  <2> QED
    BY <2>1, <2>3, <2>4 DEF Lifecycle!Next, Lifecycle!Advance, Stages
<1> QED
  BY <1>2, <1>3

\* The stages are kept with everything else that the ticks keep.
LEMMA StageInvariant == Spec => [](LockInv /\ BatchInv /\ AccountInv /\ StageInv)
<1>1. Init => StageInv
  BY DEF Init, StageInv, HeldAreReconciled, Held
<1>2. LockInv /\ BatchInv /\ AccountInv /\ StageInv /\ [Next]_vars
        => (LockInv /\ BatchInv /\ AccountInv /\ StageInv)'
  BY NextKeepsLock, NextKeepsBatch, NextBalances, NextKeepsStages
<1> QED
  BY <1>1, <1>2, InitLock, InitBatch, InitBalances, PTL DEF Spec

\* The overlapping ticks implement the promised lifecycle: they publish reconciled
\* rows, one at a time, and no row goes back a stage (batch.ts markPublished).
THEOREM TicksRefineLifecycle == Spec => RefinesLifecycle
<1> DEFINE stages == [r \in Row |-> Stage(r)]
<1>1. Init => Lifecycle!Init
  BY DEF Init, Lifecycle!Init, Stage
<1>2. LockInv /\ BatchInv /\ AccountInv /\ StageInv /\ [Next]_vars => [Lifecycle!Next]_stages
  <2> SUFFICES ASSUME LockInv, BatchInv, AccountInv, StageInv, [Next]_vars
               PROVE  Lifecycle!Next \/ UNCHANGED Stages
    BY DEF Stages
  <2>1. CASE UNCHANGED <<reconciledAt, oracleTx>>
    BY <2>1 DEF Stage, Stages
  <2>2. CASE CoverageMet \/ CoverageLapses \/ TimePasses \/ UNCHANGED vars
    BY <2>1, <2>2 DEF CoverageMet, CoverageLapses, TimePasses, vars, dbVars
  <2> QED
    BY <2>2, TickStepAdvances, ReconcileAdvances DEF Next
<1> QED
  BY <1>1, <1>2, StageInvariant, PTL DEF RefinesLifecycle, Lifecycle!Spec, Spec
=============================================================================
