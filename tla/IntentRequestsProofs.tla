------------------------- MODULE IntentRequestsProofs -------------------------
(***************************************************************************)
(* Proofs about the requests to the intent routes, for any number of       *)
(* instances and requests, any submissions, windows, lifetimes and bounds. *)
(*                                                                         *)
(* What a request may do in one step is worked out once (StepEffect), and  *)
(* the invariants are proved from that: they are the conjuncts of Inv.     *)
(***************************************************************************)
EXTENDS IntentRequests, FiniteSetTheorems, TLAPS

\* Clocks, windows and lifetimes are natural numbers of ticks.
LEMMA TimesAreNat ==
    /\ MaxFaults \in Nat /\ MaxRestarts \in Nat
    /\ MaxTime \in Nat /\ Time = 0..MaxTime /\ Time \subseteq Nat
    /\ TTL \in Nat /\ WindowLen \in Nat /\ WindowLen > 0
    /\ MaxRequests \in Nat /\ MaxRequests > 0
BY RequestAssumption DEF Time

\* A window starts at a multiple of its length, at or before every time in it.
LEMMA WindowBounds ==
    ASSUME NEW t \in Nat
    PROVE  /\ t \div WindowLen \in Nat
           /\ Window(t) \in Nat
           /\ Window(t) <= t
           /\ t < Window(t) + WindowLen
BY TimesAreNat DEF Window

\* Every window the clock can be in has a counter.
LEMMA WindowIsTime == ASSUME NEW t \in Time PROVE Window(t) \in Time
<1>1. t \in Nat /\ t <= MaxTime
  BY TimesAreNat
<1>2. Window(t) \in Nat /\ Window(t) <= t
  BY <1>1, WindowBounds
<1>3. Window(t) \in 0..MaxTime
  BY <1>1, <1>2, TimesAreNat
<1> QED BY <1>3, TimesAreNat

\* Of two times in order, the later one is in the same window or in one that starts
\* after the earlier one.
LEMMA WindowsInOrder ==
    ASSUME NEW a \in Nat, NEW b \in Nat, a <= b
    PROVE  Window(b) <= a => Window(b) = Window(a)
<1> DEFINE k == a \div WindowLen
           l == b \div WindowLen
<1>1. k \in Nat /\ l \in Nat /\ Window(a) = k * WindowLen /\ Window(b) = l * WindowLen
  BY WindowBounds DEF Window
<1>2. /\ k * WindowLen <= a /\ a < k * WindowLen + WindowLen
      /\ l * WindowLen <= b /\ b < l * WindowLen + WindowLen
  BY <1>1, WindowBounds
<1> HIDE DEF k, l
<1>3. ASSUME l * WindowLen <= a PROVE k = l
  <2>1. CASE k < l
    <3>1. k + 1 <= l
      BY <2>1, <1>1
    <3>2. (k + 1) * WindowLen <= l * WindowLen
      BY <3>1, <1>1, TimesAreNat
    <3>3. (k + 1) * WindowLen = k * WindowLen + WindowLen
      BY <1>1, TimesAreNat
    <3> QED BY <3>2, <3>3, <1>2, <1>3, <1>1, TimesAreNat
  <2>2. CASE l < k
    <3>1. l + 1 <= k
      BY <2>2, <1>1
    <3>2. (l + 1) * WindowLen <= k * WindowLen
      BY <3>1, <1>1, TimesAreNat
    <3>3. (l + 1) * WindowLen = l * WindowLen + WindowLen
      BY <1>1, TimesAreNat
    <3> QED BY <3>2, <3>3, <1>2, <1>1, TimesAreNat
  <2> QED BY <2>1, <2>2, <1>1
<1> QED BY <1>1, <1>3

\* A submission has the fields the handlers read.
LEMMA SubmissionFields ==
    ASSUME NEW s \in Submission
    PROVE  /\ s.route \in Route /\ s.keyed \in BOOLEAN /\ s.attestation \in Attestation
           /\ s.nonce \in Nonce /\ s.deadline \in Nat /\ s.deadline > 0
BY RequestAssumption

\* What is known of a request before its step.
LEMMA RequestFields ==
    ASSUME TypeOK, NEW r \in Arrived
    PROVE  /\ req \in [Arrived -> RequestState]
           /\ r \in Request /\ req[r].pc \in Steps /\ req[r].sub \in Submission
           /\ req[r].inst \in Instance /\ req[r].arrived \in Time /\ req[r].at \in Time
           /\ req[r].claim \in {"none", "yes", "no", "unknown"}
           /\ req[r].reply \in Reply /\ req[r].pinned \in Nat
           /\ clock \in Time
<1>1. req[r] \in RequestState /\ req \in [Arrived -> RequestState] /\ r \in Request
  BY DEF TypeOK
<1> QED BY <1>1 DEF RequestState, TypeOK

-----------------------------------------------------------------------------
(* How a request's record changes: updates of its fields, one by one.      *)

\* Request r's record after a step of its own, and the others untouched.
Updated(r, to, now, claim, reply, pinned) ==
    /\ Arrived' = Arrived
    /\ \A q \in Arrived : q # r => req'[q] = req[q]
    /\ req'[r].sub = req[r].sub
    /\ req'[r].inst = req[r].inst
    /\ req'[r].arrived = req[r].arrived
    /\ req'[r].counted = req[r].counted
    /\ req'[r].pc = to
    /\ req'[r].at = now
    /\ req'[r].claim = claim
    /\ req'[r].reply = reply
    /\ req'[r].pinned = pinned
    /\ to \in Steps /\ now \in Time /\ claim \in {"none", "yes", "no", "unknown"} /\ reply \in Reply /\ pinned \in Nat
       => req' \in [Arrived -> RequestState]

\* Going on to another step.
LEMMA Moves ==
    ASSUME req \in [Arrived -> RequestState], NEW r \in Arrived, NEW to,
           Move(r, to)
    PROVE  Updated(r, to, req[r].at, req[r].claim, req[r].reply, req[r].pinned)
<1>1. Arrived' = Arrived /\ \A q \in Arrived : q # r => req'[q] = req[q]
  BY DEF Move, Arrived
<1>2. req'[r] = [req[r] EXCEPT !.pc = to]
  BY DEF Move, Arrived
<1>3. req[r] \in RequestState
  OBVIOUS
<1>4. ASSUME to \in Steps
      PROVE  req' \in [Arrived -> RequestState]
  BY <1>4 DEF Move, Arrived, RequestState, Steps
<1> QED BY <1>1, <1>2, <1>3, <1>4 DEF Updated, RequestState

\* Replaying what is stored.
LEMMA Replays ==
    ASSUME req \in [Arrived -> RequestState], NEW r \in Arrived, NEW reply, NEW expires,
           Replay(r, reply, expires)
    PROVE  Updated(r, "done", req[r].at, req[r].claim, reply, expires)
<1>1. Arrived' = Arrived /\ \A q \in Arrived : q # r => req'[q] = req[q]
  BY DEF Replay, Arrived
<1>2. req'[r] = [req[r] EXCEPT !.pc = "done", !.reply = reply, !.pinned = expires]
  BY DEF Replay, Arrived
<1>3. req[r] \in RequestState
  OBVIOUS
<1>4. ASSUME reply \in Reply, expires \in Nat
      PROVE  req' \in [Arrived -> RequestState]
  BY <1>4 DEF Replay, Arrived, RequestState, Steps
<1> QED BY <1>1, <1>2, <1>3, <1>4 DEF Updated, RequestState

\* Reading the clock before a call.
LEMMA Waits ==
    ASSUME req \in [Arrived -> RequestState], NEW r \in Arrived, NEW to, NEW now,
           req' = [req EXCEPT ![r].pc = to, ![r].at = now]
    PROVE  Updated(r, to, now, req[r].claim, req[r].reply, req[r].pinned)
<1>1. Arrived' = Arrived /\ \A q \in Arrived : q # r => req'[q] = req[q]
  BY DEF Arrived
<1>2. req'[r] = [req[r] EXCEPT !.pc = to, !.at = now]
  BY DEF Arrived
<1>3. req[r] \in RequestState
  OBVIOUS
<1>4. ASSUME to \in Steps, now \in Time
      PROVE  req' \in [Arrived -> RequestState]
  BY <1>4 DEF Arrived, RequestState, Steps
<1> QED BY <1>1, <1>2, <1>3, <1>4 DEF Updated, RequestState

\* Replying.
LEMMA Replies ==
    ASSUME req \in [Arrived -> RequestState], NEW r \in Arrived, NEW to, NEW reply,
           req' = [req EXCEPT ![r].pc = to, ![r].reply = reply]
    PROVE  Updated(r, to, req[r].at, req[r].claim, reply, req[r].pinned)
<1>1. Arrived' = Arrived /\ \A q \in Arrived : q # r => req'[q] = req[q]
  BY DEF Arrived
<1>2. req'[r] = [req[r] EXCEPT !.pc = to, !.reply = reply]
  BY DEF Arrived
<1>3. req[r] \in RequestState
  OBVIOUS
<1>4. ASSUME to \in Steps, reply \in Reply
      PROVE  req' \in [Arrived -> RequestState]
  BY <1>4 DEF Arrived, RequestState, Steps
<1> QED BY <1>1, <1>2, <1>3, <1>4 DEF Updated, RequestState

\* Replying, with the row of the key still to be written.
LEMMA Stores ==
    ASSUME req \in [Arrived -> RequestState], NEW r \in Arrived, NEW to, NEW now, NEW reply,
           req' = [req EXCEPT ![r].pc = to, ![r].at = now, ![r].reply = reply]
    PROVE  Updated(r, to, now, req[r].claim, reply, req[r].pinned)
<1>1. Arrived' = Arrived /\ \A q \in Arrived : q # r => req'[q] = req[q]
  BY DEF Arrived
<1>2. req'[r] = [req[r] EXCEPT !.pc = to, !.at = now, !.reply = reply]
  BY DEF Arrived
<1>3. req[r] \in RequestState
  OBVIOUS
<1>4. ASSUME to \in Steps, now \in Time, reply \in Reply
      PROVE  req' \in [Arrived -> RequestState]
  BY <1>4 DEF Arrived, RequestState, Steps
<1> QED BY <1>1, <1>2, <1>3, <1>4 DEF Updated, RequestState

\* Being told of the nonce.
LEMMA Claims ==
    ASSUME req \in [Arrived -> RequestState], NEW r \in Arrived, NEW to, NEW claim,
           req' = [req EXCEPT ![r].pc = to, ![r].claim = claim]
    PROVE  Updated(r, to, req[r].at, claim, req[r].reply, req[r].pinned)
<1>1. Arrived' = Arrived /\ \A q \in Arrived : q # r => req'[q] = req[q]
  BY DEF Arrived
<1>2. req'[r] = [req[r] EXCEPT !.pc = to, !.claim = claim]
  BY DEF Arrived
<1>3. req[r] \in RequestState
  OBVIOUS
<1>4. ASSUME to \in Steps, claim \in {"none", "yes", "no", "unknown"}
      PROVE  req' \in [Arrived -> RequestState]
  BY <1>4 DEF Arrived, RequestState, Steps
<1> QED BY <1>1, <1>2, <1>3, <1>4 DEF Updated, RequestState

\* Ending with what the row says.
LEMMA Pins ==
    ASSUME req \in [Arrived -> RequestState], NEW r \in Arrived, NEW to, NEW expires,
           req' = [req EXCEPT ![r].pc = to, ![r].pinned = expires]
    PROVE  Updated(r, to, req[r].at, req[r].claim, req[r].reply, expires)
<1>1. Arrived' = Arrived /\ \A q \in Arrived : q # r => req'[q] = req[q]
  BY DEF Arrived
<1>2. req'[r] = [req[r] EXCEPT !.pc = to, !.pinned = expires]
  BY DEF Arrived
<1>3. req[r] \in RequestState
  OBVIOUS
<1>4. ASSUME to \in Steps, expires \in Nat
      PROVE  req' \in [Arrived -> RequestState]
  BY <1>4 DEF Arrived, RequestState, Steps
<1> QED BY <1>1, <1>2, <1>3, <1>4 DEF Updated, RequestState

-----------------------------------------------------------------------------
(* What one step of a request may do, whichever it is.                     *)

\* The step it goes on to, and what it has been told of its nonce.
GoesOn(r, to, claim) ==
    /\ req[r].pc \notin {"done", "lost"}
    /\ \/ to = "claimed" /\ req[r].pc = "claim" /\ claim \in {"yes", "no", "unknown"}
       \/ /\ claim = req[r].claim
          /\ \/ to = "parse" /\ req[r].pc = "lookup"
             \/ to = "claim" /\ req[r].pc = "parse"
             \/ to = "build" /\ req[r].pc = "parse" /\ req[r].sub.attestation = "none"
             \/ to = "build" /\ req[r].pc = "claimed" /\ claim # "no"
             \/ to \in {"store", "done"}

\* Its reply: as it was, made by its own handler, or one that was stored.
Answers(r, to, reply) ==
    \/ reply = req[r].reply
    \/ /\ reply.by = r /\ reply.status # 429
       /\ reply.status = 200 => req[r].pc = "build"
    \/ /\ to = "done"
       /\ \/ \E row \in rows[req[r].sub] : reply = row.reply
          \/ \E e \in stored[req[r].inst][req[r].sub] : reply = e.reply

\* The row of its key: untouched, answered from, or inserted where there was none.
RowsAfter(r, to, reply, pinned) ==
    LET s == req[r].sub
        row == [reply |-> reply, expires |-> pinned]
    IN  \/ rows' = rows /\ pinned \in {0, req[r].pinned}
        \/ rows' = rows /\ to = "done" /\ row \in rows[s]
        \/ /\ to = "done" /\ reply = req[r].reply
           /\ rows[s] = {} /\ rows' = [rows EXCEPT ![s] = {row}]

StoredAfter(r, reply) ==
    \A i \in Instance, s \in Submission : \A e \in stored'[i][s] :
        e \in stored[i][s] \/ (s = req[r].sub /\ e.reply = reply)

NoncesAfter(r, claim) ==
    \/ nonceRows' = nonceRows /\ (claim = "yes" => req[r].claim = "yes")
    \/ req[r].pc = "claim" /\ IsFree(r) /\ nonceRows' = Taken(r)

Effect(r, to, now, claim, reply, pinned) ==
    /\ Updated(r, to, now, claim, reply, pinned)
    /\ GoesOn(r, to, claim)
    /\ Answers(r, to, reply)
    /\ RowsAfter(r, to, reply, pinned)
    /\ StoredAfter(r, reply)
    /\ NoncesAfter(r, claim)
    /\ UNCHANGED <<clock, limits>>

Effective(r) ==
    \E to \in Steps, now \in {req[r].at, clock}, claim \in {"none", "yes", "no", "unknown"},
       reply \in Reply, pinned \in Nat :
          Effect(r, to, now, claim, reply, pinned)

\* An instance whose memory is left alone, or holds less of what it held, or the reply.
LEMMA StoredKept == ASSUME stored' = stored, NEW r, NEW reply PROVE StoredAfter(r, reply)
<1>1. \A i \in Instance, s \in Submission : \A e \in stored'[i][s] : e \in stored[i][s]
  OBVIOUS
<1> QED BY <1>1 DEF StoredAfter

\* The memory of instance i for submission s becomes kept.
Remembers(i, s, kept) == stored' = [stored EXCEPT ![i][s] = kept]

\* A memory replaced by some of what it held, and by the request's reply.
LEMMA StoredSet ==
    ASSUME TypeOK, NEW i \in Instance, NEW s \in Submission, NEW kept,
           Remembers(i, s, kept), NEW r, NEW reply,
           \A e \in kept : e \in stored[i][s] \/ (s = req[r].sub /\ e.reply = reply)
    PROVE  StoredAfter(r, reply)
<1> SUFFICES ASSUME NEW j \in Instance, NEW z \in Submission, NEW e \in stored'[j][z]
             PROVE  e \in stored[j][z] \/ (z = req[r].sub /\ e.reply = reply)
  BY DEF StoredAfter
<1>1. CASE j = i /\ z = s
  <2>1. stored'[j][z] = kept
    BY <1>1 DEF Remembers, TypeOK
  <2> QED BY <1>1, <2>1
<1>2. CASE ~(j = i /\ z = s)
  <2>1. stored'[j][z] = stored[j][z]
    BY <1>2 DEF Remembers, TypeOK
  <2>2. e \in stored[j][z]
    BY <2>1
  <2> QED BY <2>2
<1> QED BY <1>1, <1>2

\* A reply of the request's own making (Respond).
LEMMA RespondEffect ==
    ASSUME TypeOK, NEW r \in Arrived, NEW status \in Status, Respond(r, status),
           req[r].pc \in {"parse", "build"}, status # 429, status = 200 => req[r].pc = "build",
           UNCHANGED <<clock, limits, rows, nonceRows>>
    PROVE  Effective(r)
<1> DEFINE reply == [status |-> status, by |-> r]
<1>1. reply \in Reply /\ reply.by = r /\ reply.status = status
  BY RequestFields DEF Reply
<1>2. PICK to \in {"store", "done"}, now \in {req[r].at, clock} :
         /\ Updated(r, to, now, req[r].claim, reply, req[r].pinned)
         /\ StoredAfter(r, reply)
  <2>1. CASE Cacheable(req[r].sub, status)
    <3>1. /\ req' = [req EXCEPT ![r].pc = "store", ![r].at = clock, ![r].reply = reply]
          /\ stored' = [stored EXCEPT ![req[r].inst][req[r].sub] =
                                      {[reply |-> reply, storedAt |-> clock]}]
      BY <2>1 DEF Respond
    <3> HIDE DEF reply
    <3>2. Updated(r, "store", clock, req[r].claim, reply, req[r].pinned)
      BY <3>1, RequestFields, Stores
    <3>3. StoredAfter(r, reply)
      <4> DEFINE kept == {[reply |-> reply, storedAt |-> clock]}
      <4> DEFINE i == req[r].inst
                 s == req[r].sub
      <4>1. \A e \in kept : e.reply = reply
        OBVIOUS
      <4>2. i \in Instance /\ s \in Submission /\ Remembers(i, s, kept)
        BY <3>1, RequestFields DEF Remembers
      <4>3. \A e \in kept : e \in stored[i][s] \/ (s = req[r].sub /\ e.reply = reply)
        BY <4>1
      <4> HIDE DEF kept, i, s
      <4> QED BY <4>2, <4>3, StoredSet
    <3> QED BY <3>2, <3>3
  <2>2. CASE ~Cacheable(req[r].sub, status)
    <3>1. req' = [req EXCEPT ![r].pc = "done", ![r].reply = reply] /\ stored' = stored
      BY <2>2 DEF Respond
    <3> HIDE DEF reply
    <3>2. Updated(r, "done", req[r].at, req[r].claim, reply, req[r].pinned)
      BY <3>1, RequestFields, Replies
    <3> QED BY <3>1, <3>2, StoredKept
  <2> QED BY <2>1, <2>2
<1> HIDE DEF reply
<1>3. Effect(r, to, now, req[r].claim, reply, req[r].pinned)
  BY <1>1, <1>2 DEF Effect, GoesOn, Answers, RowsAfter, NoncesAfter
<1> QED BY <1>1, <1>3, RequestFields DEF Effective, Steps

\* Every step of a request is one of those.
LEMMA StepEffect == ASSUME TypeOK, NEW r \in Arrived, Step(r) PROVE Effective(r)
<1> DEFINE claim == req[r].claim
           reply == req[r].reply
           pinned == req[r].pinned
<1>1. CASE LookupShared(r)
  <2>1. /\ req[r].pc = "lookup" /\ UNCHANGED <<clock, limits, rows, stored, nonceRows>>
    BY <1>1 DEF LookupShared, responses, claims
  <2>2. CASE Move(r, "parse")
    <3>1. Updated(r, "parse", req[r].at, claim, reply, pinned)
      BY <2>2, RequestFields, Moves
    <3>2. Effect(r, "parse", req[r].at, claim, reply, pinned)
      BY <2>1, <3>1, StoredKept
         DEF Effect, GoesOn, Answers, RowsAfter, NoncesAfter
    <3> QED BY <3>2, RequestFields DEF Effective, Steps
  <2>3. ASSUME NEW row \in LiveRows(req[r].sub), Replay(r, row.reply, row.expires)
        PROVE  Effective(r)
    <3>1. /\ row \in rows[req[r].sub] /\ row = [reply |-> row.reply, expires |-> row.expires]
          /\ row.reply \in Reply /\ row.expires \in Nat
      BY RequestFields DEF LiveRows, TypeOK
    <3>2. Updated(r, "done", req[r].at, claim, row.reply, row.expires)
      BY <2>3, RequestFields, Replays
    <3>3. Effect(r, "done", req[r].at, claim, row.reply, row.expires)
      BY <2>1, <3>1, <3>2, StoredKept
         DEF Effect, GoesOn, Answers, RowsAfter, NoncesAfter
    <3> QED BY <3>1, <3>3, RequestFields DEF Effective, Steps
  <2> QED BY <1>1, <2>2, <2>3 DEF LookupShared
<1>2. CASE LookupLocal(r)
  <2> DEFINE live == {e \in stored[req[r].inst][req[r].sub] : clock <= e.storedAt + TTL}
  <2>1. /\ req[r].pc = "lookup" /\ UNCHANGED <<clock, limits, rows, nonceRows>>
        /\ stored' = [stored EXCEPT ![req[r].inst][req[r].sub] = live]
    BY <1>2 DEF LookupLocal, claims
  <2>2. \A x : StoredAfter(r, x)
    <3> HIDE DEF live
    <3>1. live \subseteq stored[req[r].inst][req[r].sub]
      BY DEF live
    <3> DEFINE i == req[r].inst
               s == req[r].sub
    <3>2. i \in Instance /\ s \in Submission /\ Remembers(i, s, live)
      BY <2>1, RequestFields DEF Remembers
    <3>3. \A x : \A e \in live : e \in stored[i][s] \/ (s = req[r].sub /\ e.reply = x)
      BY <3>1
    <3> HIDE DEF i, s
    <3> QED BY <3>2, <3>3, StoredSet
  <2>3. CASE Move(r, "parse")
    <3>1. Updated(r, "parse", req[r].at, claim, reply, pinned)
      BY <2>3, RequestFields, Moves
    <3>2. Effect(r, "parse", req[r].at, claim, reply, pinned)
      BY <2>1, <2>2, <3>1 DEF Effect, GoesOn, Answers, RowsAfter, NoncesAfter
    <3> QED BY <3>2, RequestFields DEF Effective, Steps
  <2>4. ASSUME NEW e \in live, Replay(r, e.reply, 0)
        PROVE  Effective(r)
    <3>1. e \in stored[req[r].inst][req[r].sub] /\ e.reply \in Reply
      BY RequestFields DEF TypeOK
    <3>2. Updated(r, "done", req[r].at, claim, e.reply, 0)
      BY <2>4, RequestFields, Replays
    <3>3. Effect(r, "done", req[r].at, claim, e.reply, 0)
      BY <2>1, <2>2, <3>1, <3>2 DEF Effect, GoesOn, Answers, RowsAfter, NoncesAfter
    <3> QED BY <3>1, <3>3, RequestFields DEF Effective, Steps
  <2> QED BY <1>2, <2>3, <2>4 DEF LookupLocal
<1>3. CASE Parse(r) \/ Build(r)
  <2>1. UNCHANGED <<clock, limits, rows, nonceRows>> /\ req[r].pc \in {"parse", "build"}
    BY <1>3 DEF Parse, Build, claims
  <2>2. ASSUME NEW status \in {400, 401, 410, 200, 500}, Respond(r, status),
               status = 200 => req[r].pc = "build"
        PROVE  Effective(r)
    BY <2>1, <2>2, RespondEffect DEF Status
  <2>3. CASE /\ req[r].pc = "parse" /\ req[r].sub.attestation = "none"
             /\ Move(r, "build") /\ UNCHANGED stored
    <3>1. Updated(r, "build", req[r].at, claim, reply, pinned)
      BY <2>3, RequestFields, Moves
    <3>2. Effect(r, "build", req[r].at, claim, reply, pinned)
      BY <2>1, <2>3, <3>1, StoredKept
         DEF Effect, GoesOn, Answers, RowsAfter, NoncesAfter
    <3> QED BY <3>2, RequestFields DEF Effective, Steps
  <2>4. CASE /\ req[r].pc = "parse" /\ UNCHANGED stored
             /\ req' = [req EXCEPT ![r].pc = "claim", ![r].at = clock]
    <3>1. Updated(r, "claim", clock, claim, reply, pinned)
      BY <2>4, RequestFields, Waits
    <3>2. Effect(r, "claim", clock, claim, reply, pinned)
      BY <2>1, <2>4, <3>1, StoredKept
         DEF Effect, GoesOn, Answers, RowsAfter, NoncesAfter
    <3> QED BY <3>2, RequestFields DEF Effective, Steps
  <2> QED BY <1>3, <2>2, <2>3, <2>4 DEF Parse, Build
<1>4. CASE Claim(r) \/ ClaimFails(r)
  <2>1. /\ req[r].pc = "claim" /\ UNCHANGED <<clock, limits, rows, stored>>
    BY <1>4 DEF Claim, ClaimFails, responses
  <2>2. PICK told \in {"yes", "no", "unknown"} :
           /\ req' = [req EXCEPT ![r].pc = "claimed", ![r].claim = told]
           /\ \/ IsFree(r) /\ nonceRows' = Taken(r)
              \/ told # "yes" /\ nonceRows' = nonceRows
    BY <1>4 DEF Claim, ClaimFails
  <2>3. Updated(r, "claimed", req[r].at, told, reply, pinned)
    BY <2>2, RequestFields, Claims
  <2>4. Effect(r, "claimed", req[r].at, told, reply, pinned)
    BY <2>1, <2>2, <2>3, StoredKept
         DEF Effect, GoesOn, Answers, RowsAfter, NoncesAfter
  <2> QED BY <2>4, RequestFields DEF Effective, Steps
<1>5. CASE ClaimAnswered(r)
  <2> DEFINE refusal == [status |-> 409, by |-> r]
  <2>1. /\ req[r].pc = "claimed" /\ UNCHANGED <<clock, limits, rows, stored, nonceRows>>
    BY <1>5 DEF ClaimAnswered, responses
  <2>2. \/ Move(r, "build") /\ claim # "no"
        \/ req' = [req EXCEPT ![r].pc = "done", ![r].reply = refusal]
    BY <1>5 DEF ClaimAnswered, IsReplay
  <2>3. refusal \in Reply /\ refusal.by = r /\ refusal.status = 409
    BY RequestFields DEF Reply, Status
  <2> HIDE DEF refusal
  <2>4. CASE Move(r, "build") /\ claim # "no"
    <3>1. Updated(r, "build", req[r].at, claim, reply, pinned)
      BY <2>4, RequestFields, Moves
    <3>2. Effect(r, "build", req[r].at, claim, reply, pinned)
      BY <2>1, <2>4, <3>1, StoredKept
         DEF Effect, GoesOn, Answers, RowsAfter, NoncesAfter
    <3> QED BY <3>2, RequestFields DEF Effective, Steps
  <2>5. CASE req' = [req EXCEPT ![r].pc = "done", ![r].reply = refusal]
    <3>1. Updated(r, "done", req[r].at, claim, refusal, pinned)
      BY <2>5, RequestFields, Replies
    <3>2. Effect(r, "done", req[r].at, claim, refusal, pinned)
      BY <2>1, <2>3, <3>1, StoredKept
         DEF Effect, GoesOn, Answers, RowsAfter, NoncesAfter
    <3> QED BY <2>3, <3>2, RequestFields DEF Effective, Steps
  <2> QED BY <2>2, <2>4, <2>5
<1>6. CASE StoreShared(r) \/ StoreFails(r)
  <2> DEFINE s == req[r].sub
             expires == req[r].at + TTL
             row == [reply |-> reply, expires |-> expires]
  <2>1. /\ req[r].pc = "store" /\ UNCHANGED <<clock, limits, stored, nonceRows>>
    BY <1>6 DEF StoreShared, StoreFails, claims
  <2>2. CASE Move(r, "done") /\ UNCHANGED rows
    <3>1. Updated(r, "done", req[r].at, claim, reply, pinned)
      BY <2>2, RequestFields, Moves
    <3>2. Effect(r, "done", req[r].at, claim, reply, pinned)
      BY <2>1, <2>2, <3>1, StoredKept
         DEF Effect, GoesOn, Answers, RowsAfter, NoncesAfter
    <3> QED BY <3>2, RequestFields DEF Effective, Steps
  <2>3. CASE MayInsert(s) /\ rows' = Inserted(r) /\ Pin(r)
    <3>1. rows[s] = {} /\ rows' = [rows EXCEPT ![s] = {row}]
      BY <2>3 DEF Inserted, MayInsert
    <3>2. req' = [req EXCEPT ![r].pc = "done", ![r].pinned = expires]
      BY <2>3 DEF Pin
    <3>3. expires \in Nat
      BY RequestFields, TimesAreNat
    <3>4. Updated(r, "done", req[r].at, claim, reply, expires)
      BY <3>2, RequestFields, Pins
    <3>5. Effect(r, "done", req[r].at, claim, reply, expires)
      BY <2>1, <3>1, <3>4, StoredKept
         DEF Effect, GoesOn, Answers, RowsAfter, NoncesAfter
    <3> QED BY <3>3, <3>5, RequestFields DEF Effective, Steps
  <2>4. CASE ~MayInsert(s) /\ rows' = Inserted(r) /\ Pin(r)
    <3>1. rows' = rows /\ req' = [req EXCEPT ![r].pc = "done", ![r].pinned = 0]
      BY <2>4 DEF Inserted, Pin
    <3>2. Updated(r, "done", req[r].at, claim, reply, 0)
      BY <3>1, RequestFields, Pins
    <3>3. Effect(r, "done", req[r].at, claim, reply, 0)
      BY <2>1, <3>1, <3>2, StoredKept
         DEF Effect, GoesOn, Answers, RowsAfter, NoncesAfter
    <3> QED BY <3>3, RequestFields DEF Effective, Steps
  <2> QED BY <1>6, <2>2, <2>3, <2>4 DEF StoreShared, StoreFails
<1> QED BY <1>1, <1>2, <1>3, <1>4, <1>5, <1>6 DEF Step

\* A request that arrives has its fields, and nothing pinned; the others keep theirs.
LEMMA ArrivalEffect ==
    ASSUME TypeOK, NEW r \in Request, NEW i \in Instance, NEW s \in Submission,
           CountShared(r, i, s) \/ CountLocal(r, i, s)
    PROVE  /\ r \notin Arrived /\ Arrived' = Arrived \cup {r}
           /\ \A q \in Arrived : req'[q] = req[q]
           /\ req'[r].sub = s /\ req'[r].inst = i /\ req'[r].claim = "none"
           /\ req'[r].pinned = 0 /\ req'[r].at = clock /\ req'[r].arrived = clock
           /\ req'[r].reply.status \in {0, 429}
           /\ req'[r].pc \in {"lookup", "parse", "done"}
           /\ req'[r].reply.status = 429 => req'[r].pc = "done"
           /\ UNCHANGED <<clock, rows, stored, nonceRows, nonces>>
<1>1. r \notin Arrived /\ UNCHANGED <<clock, rows, stored, nonceRows, nonces>>
  BY DEF CountShared, CountLocal, MayArrive, responses, claims
<1>2. PICK where, allowed : Begin(r, i, s, where, allowed)
  BY DEF CountShared, CountLocal
<1> QED BY <1>1, <1>2 DEF Begin, Arrived

\* What the requests of an instance that is recycled keep.
LEMMA RecycleEffect ==
    ASSUME TypeOK, NEW i \in Instance, Recycle(i)
    PROVE  /\ Arrived' = Arrived
           /\ \A r \in Arrived :
                 /\ req'[r].sub = req[r].sub /\ req'[r].inst = req[r].inst
                 /\ req'[r].arrived = req[r].arrived /\ req'[r].at = req[r].at
                 /\ req'[r].claim = req[r].claim /\ req'[r].reply = req[r].reply
                 /\ req'[r].pinned = req[r].pinned
                 /\ req'[r].pc = req[r].pc \/ (req[r].pc # "done" /\ req'[r].pc = "lost")
                 /\ req'[r].counted \in {req[r].counted, "forgotten"}
                 /\ req[r].inst = i => req'[r].counted # "local"
           /\ UNCHANGED <<clock, buckets, rows, nonceRows>>
<1>1. Arrived' = Arrived /\ UNCHANGED <<clock, buckets, rows, nonceRows>>
  BY DEF Recycle, Arrived
<1>2. ASSUME NEW r \in Arrived
      PROVE  /\ req'[r].sub = req[r].sub /\ req'[r].inst = req[r].inst
             /\ req'[r].arrived = req[r].arrived /\ req'[r].at = req[r].at
             /\ req'[r].claim = req[r].claim /\ req'[r].reply = req[r].reply
             /\ req'[r].pinned = req[r].pinned
             /\ req'[r].pc = req[r].pc \/ (req[r].pc # "done" /\ req'[r].pc = "lost")
             /\ req'[r].counted \in {req[r].counted, "forgotten"}
             /\ req[r].inst = i => req'[r].counted # "local"
  <2>1. req[r] \in RequestState
    BY DEF TypeOK
  <2> QED BY <2>1 DEF Recycle, RequestState
<1> QED BY <1>1, <1>2

-----------------------------------------------------------------------------
(* Types.                                                                  *)

\* Every variable keeps its type.
LEMMA TypeStep == TypeOK /\ [Next]_vars => TypeOK'
<1> SUFFICES ASSUME TypeOK, [Next]_vars PROVE TypeOK'
  OBVIOUS
<1>1. ASSUME NEW r \in Request, NEW i \in Instance, NEW s \in Submission,
             CountShared(r, i, s) \/ CountLocal(r, i, s)
      PROVE  TypeOK'
  <2>1. PICK where \in {"shared", "local"}, allowed \in BOOLEAN : Begin(r, i, s, where, allowed)
    <3>1. SharedAllows(s.route) \in BOOLEAN /\ LocalAllows(i, s.route) \in BOOLEAN
      BY DEF SharedAllows, LocalAllows, UnderCap
    <3> QED BY <1>1, <3>1 DEF CountShared, CountLocal
  <2>2. Arrived' = Arrived \cup {r} /\ req' \in [Arrived \cup {r} -> RequestState]
    BY <2>1 DEF Begin, RequestState, Reply, Status, Steps, Arrived, TypeOK
  <2>3. Counted(s.route) \in [Route -> [Time -> Nat]]
    <3> DEFINE p == s.route
               w == Window(clock)
    <3>1. p \in Route /\ buckets[p] \in [Time -> Nat]
      BY SubmissionFields DEF TypeOK
    <3>2. [buckets[p] EXCEPT ![w] = buckets[p][w] + 1] \in [Time -> Nat]
      BY <3>1, WindowIsTime DEF TypeOK
    <3> HIDE DEF p, w
    <3>3. [buckets EXCEPT ![p] = [buckets[p] EXCEPT ![w] = buckets[p][w] + 1]]
            \in [Route -> [Time -> Nat]]
      BY <3>1, <3>2 DEF TypeOK
    <3> QED BY <3>3 DEF Counted, p, w
  <2>4. CountedHere(i, s.route) \in SUBSET [start : Time, count : Nat]
    <3>1. Current(i, s.route) \subseteq [start : Time, count : Nat]
      BY SubmissionFields DEF Current, TypeOK
    <3>2. clock \in Time
      BY DEF TypeOK
    <3> QED BY <3>1, <3>2 DEF CountedHere
  <2>5. [limiter EXCEPT ![i][s.route] = CountedHere(i, s.route)]
          \in [Instance -> [Route -> SUBSET [start : Time, count : Nat]]]
    BY <2>4, SubmissionFields DEF TypeOK
  <2>6. faults' \in 0..MaxFaults
    BY <1>1, TimesAreNat DEF CountShared, CountLocal, QueryAnswers, QueryFails, TypeOK
  <2>7. /\ buckets' \in [Route -> [Time -> Nat]]
        /\ limiter' \in [Instance -> [Route -> SUBSET [start : Time, count : Nat]]]
        /\ UNCHANGED <<clock, responses, claims, restarts>>
    <3> HIDE DEF Counted
    <3> QED BY <1>1, <2>3, <2>5 DEF CountShared, CountLocal, TypeOK
  <2> QED BY <2>2, <2>6, <2>7 DEF TypeOK, responses, claims
<1>2. ASSUME NEW r \in Arrived, Step(r)
      PROVE  TypeOK'
  <2>1. /\ Arrived' = Arrived /\ req' \in [Arrived -> RequestState]
        /\ rows' \in [Submission -> SUBSET [reply : Reply, expires : Nat]]
        /\ nonceRows' \in [Nonce -> Nat]
        /\ UNCHANGED <<clock, limits>>
    <3>1. PICK to \in Steps, now \in {req[r].at, clock},
               claim \in {"none", "yes", "no", "unknown"}, reply \in Reply, pinned \in Nat :
                  Effect(r, to, now, claim, reply, pinned)
      BY <1>2, StepEffect DEF Effective
    <3>2. Arrived' = Arrived /\ req' \in [Arrived -> RequestState]
      BY <3>1, RequestFields DEF Effect, Updated
    <3>3. rows' \in [Submission -> SUBSET [reply : Reply, expires : Nat]]
      <4> DEFINE row == [reply |-> reply, expires |-> pinned]
      <4>1. rows' = rows \/ rows' = [rows EXCEPT ![req[r].sub] = {row}]
        BY <3>1 DEF Effect, RowsAfter
      <4>2. {row} \in SUBSET [reply : Reply, expires : Nat]
        OBVIOUS
      <4> HIDE DEF row
      <4> QED BY <4>1, <4>2 DEF TypeOK
    <3>4. nonceRows' \in [Nonce -> Nat]
      <4>1. Taken(r) \in [Nonce -> Nat]
        BY RequestFields, SubmissionFields DEF Taken, TypeOK
      <4> QED BY <3>1, <4>1 DEF Effect, NoncesAfter, TypeOK
    <3> QED BY <3>1, <3>2, <3>3, <3>4 DEF Effect
  <2>2. stored' \in [Instance -> [Submission -> SUBSET [reply : Reply, storedAt : Time]]]
    <3>1. ASSUME NEW status \in Status, Respond(r, status)
          PROVE  stored' \in [Instance -> [Submission -> SUBSET [reply : Reply, storedAt : Time]]]
      <4> DEFINE reply == [status |-> status, by |-> r]
      <4>1. reply \in Reply
        BY RequestFields DEF Reply
      <4>2. \/ stored' = stored
            \/ stored' = [stored EXCEPT ![req[r].inst][req[r].sub] =
                                       {[reply |-> reply, storedAt |-> clock]}]
        BY <3>1 DEF Respond
      <4> HIDE DEF reply
      <4>3. clock \in Time
        BY DEF TypeOK
      <4>4. {[reply |-> reply, storedAt |-> clock]} \in SUBSET [reply : Reply, storedAt : Time]
        BY <4>1, <4>3
      <4>5. req[r].inst \in Instance /\ req[r].sub \in Submission
        BY RequestFields
      <4> DEFINE kept == {[reply |-> reply, storedAt |-> clock]}
                 typed == [Instance -> [Submission -> SUBSET [reply : Reply, storedAt : Time]]]
      <4> HIDE DEF kept
      <4>6. CASE stored' = [stored EXCEPT ![req[r].inst][req[r].sub] = kept]
        <5>1. stored \in typed /\ kept \in SUBSET [reply : Reply, storedAt : Time]
          BY <4>4 DEF kept, TypeOK
        <5> QED BY <4>5, <4>6, <5>1
      <4> QED BY <4>2, <4>6 DEF kept, TypeOK
    <3>2. CASE Parse(r) \/ Build(r)
      BY <3>1, <3>2 DEF Parse, Build, Status, TypeOK
    <3>3. CASE LookupLocal(r)
      <4> DEFINE live == {e \in stored[req[r].inst][req[r].sub] : clock <= e.storedAt + TTL}
      <4>1. live \in SUBSET [reply : Reply, storedAt : Time]
        BY RequestFields DEF TypeOK
      <4>2. stored' = [stored EXCEPT ![req[r].inst][req[r].sub] = live]
        BY <3>3 DEF LookupLocal
      <4> HIDE DEF live
      <4> QED BY <4>1, <4>2, RequestFields DEF TypeOK
    <3> QED BY <1>2, <3>2, <3>3 DEF Step, LookupShared, Claim, ClaimFails, ClaimAnswered,
           StoreShared, StoreFails, responses, TypeOK
  <2>3. nonces' \in [Instance -> [Nonce -> Nat]]
    <3>1. CASE ClaimAnswered(r)
      <4> DEFINE kept == Pruned(req[r].inst, req[r].at)
                 i == req[r].inst
                 s == req[r].sub
      <4>1. kept \in [Nonce -> Nat]
        BY RequestFields DEF Pruned, TypeOK
      <4>2. [kept EXCEPT ![s.nonce] = s.deadline] \in [Nonce -> Nat]
        BY <4>1, RequestFields, SubmissionFields
      <4>3. nonces' \in {[nonces EXCEPT ![i] = kept],
                         [nonces EXCEPT ![i] = [kept EXCEPT ![s.nonce] = s.deadline]]}
        BY <3>1 DEF ClaimAnswered
      <4> HIDE DEF kept
      <4> QED BY <4>1, <4>2, <4>3, RequestFields DEF TypeOK
    <3> QED BY <1>2, <3>1 DEF Step, LookupShared, LookupLocal, Parse, Build, Claim, ClaimFails,
           StoreShared, StoreFails, claims, TypeOK
  <2>4. faults' \in 0..MaxFaults
    <3>1. QueryFails \/ QueryAnswers
      BY <1>2 DEF Step, LookupShared, LookupLocal, Parse, Build, Claim, ClaimFails,
         ClaimAnswered, StoreShared, StoreFails, QueryAnswers
    <3> QED BY <3>1, TimesAreNat DEF QueryFails, QueryAnswers, TypeOK
  <2>5. restarts' = restarts
    BY <1>2 DEF Step, LookupShared, LookupLocal, Parse, Build, Claim, ClaimFails,
       ClaimAnswered, StoreShared, StoreFails
  <2> QED BY <2>1, <2>2, <2>3, <2>4, <2>5 DEF limits, TypeOK
<1>3. ASSUME NEW cutoff \in 0..clock, SweepNonces(cutoff) \/ SweepResponses(cutoff)
      PROVE  TypeOK'
  <2>1. /\ nonceRows' \in [Nonce -> Nat]
        /\ rows' \in [Submission -> SUBSET [reply : Reply, expires : Nat]]
    <3>1. CASE SweepNonces(cutoff)
      BY <3>1 DEF SweepNonces, responses, TypeOK
    <3>2. CASE SweepResponses(cutoff)
      BY <3>2 DEF SweepResponses, claims, TypeOK
    <3> QED BY <1>3, <3>1, <3>2
  <2> QED BY <1>3, <2>1 DEF SweepNonces, SweepResponses, limits, responses, claims, TypeOK, Arrived
<1>4. CASE Tick
  BY <1>4, RequestAssumption DEF Tick, Time, responses, claims, Arrived, TypeOK
<1>5. ASSUME NEW i \in Instance, Recycle(i)
      PROVE  TypeOK'
  <2>1. Arrived' = Arrived
    BY <1>5 DEF Recycle, Arrived
  <2>2. ASSUME NEW r \in Arrived PROVE req'[r] \in RequestState
    <3>1. req[r] \in RequestState
      BY DEF TypeOK
    <3> DEFINE to == IF req[r].pc = "done" THEN req[r].pc ELSE "lost"
               where == IF req[r].counted = "local" THEN "forgotten" ELSE req[r].counted
    <3>2. req'[r] = req[r] \/ req'[r] = [req[r] EXCEPT !.pc = to, !.counted = where]
      BY <1>5 DEF Recycle
    <3>3. to \in Steps /\ where \in {"shared", "local", "forgotten"}
      BY <3>1 DEF RequestState, Steps
    <3> HIDE DEF to, where
    <3> QED BY <3>1, <3>2, <3>3 DEF RequestState
  <2>3. req' \in [Arrived -> RequestState]
    BY <1>5, <2>2 DEF Recycle, Arrived
  <2>4. /\ limiter' \in [Instance -> [Route -> SUBSET [start : Time, count : Nat]]]
        /\ stored' \in [Instance -> [Submission -> SUBSET [reply : Reply, storedAt : Time]]]
        /\ nonces' \in [Instance -> [Nonce -> Nat]]
    BY <1>5 DEF Recycle, TypeOK
  <2>5. restarts' \in 0..MaxRestarts
    <3>1. restarts > 0 /\ restarts' = restarts - 1
      BY <1>5 DEF Recycle
    <3>2. restarts \in 0..MaxRestarts
      BY DEF TypeOK
    <3> QED BY <3>1, <3>2, TimesAreNat
  <2> QED BY <1>5, <2>1, <2>3, <2>4, <2>5 DEF Recycle, TypeOK
<1>6. CASE UNCHANGED vars
  BY <1>6 DEF vars, Arrived, TypeOK
<1> QED BY <1>1, <1>2, <1>3, <1>4, <1>5, <1>6 DEF Next

-----------------------------------------------------------------------------
(* Replies the shared store has pinned.  A row is only replaced once it    *)
(* is gone, and a sweep only takes rows that have expired: until then the  *)
(* row is there, and it is the one every pinned reply was read from.       *)

\* An idempotency key has at most one row.
OneRow == \A s \in Submission : \A x, y \in rows[s] : x = y

\* A request is answered from a row as its last step, and the row outlives the answer.
PinnedRowIsThere ==
    \A r \in Arrived :
        /\ req[r].pc # "done" => req[r].pinned = 0
        /\ req[r].pinned > clock =>
              [reply |-> req[r].reply, expires |-> req[r].pinned] \in rows[req[r].sub]

\* Every step keeps the rows of what is pinned.
LEMMA PinStep ==
    TypeOK /\ OneRow /\ PinnedRowIsThere /\ [Next]_vars => (OneRow /\ PinnedRowIsThere)'
<1> SUFFICES ASSUME TypeOK, OneRow, PinnedRowIsThere, [Next]_vars
             PROVE  OneRow' /\ PinnedRowIsThere'
  OBVIOUS
<1>0. clock \in Nat /\ \A q \in Arrived : req[q].pinned \in Nat /\ req[q].sub \in Submission
  <2>1. clock \in Nat
    BY TimesAreNat DEF TypeOK
  <2> QED BY <2>1, RequestFields
<1>1. ASSUME NEW r \in Request, NEW i \in Instance, NEW s \in Submission,
             CountShared(r, i, s) \/ CountLocal(r, i, s)
      PROVE  OneRow' /\ PinnedRowIsThere'
  <2>1. ~(0 > clock)
    BY <1>0
  <2> QED BY <1>1, <2>1, ArrivalEffect DEF OneRow, PinnedRowIsThere
<1>2. ASSUME NEW r \in Arrived, Step(r)
      PROVE  OneRow' /\ PinnedRowIsThere'
  <2>1. PICK to \in Steps, now \in {req[r].at, clock}, claim \in {"none", "yes", "no", "unknown"},
             reply \in Reply, pinned \in Nat : Effect(r, to, now, claim, reply, pinned)
    BY <1>2, StepEffect DEF Effective
  <2> DEFINE s == req[r].sub
             row == [reply |-> reply, expires |-> pinned]
  <2>2. /\ Updated(r, to, now, claim, reply, pinned) /\ clock' = clock
        /\ req[r].pinned = 0
    BY <2>1 DEF Effect, GoesOn, PinnedRowIsThere
  <2>3. OneRow' /\ (\A q \in Arrived : \A x \in rows[req[q].sub] : x \in rows'[req[q].sub])
        /\ (pinned = 0 \/ (to = "done" /\ row \in rows'[s]))
    <3>1. CASE rows' = rows /\ pinned \in {0, req[r].pinned}
      BY <2>2, <3>1 DEF OneRow
    <3>2. CASE rows' = rows /\ to = "done" /\ row \in rows[s]
      BY <3>2 DEF OneRow
    <3>3. CASE to = "done" /\ rows[s] = {} /\ rows' = [rows EXCEPT ![s] = {row}]
      <4> HIDE DEF row, s
      <4>1. s \in Submission
        BY <1>0 DEF s
      <4>2. rows'[s] = {row} /\ \A z \in Submission : z # s => rows'[z] = rows[z]
        BY <3>3, <4>1 DEF TypeOK
      <4> QED BY <1>0, <3>3, <4>1, <4>2 DEF OneRow
    <3> QED BY <2>1, <3>1, <3>2, <3>3 DEF Effect, RowsAfter
  <2>4. PinnedRowIsThere'
    <3> SUFFICES ASSUME NEW q \in Arrived
                 PROVE  /\ req'[q].pc # "done" => req'[q].pinned = 0
                        /\ req'[q].pinned > clock =>
                              [reply |-> req'[q].reply, expires |-> req'[q].pinned]
                                 \in rows'[req'[q].sub]
      BY <2>2 DEF PinnedRowIsThere, Updated
    <3>1. CASE q # r
      BY <2>2, <2>3, <3>1 DEF PinnedRowIsThere, Updated
    <3>2. CASE q = r
      BY <1>0, <2>2, <2>3, <3>2 DEF Updated
    <3> QED BY <3>1, <3>2
  <2> QED BY <2>3, <2>4
<1>3. ASSUME NEW cutoff \in 0..clock, SweepNonces(cutoff)
      PROVE  OneRow' /\ PinnedRowIsThere'
  BY <1>3 DEF SweepNonces, responses, OneRow, PinnedRowIsThere, Arrived
<1>4. ASSUME NEW cutoff \in 0..clock, SweepResponses(cutoff)
      PROVE  OneRow' /\ PinnedRowIsThere'
  <2>1. /\ UNCHANGED <<req, clock>> /\ Arrived' = Arrived
        /\ rows' = [s \in Submission |-> {row \in rows[s] : row.expires > cutoff}]
    BY <1>4 DEF SweepResponses, Arrived
  <2>2. OneRow'
    BY <2>1 DEF OneRow
  <2>3. ASSUME NEW r \in Arrived, req[r].pinned > clock
        PROVE  [reply |-> req[r].reply, expires |-> req[r].pinned] \in rows'[req[r].sub]
    <3>1. [reply |-> req[r].reply, expires |-> req[r].pinned] \in rows[req[r].sub]
      BY <2>3 DEF PinnedRowIsThere
    <3>2. req[r].pinned > cutoff
      BY <1>0, <2>3
    <3> QED BY <1>0, <2>1, <3>1, <3>2
  <2> QED BY <2>1, <2>2, <2>3 DEF PinnedRowIsThere
<1>5. CASE Tick
  <2>1. /\ UNCHANGED <<req, rows>> /\ Arrived' = Arrived
        /\ clock' = clock + 1
    BY <1>5 DEF Tick, responses, Arrived
  <2>2. \A r \in Arrived : req[r].pinned > clock + 1 => req[r].pinned > clock
    BY <1>0
  <2> QED BY <2>1, <2>2 DEF OneRow, PinnedRowIsThere
<1>6. ASSUME NEW i \in Instance, Recycle(i)
      PROVE  OneRow' /\ PinnedRowIsThere'
  BY <1>6, RecycleEffect DEF OneRow, PinnedRowIsThere
<1>7. CASE UNCHANGED vars
  BY <1>7 DEF vars, OneRow, PinnedRowIsThere, Arrived
<1> QED BY <1>1, <1>2, <1>3, <1>4, <1>5, <1>6, <1>7 DEF Next

\* Two replies read from one row are one reply.
LEMMA PinnedRowsAgree == TypeOK /\ OneRow /\ PinnedRowIsThere => PinnedRepliesAgree
<1> SUFFICES ASSUME TypeOK, OneRow, PinnedRowIsThere, NEW a \in Arrived, NEW b \in Arrived,
                    req[a].sub = req[b].sub, req[a].pinned > clock, req[b].pinned > clock
             PROVE  req[a].reply = req[b].reply
  BY DEF PinnedRepliesAgree
<1> DEFINE x == [reply |-> req[a].reply, expires |-> req[a].pinned]
           y == [reply |-> req[b].reply, expires |-> req[b].pinned]
<1>1. x \in rows[req[a].sub] /\ y \in rows[req[a].sub] /\ req[a].sub \in Submission
  BY RequestFields DEF PinnedRowIsThere
<1>2. x = y
  BY <1>1 DEF OneRow
<1> QED BY <1>2

-----------------------------------------------------------------------------
(* Signed intents.  A transaction handed out under a signature was built   *)
(* by a request that held the nonce, or that could not ask for it; and a   *)
(* nonce that is held stays held until its deadline.                       *)

\* Submissions and replies to them.  A reply with a transaction comes from a request for
\* that submission, and, when it is signed, from one not told that the nonce is taken.
Founded ==
    {answer \in Submission \X Reply :
        answer[2].status = 200 =>
            LET by == answer[2].by IN
            /\ by \in Arrived
            /\ req[by].sub = answer[1]
            /\ answer[1].attestation = "verified" => req[by].claim \in {"yes", "unknown"}}

\* What a request has been told of its nonce, by the step it is at.
ClaimsByStep ==
    \A r \in Arrived :
        /\ req[r].at <= clock
        /\ req[r].pc \in {"lookup", "parse", "claim"} => req[r].claim = "none"
        /\ req[r].pc = "claimed" => req[r].claim # "none"
        /\ req[r].pc = "build" /\ req[r].sub.attestation = "verified"
              => req[r].claim \in {"yes", "unknown"}

\* Every reply handed out or stored is founded.
RepliesAreFounded ==
    /\ \A r \in Arrived : <<req[r].sub, req[r].reply>> \in Founded
    /\ \A s \in Submission : \A row \in rows[s] : <<s, row.reply>> \in Founded
    /\ \A i \in Instance, s \in Submission : \A e \in stored[i][s] : <<s, e.reply>> \in Founded

\* A step after which what was founded still is, and what is new is founded then.
LEMMA FoundedStays ==
    ASSUME Arrived \subseteq Arrived',
           \A q \in Arrived : /\ req'[q].sub = req[q].sub
                              /\ req[q].claim # "none" => req'[q].claim = req[q].claim
    PROVE  Founded \subseteq Founded'
BY DEF Founded

\* Every step keeps what requests were told of their nonces, and founds what is replied.
LEMMA ClaimStep ==
    TypeOK /\ ClaimsByStep /\ RepliesAreFounded /\ [Next]_vars
      => (ClaimsByStep /\ RepliesAreFounded)'
<1> SUFFICES ASSUME TypeOK, ClaimsByStep, RepliesAreFounded, [Next]_vars
             PROVE  ClaimsByStep' /\ RepliesAreFounded'
  OBVIOUS
<1>0. clock \in Nat /\ \A q \in Arrived : req[q].at \in Nat /\ req[q].sub \in Submission
  <2>1. clock \in Nat
    BY TimesAreNat DEF TypeOK
  <2> QED BY <2>1, RequestFields, TimesAreNat
<1>1. ASSUME NEW r \in Request, NEW i \in Instance, NEW s \in Submission,
             CountShared(r, i, s) \/ CountLocal(r, i, s)
      PROVE  ClaimsByStep' /\ RepliesAreFounded'
  <2>1. ClaimsByStep'
    BY <1>0, <1>1, ArrivalEffect DEF ClaimsByStep
  <2>2. RepliesAreFounded'
    <3>1. Founded \subseteq Founded'
      BY <1>1, ArrivalEffect, FoundedStays
    <3>2. <<s, req'[r].reply>> \in Founded'
      <4>1. req'[r].reply \in Reply
        BY <1>1, TypeStep, ArrivalEffect DEF TypeOK, RequestState
      <4> QED BY <1>1, <4>1, ArrivalEffect DEF Founded
    <3> QED BY <1>1, <3>1, <3>2, ArrivalEffect DEF RepliesAreFounded
  <2> QED BY <2>1, <2>2
<1>2. ASSUME NEW r \in Arrived, Step(r)
      PROVE  ClaimsByStep' /\ RepliesAreFounded'
  <2>1. PICK to \in Steps, now \in {req[r].at, clock}, claim \in {"none", "yes", "no", "unknown"},
             reply \in Reply, pinned \in Nat : Effect(r, to, now, claim, reply, pinned)
    BY <1>2, StepEffect DEF Effective
  <2>2. Updated(r, to, now, claim, reply, pinned) /\ clock' = clock /\ GoesOn(r, to, claim)
    BY <2>1 DEF Effect
  <2>3. ClaimsByStep'
    BY <1>0, <2>2 DEF ClaimsByStep, Updated, GoesOn
  <2>4. RepliesAreFounded'
    <3>1. Founded \subseteq Founded'
      BY <2>2, FoundedStays DEF ClaimsByStep, Updated, GoesOn
    <3>2. <<req[r].sub, reply>> \in Founded'
      <4>1. CASE reply = req[r].reply
        BY <3>1, <4>1 DEF RepliesAreFounded
      <4>2. CASE reply.by = r /\ (reply.status = 200 => req[r].pc = "build")
        BY <2>2, <4>2, RequestFields DEF Founded, ClaimsByStep, Updated, GoesOn
      <4>3. CASE \/ \E row \in rows[req[r].sub] : reply = row.reply
                 \/ \E e \in stored[req[r].inst][req[r].sub] : reply = e.reply
        BY <3>1, <4>3, RequestFields DEF RepliesAreFounded
      <4> QED BY <2>1, <4>1, <4>2, <4>3 DEF Effect, Answers
    <3>3. ASSUME NEW z \in Submission, NEW row \in rows'[z]
          PROVE  <<z, row.reply>> \in Founded'
      <4>1. CASE row \in rows[z]
        BY <3>1, <4>1 DEF RepliesAreFounded
      <4>2. CASE z = req[r].sub /\ row.reply = reply
        BY <3>2, <4>2
      <4>3. row \in rows[z] \/ (z = req[r].sub /\ row.reply = reply)
        <5>1. CASE rows' = rows
          BY <5>1
        <5> DEFINE s == req[r].sub
                   new == [reply |-> reply, expires |-> pinned]
        <5>2. CASE rows' = [rows EXCEPT ![s] = {new}]
          <6> HIDE DEF new
          <6>1. row \in rows[z] \/ (z = s /\ row = new)
            BY <1>0, <5>2 DEF TypeOK
          <6> QED BY <6>1 DEF new
        <5> QED BY <2>1, <5>1, <5>2 DEF Effect, RowsAfter
      <4> QED BY <4>1, <4>2, <4>3
    <3>4. ASSUME NEW i \in Instance, NEW z \in Submission, NEW e \in stored'[i][z]
          PROVE  <<z, e.reply>> \in Founded'
      BY <2>1, <3>1, <3>2, <3>4 DEF Effect, StoredAfter, RepliesAreFounded
    <3>5. ASSUME NEW q \in Arrived
          PROVE  <<req[q].sub, req'[q].reply>> \in Founded'
      BY <2>2, <3>1, <3>2, <3>5 DEF Updated, RepliesAreFounded
    <3> QED BY <2>2, <3>3, <3>4, <3>5 DEF Updated, RepliesAreFounded
  <2> QED BY <2>3, <2>4
<1>3. ASSUME NEW cutoff \in 0..clock, SweepNonces(cutoff)
      PROVE  ClaimsByStep' /\ RepliesAreFounded'
  BY <1>3 DEF SweepNonces, responses, ClaimsByStep, RepliesAreFounded, Founded, Arrived
<1>4. ASSUME NEW cutoff \in 0..clock, SweepResponses(cutoff)
      PROVE  ClaimsByStep' /\ RepliesAreFounded'
  BY <1>4 DEF SweepResponses, ClaimsByStep, RepliesAreFounded, Founded, Arrived
<1>5. CASE Tick
  <2>1. UNCHANGED <<req, rows, stored>> /\ Arrived' = Arrived /\ clock' = clock + 1
    BY <1>5 DEF Tick, responses, Arrived
  <2>2. \A r \in Arrived : req[r].at <= clock + 1
    BY <1>0 DEF ClaimsByStep
  <2> QED BY <2>1, <2>2 DEF ClaimsByStep, RepliesAreFounded, Founded
<1>6. ASSUME NEW i \in Instance, Recycle(i)
      PROVE  ClaimsByStep' /\ RepliesAreFounded'
  <2>1. ClaimsByStep'
    BY <1>6, RecycleEffect DEF ClaimsByStep
  <2>2. Founded \subseteq Founded'
    BY <1>6, RecycleEffect, FoundedStays, RequestFields
  <2>3. \A j \in Instance, z \in Submission : stored'[j][z] \subseteq stored[j][z]
    BY <1>6 DEF Recycle, TypeOK
  <2> QED BY <1>6, <2>1, <2>2, <2>3, RecycleEffect DEF RepliesAreFounded
<1>7. CASE UNCHANGED vars
  BY <1>7 DEF vars, ClaimsByStep, RepliesAreFounded, Founded, Arrived
<1> QED BY <1>1, <1>2, <1>3, <1>4, <1>5, <1>6, <1>7 DEF Next

\* The request was told it has the nonce, and the intent is live.
Holds(r) == req[r].claim = "yes" /\ req[r].sub.deadline > clock

\* A nonce is held for the one request that claimed it, until its deadline.
NonceIsHeld ==
    /\ \A r \in Arrived : Holds(r) => nonceRows[req[r].sub.nonce] = req[r].sub.deadline
    /\ \A a, b \in Arrived :
          Holds(a) /\ Holds(b) /\ req[a].sub.nonce = req[b].sub.nonce => a = b

\* Every step keeps the nonces that are held.
LEMMA NonceStep ==
    TypeOK /\ ClaimsByStep /\ NonceIsHeld /\ [Next]_vars => NonceIsHeld'
<1> SUFFICES ASSUME TypeOK, ClaimsByStep, NonceIsHeld, [Next]_vars PROVE NonceIsHeld'
  OBVIOUS
<1>0. /\ clock \in Nat
      /\ \A q \in Arrived : /\ req[q].at \in Nat /\ req[q].at <= clock
                            /\ req[q].sub.nonce \in Nonce /\ req[q].sub.deadline \in Nat
  <2>1. clock \in Nat
    BY TimesAreNat DEF TypeOK
  <2> QED BY <2>1, RequestFields, SubmissionFields, TimesAreNat DEF ClaimsByStep
<1>1. ASSUME NEW r \in Request, NEW i \in Instance, NEW s \in Submission,
             CountShared(r, i, s) \/ CountLocal(r, i, s)
      PROVE  NonceIsHeld'
  BY <1>1, ArrivalEffect DEF NonceIsHeld, Holds
<1>2. ASSUME NEW r \in Arrived, Step(r)
      PROVE  NonceIsHeld'
  <2>1. PICK to \in Steps, now \in {req[r].at, clock}, claim \in {"none", "yes", "no", "unknown"},
             reply \in Reply, pinned \in Nat : Effect(r, to, now, claim, reply, pinned)
    BY <1>2, StepEffect DEF Effective
  <2>2. Updated(r, to, now, claim, reply, pinned) /\ clock' = clock /\ NoncesAfter(r, claim)
    BY <2>1 DEF Effect
  <2>3. \A q \in Arrived : q # r => (Holds(q)' <=> Holds(q)) /\ req'[q].sub = req[q].sub
    BY <2>2 DEF Updated, Holds
  <2>4. CASE nonceRows' = nonceRows /\ (claim = "yes" => req[r].claim = "yes")
    BY <2>2, <2>3, <2>4 DEF Updated, Holds, NonceIsHeld
  <2>5. CASE req[r].pc = "claim" /\ IsFree(r) /\ nonceRows' = Taken(r)
    <3>1. \A q \in Arrived : Holds(q) => req[q].sub.nonce # req[r].sub.nonce
      <4> SUFFICES ASSUME NEW q \in Arrived, Holds(q), req[q].sub.nonce = req[r].sub.nonce
                   PROVE  FALSE
        OBVIOUS
      <4>1. nonceRows[req[r].sub.nonce] = req[q].sub.deadline /\ req[q].sub.deadline > clock
        BY DEF NonceIsHeld, Holds
      <4>2. nonceRows[req[r].sub.nonce] <= req[r].at
        BY <2>5 DEF IsFree, Free
      <4> QED BY <1>0, <4>1, <4>2
    <3>2. /\ nonceRows'[req[r].sub.nonce] = req[r].sub.deadline
          /\ \A n \in Nonce : n # req[r].sub.nonce => nonceRows'[n] = nonceRows[n]
      BY <1>0, <2>5 DEF Taken, TypeOK
    <3>3. ASSUME NEW q \in Arrived, Holds(q)'
          PROVE  nonceRows'[req'[q].sub.nonce] = req'[q].sub.deadline
      <4>1. CASE q = r
        BY <2>2, <3>2, <4>1 DEF Updated
      <4>2. CASE q # r
        BY <1>0, <2>3, <3>1, <3>2, <3>3, <4>2 DEF NonceIsHeld
      <4> QED BY <4>1, <4>2
    <3>4. ASSUME NEW a \in Arrived, NEW b \in Arrived, Holds(a)', Holds(b)',
                 req'[a].sub.nonce = req'[b].sub.nonce
          PROVE  a = b
      <4>1. req'[r].sub = req[r].sub
        BY <2>2 DEF Updated
      <4> QED BY <2>3, <3>1, <3>4, <4>1 DEF NonceIsHeld
    <3> QED BY <2>2, <3>3, <3>4 DEF Updated, NonceIsHeld
  <2> QED BY <2>2, <2>4, <2>5 DEF NoncesAfter
<1>3. ASSUME NEW cutoff \in 0..clock, SweepNonces(cutoff)
      PROVE  NonceIsHeld'
  <2>1. /\ UNCHANGED <<req, clock>> /\ Arrived' = Arrived
        /\ nonceRows' = [n \in Nonce |-> IF nonceRows[n] <= cutoff THEN 0 ELSE nonceRows[n]]
    BY <1>3 DEF SweepNonces, Arrived
  <2>2. ASSUME NEW r \in Arrived, Holds(r)
        PROVE  nonceRows'[req[r].sub.nonce] = req[r].sub.deadline
    <3>1. nonceRows[req[r].sub.nonce] = req[r].sub.deadline /\ req[r].sub.deadline > clock
      BY <2>2 DEF NonceIsHeld, Holds
    <3> QED BY <1>0, <2>1, <3>1
  <2> QED BY <2>1, <2>2 DEF NonceIsHeld, Holds
<1>4. ASSUME NEW cutoff \in 0..clock, SweepResponses(cutoff)
      PROVE  NonceIsHeld'
  BY <1>4 DEF SweepResponses, claims, NonceIsHeld, Holds, Arrived
<1>5. CASE Tick
  <2>1. UNCHANGED <<req, nonceRows>> /\ Arrived' = Arrived /\ clock' = clock + 1
    BY <1>5 DEF Tick, claims, Arrived
  <2>2. \A r \in Arrived : Holds(r)' => Holds(r)
    BY <1>0, <2>1 DEF Holds
  <2> QED BY <2>1, <2>2 DEF NonceIsHeld
<1>6. ASSUME NEW i \in Instance, Recycle(i)
      PROVE  NonceIsHeld'
  BY <1>6, RecycleEffect DEF NonceIsHeld, Holds
<1>7. CASE UNCHANGED vars
  BY <1>7 DEF vars, NonceIsHeld, Holds, Arrived
<1> QED BY <1>1, <1>2, <1>3, <1>4, <1>5, <1>6, <1>7 DEF Next

\* Two transactions of one live nonce were built by the request that holds it.
LEMMA HeldNoncesGiveOne ==
    TypeOK /\ RepliesAreFounded /\ NonceIsHeld => OneTransactionPerLiveNonce
<1> SUFFICES ASSUME TypeOK, RepliesAreFounded, NonceIsHeld,
                    NEW a \in Arrived, NEW b \in Arrived,
                    Built(a), LiveIntent(a), Built(b), LiveIntent(b),
                    req[a].sub.nonce = req[b].sub.nonce,
                    ~("unknown" \in {req[req[a].reply.by].claim, req[req[b].reply.by].claim})
             PROVE  req[a].reply.by = req[b].reply.by
  BY DEF OneTransactionPerLiveNonce
<1> DEFINE x == req[a].reply.by
           y == req[b].reply.by
<1>1. x \in Arrived /\ req[x].sub = req[a].sub /\ req[x].claim = "yes"
  BY DEF RepliesAreFounded, Founded, Built, LiveIntent
<1>2. y \in Arrived /\ req[y].sub = req[b].sub /\ req[y].claim = "yes"
  BY DEF RepliesAreFounded, Founded, Built, LiveIntent
<1>3. Holds(x) /\ Holds(y)
  BY <1>1, <1>2 DEF Holds, LiveIntent
<1> QED BY <1>1, <1>2, <1>3 DEF NonceIsHeld

-----------------------------------------------------------------------------
(* Admissions.  The shared counter counts every request of a window, so it *)
(* bounds the admitted ones.  An instance's own window starts wherever its *)
(* first request fell: a shared window meets at most two of them, and the  *)
(* requests of the later one that fall into the shared window in which it  *)
(* started come on top of the earlier one's.                               *)

\* The requests admitted in a window, and where they were counted.
SharedIn(p, w) == AdmittedIn(p, w, "shared")
LocalIn(i, p, w) == {r \in AdmittedIn(p, w, "local") : req[r].inst = i}

\* Finitely many requests have arrived, none after now, and a refused one is over.
ArrivalsAreKnown ==
    /\ IsFiniteSet(Arrived)
    /\ \A r \in Arrived : /\ req[r].arrived <= clock
                          /\ req[r].reply.status = 429 => req[r].pc = "done"

\* The shared counter bounds what the window has admitted by it.
SharedBound ==
    \A p \in Route, w \in Time :
        /\ Cardinality(SharedIn(p, w)) <= buckets[p][w]
        /\ Cardinality(SharedIn(p, w)) <= MaxRequests

\* The requests of shared window w that entry e of an instance accounts for.
WithinEntry(n, e, w) ==
    /\ w > e.start => n <= e.count - 1
    /\ w = Window(e.start) => n <= MaxRequests - 1 + e.count

\* An instance counts in one entry, and that bounds what it has admitted by itself.
LocalBoundIn(i, p) ==
    /\ \A e \in limiter[i][p] : /\ limiter[i][p] = {e}
                                /\ e.count \in 1..MaxRequests
                                /\ e.start <= clock
    /\ \A w \in Time :
          /\ Cardinality(LocalIn(i, p, w)) <= 2 * MaxRequests - 1
          /\ limiter[i][p] = {} => LocalIn(i, p, w) = {}
          /\ \A e \in limiter[i][p] : WithinEntry(Cardinality(LocalIn(i, p, w)), e, w)

LocalBound == \A i \in Instance, p \in Route : LocalBoundIn(i, p)

\* A set that gains at most one element.
LEMMA CardGrows ==
    ASSUME NEW S, IsFiniteSet(S), NEW x, NEW T, T \subseteq S \cup {x}
    PROVE  /\ IsFiniteSet(T) /\ Cardinality(S) \in Nat /\ Cardinality(T) \in Nat
           /\ Cardinality(T) <= Cardinality(S) + 1
           /\ T \subseteq S => Cardinality(T) <= Cardinality(S)
<1>1. /\ IsFiniteSet(S \cup {x}) /\ Cardinality(S) \in Nat /\ Cardinality(S \cup {x}) \in Nat
      /\ Cardinality(S \cup {x}) <= Cardinality(S) + 1
  <2>1. IsFiniteSet(S \cup {x}) /\ Cardinality(S) \in Nat
    BY FS_AddElement, FS_CardinalityType
  <2>2. Cardinality(S \cup {x}) = IF x \in S THEN Cardinality(S) ELSE Cardinality(S) + 1
    BY FS_AddElement
  <2> QED BY <2>1, <2>2
<1>2. T \in SUBSET (S \cup {x})
  OBVIOUS
<1>3. IsFiniteSet(T) /\ Cardinality(T) <= Cardinality(S \cup {x})
  BY <1>1, <1>2, FS_Subset
<1>4. Cardinality(T) \in Nat
  BY <1>3, FS_CardinalityType
<1>5. T \subseteq S => Cardinality(T) <= Cardinality(S)
  BY FS_Subset
<1> QED BY <1>1, <1>3, <1>4, <1>5

\* The requests counted in a window are finitely many.
LEMMA CountsAreFinite ==
    ASSUME ArrivalsAreKnown, NEW i, NEW p, NEW w
    PROVE  /\ IsFiniteSet(SharedIn(p, w)) /\ Cardinality(SharedIn(p, w)) \in Nat
           /\ IsFiniteSet(LocalIn(i, p, w)) /\ Cardinality(LocalIn(i, p, w)) \in Nat
<1>1. SharedIn(p, w) \in SUBSET Arrived /\ LocalIn(i, p, w) \in SUBSET Arrived
  BY DEF SharedIn, LocalIn, AdmittedIn
<1>2. IsFiniteSet(SharedIn(p, w)) /\ IsFiniteSet(LocalIn(i, p, w))
  BY <1>1, FS_Subset DEF ArrivalsAreKnown
<1> QED BY <1>2, FS_CardinalityType

\* Every step keeps what is known of the arrivals.
LEMMA ArrivalsStep == TypeOK /\ ArrivalsAreKnown /\ [Next]_vars => ArrivalsAreKnown'
<1> SUFFICES ASSUME TypeOK, ArrivalsAreKnown, [Next]_vars PROVE ArrivalsAreKnown'
  OBVIOUS
<1>0. clock \in Nat /\ \A q \in Arrived : req[q].arrived \in Nat
  <2>1. clock \in Nat
    BY TimesAreNat DEF TypeOK
  <2> QED BY <2>1, RequestFields, TimesAreNat
<1>1. ASSUME NEW r \in Request, NEW i \in Instance, NEW s \in Submission,
             CountShared(r, i, s) \/ CountLocal(r, i, s)
      PROVE  ArrivalsAreKnown'
  <2>1. IsFiniteSet(Arrived')
    BY <1>1, ArrivalEffect, FS_AddElement DEF ArrivalsAreKnown
  <2> QED BY <1>0, <1>1, <2>1, ArrivalEffect DEF ArrivalsAreKnown
<1>2. ASSUME NEW r \in Arrived, Step(r)
      PROVE  ArrivalsAreKnown'
  <2>1. PICK to \in Steps, now \in {req[r].at, clock}, claim \in {"none", "yes", "no", "unknown"},
             reply \in Reply, pinned \in Nat : Effect(r, to, now, claim, reply, pinned)
    BY <1>2, StepEffect DEF Effective
  <2> QED BY <2>1 DEF Effect, Updated, GoesOn, Answers, ArrivalsAreKnown
<1>3. ASSUME NEW cutoff \in 0..clock, SweepNonces(cutoff) \/ SweepResponses(cutoff)
      PROVE  ArrivalsAreKnown'
  BY <1>3 DEF SweepNonces, SweepResponses, ArrivalsAreKnown, Arrived
<1>4. CASE Tick
  <2>1. UNCHANGED req /\ Arrived' = Arrived /\ clock' = clock + 1
    BY <1>4 DEF Tick, Arrived
  <2>2. \A r \in Arrived : req[r].arrived <= clock + 1
    BY <1>0 DEF ArrivalsAreKnown
  <2> QED BY <2>1, <2>2 DEF ArrivalsAreKnown
<1>5. ASSUME NEW i \in Instance, Recycle(i)
      PROVE  ArrivalsAreKnown'
  BY <1>5, RecycleEffect DEF ArrivalsAreKnown
<1>6. CASE UNCHANGED vars
  BY <1>6 DEF vars, ArrivalsAreKnown, Arrived
<1> QED BY <1>1, <1>2, <1>3, <1>4, <1>5, <1>6 DEF Next

\* No step but an arrival adds to what a window has admitted.
LEMMA CountsShrink ==
    ASSUME TypeOK, ArrivalsAreKnown,
           \/ \E r \in Arrived : Step(r)
           \/ \E cutoff \in 0..clock : SweepNonces(cutoff) \/ SweepResponses(cutoff)
           \/ Tick \/ UNCHANGED vars \/ \E i \in Instance : Recycle(i),
           NEW j, NEW p, NEW w
    PROVE  SharedIn(p, w)' \subseteq SharedIn(p, w) /\ LocalIn(j, p, w)' \subseteq LocalIn(j, p, w)
<1> DEFINE Kept(q) == /\ req'[q].sub = req[q].sub /\ req'[q].inst = req[q].inst
                      /\ req'[q].arrived = req[q].arrived
                      /\ req'[q].counted \in {req[q].counted, "forgotten"}
                      /\ req[q].reply.status = 429 => req'[q].reply.status = 429
<1>1. Arrived' = Arrived /\ \A q \in Arrived : Kept(q)
  <2>1. ASSUME NEW r \in Arrived, Step(r)
        PROVE  Arrived' = Arrived /\ \A q \in Arrived : Kept(q)
    <3>1. PICK to \in Steps, now \in {req[r].at, clock},
               claim \in {"none", "yes", "no", "unknown"}, reply \in Reply, pinned \in Nat :
                  Effect(r, to, now, claim, reply, pinned)
      BY <2>1, StepEffect DEF Effective
    <3> QED BY <3>1 DEF Effect, Updated, GoesOn, ArrivalsAreKnown
  <2>2. CASE \/ \E cutoff \in 0..clock : SweepNonces(cutoff) \/ SweepResponses(cutoff)
             \/ Tick \/ UNCHANGED vars
    BY <2>2 DEF SweepNonces, SweepResponses, Tick, vars, Arrived
  <2>3. ASSUME NEW i \in Instance, Recycle(i)
        PROVE  Arrived' = Arrived /\ \A q \in Arrived : Kept(q)
    BY <2>3, RecycleEffect
  <2> QED BY <2>1, <2>2, <2>3
<1> QED BY <1>1 DEF SharedIn, LocalIn, AdmittedIn, Admitted

\* An arrival is added to the count of its window where it was counted, if at all.
LEMMA SharedGrows ==
    ASSUME NEW r \in Request, NEW i \in Instance, NEW s \in Submission,
           NEW where, NEW allowed \in BOOLEAN, r \notin Arrived, Begin(r, i, s, where, allowed),
           NEW p, NEW w
    PROVE  /\ SharedIn(p, w)' \subseteq SharedIn(p, w) \cup {r}
           /\ ~(allowed /\ where = "shared" /\ p = s.route /\ w = Window(clock))
                 => SharedIn(p, w)' \subseteq SharedIn(p, w)
<1>1. /\ Arrived' = Arrived \cup {r} /\ \A q \in Arrived : req'[q] = req[q]
      /\ req'[r].sub = s /\ req'[r].arrived = clock
      /\ req'[r].counted = where /\ (req'[r].reply.status # 429 <=> allowed)
  BY DEF Begin, Arrived
<1> QED BY <1>1 DEF SharedIn, AdmittedIn, Admitted

\* The same, for what an instance counted itself.
LEMMA LocalGrows ==
    ASSUME NEW r \in Request, NEW i \in Instance, NEW s \in Submission,
           NEW where, NEW allowed \in BOOLEAN, r \notin Arrived, Begin(r, i, s, where, allowed),
           NEW j, NEW p, NEW w
    PROVE  /\ LocalIn(j, p, w)' \subseteq LocalIn(j, p, w) \cup {r}
           /\ ~(allowed /\ where = "local" /\ j = i /\ p = s.route /\ w = Window(clock))
                 => LocalIn(j, p, w)' \subseteq LocalIn(j, p, w)
<1>1. /\ Arrived' = Arrived \cup {r} /\ \A q \in Arrived : req'[q] = req[q]
      /\ req'[r].sub = s /\ req'[r].inst = i /\ req'[r].arrived = clock
      /\ req'[r].counted = where /\ (req'[r].reply.status # 429 <=> allowed)
  BY DEF Begin, Arrived
<1> QED BY <1>1 DEF LocalIn, AdmittedIn, Admitted

\* Every step keeps the bound of the shared counter.
LEMMA SharedStep == TypeOK /\ ArrivalsAreKnown /\ SharedBound /\ [Next]_vars => SharedBound'
<1> SUFFICES ASSUME TypeOK, ArrivalsAreKnown, SharedBound, [Next]_vars,
                    NEW p \in Route, NEW w \in Time
             PROVE  /\ Cardinality(SharedIn(p, w)') <= buckets'[p][w]
                    /\ Cardinality(SharedIn(p, w)') <= MaxRequests
  BY DEF SharedBound
<1> DEFINE S == SharedIn(p, w)
<1>0. /\ IsFiniteSet(S) /\ Cardinality(S) \in Nat /\ buckets[p][w] \in Nat
      /\ Cardinality(S) <= buckets[p][w] /\ Cardinality(S) <= MaxRequests
      /\ clock \in Time /\ MaxRequests \in Nat
  <2>1. IsFiniteSet(S) /\ Cardinality(S) \in Nat
    BY CountsAreFinite
  <2>2. buckets[p][w] \in Nat /\ clock \in Time /\ MaxRequests \in Nat
    BY TimesAreNat DEF TypeOK
  <2> QED BY <2>1, <2>2 DEF SharedBound
<1>1. ASSUME S' \subseteq S, buckets'[p][w] \in Nat, buckets'[p][w] >= buckets[p][w]
      PROVE  Cardinality(S') <= buckets'[p][w] /\ Cardinality(S') <= MaxRequests
  <2>1. Cardinality(S') <= Cardinality(S) /\ Cardinality(S') \in Nat
    BY <1>0, <1>1, CardGrows
  <2> QED BY <1>0, <1>1, <2>1
<1>2. ASSUME NEW r \in Request, NEW i \in Instance, NEW s \in Submission,
             CountShared(r, i, s)
      PROVE  Cardinality(S') <= buckets'[p][w] /\ Cardinality(S') <= MaxRequests
  <2>1. /\ r \notin Arrived /\ Begin(r, i, s, "shared", SharedAllows(s.route))
        /\ SharedAllows(s.route) \in BOOLEAN
        /\ buckets' = Counted(s.route)
    BY <1>2 DEF CountShared, MayArrive, SharedAllows, UnderCap
  <2>2. buckets'[p][w] = IF p = s.route /\ w = Window(clock) THEN buckets[p][w] + 1
                         ELSE buckets[p][w]
    BY <2>1 DEF Counted, TypeOK
  <2>3. CASE SharedAllows(s.route) /\ p = s.route /\ w = Window(clock)
    <3>1. S' \subseteq S \cup {r}
      BY <2>1, SharedGrows
    <3>2. Cardinality(S') <= Cardinality(S) + 1 /\ Cardinality(S') \in Nat
      BY <1>0, <3>1, CardGrows
    <3>3. buckets[p][w] < MaxRequests /\ buckets'[p][w] = buckets[p][w] + 1
      BY <2>2, <2>3 DEF SharedAllows, UnderCap
    <3> QED BY <1>0, <3>2, <3>3
  <2>4. CASE ~(SharedAllows(s.route) /\ p = s.route /\ w = Window(clock))
    <3>1. S' \subseteq S
      BY <2>1, <2>4, SharedGrows
    <3> QED BY <1>0, <1>1, <2>2, <3>1
  <2> QED BY <2>3, <2>4
<1>3. ASSUME NEW r \in Request, NEW i \in Instance, NEW s \in Submission,
             CountLocal(r, i, s)
      PROVE  Cardinality(S') <= buckets'[p][w] /\ Cardinality(S') <= MaxRequests
  <2>1. /\ r \notin Arrived /\ Begin(r, i, s, "local", LocalAllows(i, s.route))
        /\ LocalAllows(i, s.route) \in BOOLEAN
        /\ buckets' \in {buckets, Counted(s.route)}
    BY <1>3 DEF CountLocal, MayArrive, LocalAllows
  <2>2. buckets'[p][w] \in {buckets[p][w], buckets[p][w] + 1}
    <3>1. CASE buckets' = buckets
      BY <1>0, <3>1
    <3>2. CASE buckets' = Counted(s.route)
      BY <1>0, <3>2 DEF Counted, TypeOK
    <3> QED BY <2>1, <3>1, <3>2
  <2>3. S' \subseteq S
    BY <2>1, SharedGrows
  <2> QED BY <1>0, <1>1, <2>2, <2>3
<1>4. CASE \/ \E r \in Arrived : Step(r)
           \/ \E cutoff \in 0..clock : SweepNonces(cutoff) \/ SweepResponses(cutoff)
           \/ Tick \/ UNCHANGED vars \/ \E i \in Instance : Recycle(i)
  <2>1. buckets' = buckets
    <3>1. ASSUME NEW r \in Arrived, Step(r) PROVE buckets' = buckets
      BY <3>1, StepEffect DEF Effective, Effect, limits
    <3> QED BY <1>4, <3>1 DEF SweepNonces, SweepResponses, Tick, vars, Recycle, limits
  <2>2. S' \subseteq S
    BY <1>4, CountsShrink
  <2> QED BY <1>0, <1>1, <2>1, <2>2
<1> QED BY <1>2, <1>3, <1>4 DEF Next

\* Counting one more request where an instance counts it (checkInProcess).  There are n
\* requests of the instance in w so far, and at most one more after.
LEMMA EntryGrows ==
    ASSUME NEW n \in Nat, NEW m \in Nat, NEW e \in [start : Time, count : Nat],
           e.count \in 1..MaxRequests, e.count < MaxRequests, e.start <= clock, clock \in Time,
           NEW w \in Time, WithinEntry(n, e, w), n <= 2 * MaxRequests - 1,
           IF w = Window(clock) THEN m <= n + 1 ELSE m <= n
    PROVE  /\ m <= 2 * MaxRequests - 1
           /\ WithinEntry(m, [start |-> e.start, count |-> e.count + 1], w)
<1>0. e.start \in Nat /\ clock \in Nat /\ w \in Nat /\ MaxRequests \in Nat /\ e.count \in Nat
  BY TimesAreNat
<1>1. CASE w # Window(clock)
  BY <1>0, <1>1 DEF WithinEntry
<1>2. CASE w = Window(clock)
  <2>1. w > e.start \/ w = Window(e.start)
    BY <1>0, <1>2, WindowsInOrder
  <2>2. w = Window(e.start) => ~(w > e.start)
    BY <1>0, WindowBounds
  <2> QED BY <1>0, <1>2, <2>1, <2>2 DEF WithinEntry
<1> QED BY <1>1, <1>2

\* Every step keeps the bound of an instance's own counter.
LEMMA LocalStep == TypeOK /\ ArrivalsAreKnown /\ LocalBound /\ [Next]_vars => LocalBound'
<1> SUFFICES ASSUME TypeOK, ArrivalsAreKnown, LocalBound, [Next]_vars,
                    NEW j \in Instance, NEW p \in Route
             PROVE  LocalBoundIn(j, p)'
  BY DEF LocalBound
<1> DEFINE A(w) == LocalIn(j, p, w)
           Here == limiter[j][p]
<1>0. /\ clock \in Time /\ clock \in Nat /\ MaxRequests \in Nat /\ MaxRequests > 0
      /\ Here \in SUBSET [start : Time, count : Nat]
      /\ \A e \in Here : Here = {e} /\ e.count \in 1..MaxRequests /\ e.start <= clock
      /\ \A e \in Here : e.start \in Nat /\ e.count \in Nat
  BY TimesAreNat DEF LocalBound, LocalBoundIn, TypeOK
<1>1. \A w \in Time : /\ IsFiniteSet(A(w)) /\ Cardinality(A(w)) \in Nat
                      /\ Cardinality(A(w)) <= 2 * MaxRequests - 1
                      /\ Here = {} => A(w) = {}
                      /\ \A e \in Here : WithinEntry(Cardinality(A(w)), e, w)
  BY CountsAreFinite DEF LocalBound, LocalBoundIn
<1>2. ASSUME limiter'[j][p] = Here, clock' \in {clock, clock + 1},
             \A w \in Time : A(w)' \subseteq A(w)
      PROVE  LocalBoundIn(j, p)'
  <2>1. \A e \in Here : e.start <= clock'
    BY <1>0, <1>2
  <2>2. ASSUME NEW w \in Time
        PROVE  /\ Cardinality(A(w)') <= 2 * MaxRequests - 1
               /\ Here = {} => A(w)' = {}
               /\ \A e \in Here : WithinEntry(Cardinality(A(w)'), e, w)
    <3>1. Cardinality(A(w)') <= Cardinality(A(w)) /\ Cardinality(A(w)') \in Nat
      BY <1>1, <1>2, CardGrows
    <3>2. \A e \in Here : WithinEntry(Cardinality(A(w)'), e, w)
      <4>1. \A n, m \in Nat : \A e \in Here :
               m <= n /\ WithinEntry(n, e, w) => WithinEntry(m, e, w)
        BY <1>0 DEF WithinEntry
      <4>2. Cardinality(A(w)) \in Nat /\ \A e \in Here : WithinEntry(Cardinality(A(w)), e, w)
        BY <1>1
      <4> QED BY <3>1, <4>1, <4>2
    <3>3. Cardinality(A(w)') <= 2 * MaxRequests - 1
      BY <1>0, <1>1, <3>1
    <3>4. Here = {} => A(w)' = {}
      BY <1>1, <1>2
    <3> QED BY <3>2, <3>3, <3>4
  <2> QED BY <1>0, <1>2, <2>1, <2>2 DEF LocalBoundIn
<1>3. ASSUME NEW r \in Request, NEW i \in Instance, NEW s \in Submission,
             CountLocal(r, i, s), LocalAllows(i, s.route), j = i, p = s.route
      PROVE  LocalBoundIn(j, p)'
  <2>1. /\ clock' = clock /\ r \notin Arrived
        /\ Begin(r, i, s, "local", LocalAllows(i, s.route))
        /\ limiter' = [limiter EXCEPT ![j][p] = CountedHere(j, p)]
    BY <1>3 DEF CountLocal, MayArrive
  <2>2. limiter'[j][p] = CountedHere(j, p)
    BY <2>1 DEF TypeOK
  <2>3. \A w \in Time : /\ A(w)' \subseteq A(w) \cup {r}
                        /\ w # Window(clock) => A(w)' \subseteq A(w)
    BY <1>3, <2>1, LocalGrows DEF LocalAllows
  <2>4. \A w \in Time :
           /\ Cardinality(A(w)') \in Nat
           /\ IF w = Window(clock) THEN Cardinality(A(w)') <= Cardinality(A(w)) + 1
                                   ELSE Cardinality(A(w)') <= Cardinality(A(w))
    BY <1>1, <2>3, CardGrows
  <2>5. CASE Current(j, p) = {}
    <3> DEFINE new == [start |-> clock, count |-> 1]
    <3>1. CountedHere(j, p) = {new}
      BY <2>5 DEF CountedHere
    <3>2. ASSUME NEW w \in Time, w = Window(clock)
          PROVE  Cardinality(A(w)) <= MaxRequests - 1
      <4>1. CASE Here = {}
        BY <1>0, <1>1, <4>1, FS_EmptySet
      <4>2. ASSUME NEW e \in Here
            PROVE  Cardinality(A(w)) <= MaxRequests - 1
        <5>1. ~(clock < e.start + WindowLen)
          BY <2>5, <4>2 DEF Current
        <5>2. w \in Nat /\ clock < w + WindowLen
          BY <1>0, <3>2, WindowBounds, TimesAreNat
        <5>3. w > e.start
          BY <1>0, <4>2, <5>1, <5>2, TimesAreNat
        <5>4. Cardinality(A(w)) <= e.count - 1 /\ e.count \in 1..MaxRequests
          BY <1>0, <1>1, <4>2, <5>3 DEF WithinEntry
        <5> QED BY <1>0, <1>1, <5>4
      <4> QED BY <4>1, <4>2
    <3>3. ASSUME NEW w \in Time, w > clock
          PROVE  Cardinality(A(w)') = 0
      <4>1. A(w) = {}
        <5> SUFFICES ASSUME NEW q \in A(w) PROVE FALSE
          OBVIOUS
        <5>1. q \in Arrived /\ Window(req[q].arrived) = w
          BY DEF LocalIn, AdmittedIn
        <5>2. req[q].arrived \in Nat /\ req[q].arrived <= clock
          BY <5>1, RequestFields, TimesAreNat DEF ArrivalsAreKnown
        <5>3. Window(req[q].arrived) <= req[q].arrived
          BY <5>2, WindowBounds
        <5> QED BY <1>0, <3>3, <5>1, <5>2, <5>3, TimesAreNat
      <4>2. w # Window(clock)
        BY <1>0, <3>3, WindowBounds
      <4> QED BY <2>3, <4>1, <4>2, FS_EmptySet
    <3>4. ASSUME NEW w \in Time
          PROVE  Cardinality(A(w)') <= 2 * MaxRequests - 1 /\ WithinEntry(Cardinality(A(w)'), new, w)
      <4>1. CASE w = Window(clock)
        <5>1. Cardinality(A(w)') <= MaxRequests /\ ~(w > clock)
          BY <1>0, <1>1, <2>4, <3>2, <4>1, WindowBounds
        <5> QED BY <1>0, <2>4, <5>1 DEF WithinEntry
      <4>2. CASE w # Window(clock)
        <5>1. Cardinality(A(w)') <= 2 * MaxRequests - 1
          BY <1>0, <1>1, <2>4, <4>2
        <5> QED BY <3>3, <4>2, <5>1 DEF WithinEntry
      <4> QED BY <4>1, <4>2
    <3>5. /\ new.count \in 1..MaxRequests /\ new.start <= clock'
      BY <1>0, <2>1
    <3> HIDE DEF new
    <3> QED BY <2>2, <3>1, <3>4, <3>5 DEF LocalBoundIn
  <2>6. ASSUME NEW e \in Current(j, p)
        PROVE  LocalBoundIn(j, p)'
    <3> DEFINE new == [start |-> e.start, count |-> e.count + 1]
    <3>1. e \in Here /\ e.count < MaxRequests
      BY <1>3, <2>6 DEF Current, LocalAllows, UnderCap
    <3>2. Current(j, p) = {e}
      BY <1>0, <3>1 DEF Current
    <3>3. CountedHere(j, p) = {new}
      BY <3>2 DEF CountedHere
    <3>4. ASSUME NEW w \in Time
          PROVE  Cardinality(A(w)') <= 2 * MaxRequests - 1 /\ WithinEntry(Cardinality(A(w)'), new, w)
      <4>1. e \in [start : Time, count : Nat] /\ e.count \in 1..MaxRequests /\ e.start <= clock
        BY <1>0, <3>1
      <4>2. /\ WithinEntry(Cardinality(A(w)), e, w) /\ Cardinality(A(w)) \in Nat
            /\ Cardinality(A(w)) <= 2 * MaxRequests - 1
        BY <1>1, <3>1
      <4> HIDE DEF A
      <4> QED BY <1>0, <2>4, <3>1, <4>1, <4>2, EntryGrows
    <3>5. /\ new.count \in 1..MaxRequests /\ new.start <= clock'
      BY <1>0, <2>1, <3>1
    <3> HIDE DEF new
    <3> QED BY <2>2, <3>3, <3>4, <3>5 DEF LocalBoundIn
  <2> QED BY <2>5, <2>6
<1>4. ASSUME NEW r \in Request, NEW i \in Instance, NEW s \in Submission,
             CountLocal(r, i, s), ~(LocalAllows(i, s.route) /\ j = i /\ p = s.route)
      PROVE  limiter'[j][p] = Here /\ clock' = clock /\ \A w \in Time : A(w)' \subseteq A(w)
  <2>1. /\ clock' = clock /\ r \notin Arrived
        /\ Begin(r, i, s, "local", LocalAllows(i, s.route)) /\ LocalAllows(i, s.route) \in BOOLEAN
        /\ limiter' = IF LocalAllows(i, s.route)
                      THEN [limiter EXCEPT ![i][s.route] = CountedHere(i, s.route)]
                      ELSE limiter
    BY <1>4 DEF CountLocal, MayArrive, LocalAllows
  <2>2. limiter'[j][p] = Here
    BY <1>4, <2>1, SubmissionFields DEF TypeOK
  <2>3. \A w \in Time : A(w)' \subseteq A(w)
    BY <1>4, <2>1, LocalGrows
  <2> QED BY <2>1, <2>2, <2>3
<1>5. ASSUME NEW r \in Request, NEW i \in Instance, NEW s \in Submission,
             CountShared(r, i, s)
      PROVE  limiter'[j][p] = Here /\ clock' = clock /\ \A w \in Time : A(w)' \subseteq A(w)
  <2>1. /\ clock' = clock /\ limiter' = limiter /\ r \notin Arrived
        /\ Begin(r, i, s, "shared", SharedAllows(s.route)) /\ SharedAllows(s.route) \in BOOLEAN
    BY <1>5 DEF CountShared, MayArrive, SharedAllows, UnderCap
  <2> QED BY <2>1, LocalGrows
<1>6. CASE \/ \E r \in Arrived : Step(r)
           \/ \E cutoff \in 0..clock : SweepNonces(cutoff) \/ SweepResponses(cutoff)
           \/ Tick \/ UNCHANGED vars
  <2>1. limiter' = limiter /\ clock' \in {clock, clock + 1}
    <3>1. ASSUME NEW r \in Arrived, Step(r) PROVE limiter' = limiter /\ clock' = clock
      BY <3>1, StepEffect DEF Effective, Effect, limits
    <3> QED BY <1>6, <3>1 DEF SweepNonces, SweepResponses, Tick, vars, limits
  <2>2. \A w \in Time : A(w)' \subseteq A(w)
    BY <1>6, CountsShrink
  <2> QED BY <1>2, <2>1, <2>2
<1>7. ASSUME NEW i \in Instance, Recycle(i)
      PROVE  LocalBoundIn(j, p)'
  <2>1. clock' = clock /\ \A w \in Time : A(w)' \subseteq A(w)
    BY <1>7, CountsShrink DEF Recycle
  <2>2. CASE j # i
    <3>1. limiter'[j][p] = Here
      BY <1>7, <2>2 DEF Recycle, TypeOK
    <3> QED BY <1>2, <2>1, <3>1
  <2>3. CASE j = i
    <3>1. limiter'[j][p] = {}
      BY <1>7, <2>3 DEF Recycle, TypeOK
    <3>2. ASSUME NEW w \in Time PROVE A(w)' = {}
      <4> SUFFICES ASSUME NEW q \in A(w)' PROVE FALSE
        OBVIOUS
      <4>1. q \in Arrived /\ req'[q].counted = "local" /\ req'[q].inst = i
        BY <1>7, <2>3, RecycleEffect DEF LocalIn, AdmittedIn
      <4>2. req[q].inst = i /\ (req[q].inst = i => req'[q].counted # "local")
        BY <1>7, <2>3, <4>1, RecycleEffect
      <4> QED BY <4>1, <4>2
    <3>3. \A w \in Time : Cardinality(A(w)') <= 2 * MaxRequests - 1
      <4>1. \A w \in Time : Cardinality(A(w)') = 0
        BY <3>2, FS_EmptySet
      <4>2. 0 <= 2 * MaxRequests - 1
        BY <1>0
      <4> QED BY <4>1, <4>2
    <3> QED BY <3>1, <3>2, <3>3 DEF LocalBoundIn
  <2> QED BY <2>2, <2>3
<1> QED BY <1>2, <1>3, <1>4, <1>5, <1>6, <1>7 DEF Next

\* The bounds by window are the property.
LEMMA BoundsGive ==
    ASSUME SharedBound, LocalBound
    PROVE  SharedWindowsAreCapped /\ FallbackWindowsAreCapped
<1>1. \A t \in Time : Window(t) \in Time
  BY WindowIsTime
<1>2. SharedWindowsAreCapped
  BY <1>1 DEF SharedWindowsAreCapped, SharedBound, SharedIn
<1>3. FallbackWindowsAreCapped
  BY <1>1 DEF FallbackWindowsAreCapped, LocalBound, LocalBoundIn, LocalIn
<1> QED BY <1>2, <1>3

-----------------------------------------------------------------------------
(* The invariant, and the properties it gives.                             *)

Inv ==
    /\ TypeOK
    /\ OneRow /\ PinnedRowIsThere
    /\ ClaimsByStep /\ RepliesAreFounded /\ NonceIsHeld
    /\ ArrivalsAreKnown /\ SharedBound /\ LocalBound

\* All of it holds in every reachable state.
THEOREM Invariance == Spec => []Inv
<1>1. Init => Inv
  <2> SUFFICES ASSUME Init PROVE Inv
    OBVIOUS
  <2>1. Arrived = {} /\ clock \in Time /\ clock = 0
    BY RequestAssumption DEF Init, Arrived, Time
  <2>2. TypeOK
    BY <2>1, RequestAssumption DEF Init, TypeOK
  <2>3. (\A p, w : SharedIn(p, w) = {}) /\ (\A i, p, w : LocalIn(i, p, w) = {})
    BY <2>1 DEF SharedIn, LocalIn, AdmittedIn
  <2>4. SharedBound /\ LocalBound
    <3>1. \A p \in Route, w \in Time : buckets[p][w] = 0
      BY DEF Init
    <3>2. \A i \in Instance, p \in Route : limiter[i][p] = {}
      BY DEF Init
    <3>3. SharedBound
      <4>1. \A p, w : Cardinality(SharedIn(p, w)) = 0
        BY <2>3, FS_EmptySet
      <4> QED BY <3>1, <4>1, TimesAreNat DEF SharedBound
    <3>4. \A i, p, w : Cardinality(LocalIn(i, p, w)) <= 2 * MaxRequests - 1
      BY <2>3, FS_EmptySet, TimesAreNat
    <3>5. LocalBound
      BY <2>3, <3>2, <3>4 DEF LocalBound, LocalBoundIn
    <3> QED BY <3>3, <3>5
  <2>5. ArrivalsAreKnown
    BY <2>1, FS_EmptySet DEF ArrivalsAreKnown
  <2>6. OneRow /\ PinnedRowIsThere /\ ClaimsByStep /\ NonceIsHeld
    BY <2>1 DEF Init, OneRow, PinnedRowIsThere, ClaimsByStep, NonceIsHeld
  <2>7. RepliesAreFounded
    BY <2>1 DEF Init, RepliesAreFounded
  <2> QED BY <2>2, <2>4, <2>5, <2>6, <2>7 DEF Inv
<1>2. Inv /\ [Next]_vars => Inv'
  BY TypeStep, PinStep, ClaimStep, NonceStep, ArrivalsStep, SharedStep, LocalStep DEF Inv
<1> QED BY <1>1, <1>2, PTL DEF Spec

\* Every variable of the shared request state keeps its type (shared-state.ts,
\* rate-limit.ts, replay.ts).
THEOREM TypeCorrect == Spec => []TypeOK
<1>1. Inv => TypeOK
  BY DEF Inv
<1> QED BY <1>1, Invariance, PTL

\* Until it expires, the row stored for an idempotency key is the one reply the shared
\* store gives to that key (shared-state.ts).
THEOREM PinnedRepliesAlwaysAgree == Spec => []PinnedRepliesAgree
<1>1. Inv => PinnedRepliesAgree
  BY PinnedRowsAgree DEF Inv
<1> QED BY <1>1, Invariance, PTL

\* A nonce that is live gets one transaction, unless a claim of it went unanswered
\* (lib/intent/replay.ts).
THEOREM OneTransactionPerNonce == Spec => []OneTransactionPerLiveNonce
<1>1. Inv => OneTransactionPerLiveNonce
  BY HeldNoncesGiveOne DEF Inv
<1> QED BY <1>1, Invariance, PTL

\* Whatever queries fail, a window admits at most MaxRequests by the shared count
\* (rate-limit.ts, incrementRateLimitCount).
THEOREM SharedWindowsStayCapped == Spec => []SharedWindowsAreCapped
<1>1. Inv => SharedWindowsAreCapped
  BY BoundsGive DEF Inv
<1> QED BY <1>1, Invariance, PTL

\* Whatever queries fail, an instance's own memory admits at most 2 * MaxRequests - 1
\* in a window of the shared clock (checkInProcess).
THEOREM FallbackWindowsStayCapped == Spec => []FallbackWindowsAreCapped
<1>1. Inv => FallbackWindowsAreCapped
  BY BoundsGive DEF Inv
<1> QED BY <1>1, Invariance, PTL
=============================================================================
