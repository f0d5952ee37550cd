---------------------------- MODULE IntentRequests ----------------------------
(***************************************************************************)
(* POST /api/intent/offramp and POST /api/v1/intent/offramp, and the state *)
(* their requests share: the rate limiter, the stored responses and the    *)
(* replay nonces (lib/api/{rate-limit,idempotency,v1,shared-state}.ts,     *)
(* lib/intent/replay.ts, the two route files).                             *)
(*                                                                         *)
(* Each of the three lives in Postgres, and each falls back to the memory  *)
(* of the instance when its query fails.  A query that fails may still     *)
(* have taken effect.  A request's steps are the stretches of its handler  *)
(* between two awaits; the requests of all instances interleave.           *)
(*                                                                         *)
(* One client address and one public key: other addresses and keys touch   *)
(* rows of their own.  The scoped idempotency key binds the client's key   *)
(* to route and body, so it is the submission.                             *)
(***************************************************************************)
EXTENDS Naturals, FiniteSets

CONSTANTS
    Instance,     \* warm serverless instances
    Request,      \* requests that may arrive
    Submission,   \* what a client may post, and post again
    Nonce,
    MaxRequests,  \* requests a window admits (20 in both routes)
    WindowLen,    \* windowMs, in ticks
    TTL,          \* IDEMPOTENCY_TTL_MS, in ticks
    MaxTime,      \* bound on the clock
    MaxFaults,    \* bound on queries that fail
    MaxRestarts,  \* bound on instances recycled
    Load          \* bound on requests, for each set of submissions a client mixes

VARIABLES
    clock,
    buckets,    \* rate_limit_buckets: requests counted by route and window
    limiter,    \* the limiter's Map of each instance, a set of at most one entry
    rows,       \* idempotency_keys, a set of at most one row
    stored,     \* the Map of responses of each instance, likewise
    nonceRows,  \* intent_nonces: the deadline a nonce is held until, 0 if none
    nonces,     \* the nonceStore of each instance
    req,        \* the requests that have arrived
    faults,     \* queries that may still fail
    restarts    \* instances that may still be recycled

vars == <<clock, buckets, limiter, rows, stored, nonceRows, nonces, req, faults,
          restarts>>

Route == {"internal", "v1"}
Time == 0..MaxTime
Window(t) == (t \div WindowLen) * WindowLen

\* What the body's optional envelope amounts to.
Attestation == {"none", "verified", "refused", "malformed"}

\* A reply is its status and the request whose handler made it: two replies built
\* by different requests are different transactions.
Status == {0, 200, 400, 401, 409, 410, 429, 500}  \* 0: none yet
Reply == [status : Status, by : Request]

ASSUME RequestAssumption ==
    /\ Submission \subseteq [route : Route, keyed : BOOLEAN, attestation : Attestation,
                             nonce : Nonce, deadline : Nat \ {0}]
    /\ MaxRequests \in Nat \ {0}
    /\ WindowLen \in Nat \ {0}
    /\ TTL \in Nat \ {0}
    /\ MaxTime \in Nat /\ MaxFaults \in Nat /\ MaxRestarts \in Nat
    /\ DOMAIN Load \subseteq SUBSET Submission /\ \A mix \in DOMAIN Load : Load[mix] \in Nat

Arrived == DOMAIN req
Steps == {"lookup", "parse", "claim", "claimed", "build", "store", "done", "lost"}

RequestState ==
    [pc : Steps, sub : Submission, inst : Instance,
     arrived : Time,                                \* now, in checkRateLimit
     at : Time,                                     \* now, of the call in progress
     counted : {"shared", "local", "forgotten"},    \* where the limiter counted it
     claim : {"none", "yes", "no", "unknown"},      \* what claimShared answered
     reply : Reply,
     pinned : Nat]  \* when the row it was answered from, or stored in, expires

TypeOK ==
    /\ clock \in Time
    /\ buckets \in [Route -> [Time -> Nat]]
    /\ limiter \in [Instance -> [Route -> SUBSET [start : Time, count : Nat]]]
    /\ rows \in [Submission -> SUBSET [reply : Reply, expires : Nat]]
    /\ stored \in [Instance -> [Submission -> SUBSET [reply : Reply, storedAt : Time]]]
    /\ nonceRows \in [Nonce -> Nat]
    /\ nonces \in [Instance -> [Nonce -> Nat]]
    /\ Arrived \subseteq Request
    /\ req \in [Arrived -> RequestState]
    /\ faults \in 0..MaxFaults
    /\ restarts \in 0..MaxRestarts

Init ==
    /\ clock = 0
    /\ buckets = [p \in Route |-> [t \in Time |-> 0]]
    /\ limiter = [i \in Instance |-> [p \in Route |-> {}]]
    /\ rows = [s \in Submission |-> {}]
    /\ stored = [i \in Instance |-> [s \in Submission |-> {}]]
    /\ nonceRows = [n \in Nonce |-> 0]
    /\ nonces = [i \in Instance |-> [n \in Nonce |-> 0]]
    /\ req = [r \in {} |-> 0]
    /\ faults = MaxFaults
    /\ restarts = MaxRestarts

limits == <<buckets, limiter>>
responses == <<rows, stored>>
claims == <<nonceRows, nonces>>

\* The query fails: the connection is gone, before or after the statement ran.
QueryFails == faults > 0 /\ faults' = faults - 1
QueryAnswers == UNCHANGED faults

Move(r, to) == req' = [req EXCEPT ![r].pc = to]

-----------------------------------------------------------------------------
(* checkRateLimit.  Its query is taken to run in the tick it reads the     *)
(* clock in.  Windows older than the last one are pruned: no request is    *)
(* counted in them again.                                                  *)

MayArrive(r, s) ==
    LET mix == {req[q].sub : q \in Arrived} \cup {s} IN
    /\ r \notin Arrived
    /\ mix \in DOMAIN Load
    /\ Cardinality(Arrived) < Load[mix]

Begin(r, i, s, where, allowed) ==
    req' = [q \in Arrived \cup {r} |-> IF q # r THEN req[q] ELSE
       [pc |-> IF ~allowed THEN "done" ELSE IF s.keyed THEN "lookup" ELSE "parse",
        sub |-> s, inst |-> i, arrived |-> clock, at |-> clock, counted |-> where,
        claim |-> "none", pinned |-> 0,
        reply |-> [status |-> IF allowed THEN 0 ELSE 429, by |-> r]]]

Counted(p) == [buckets EXCEPT ![p][Window(clock)] = @ + 1]

\* The cap.
UnderCap(count) == count < MaxRequests
SharedAllows(p) == UnderCap(buckets[p][Window(clock)])

\* incrementRateLimitCount answered: every request counts, the refused ones too.
CountShared(r, i, s) ==
    /\ MayArrive(r, s)
    /\ buckets' = Counted(s.route)
    /\ Begin(r, i, s, "shared", SharedAllows(s.route))
    /\ QueryAnswers
    /\ UNCHANGED <<clock, limiter, responses, claims, restarts>>

\* checkInProcess: windows start at the first request, a refused one is not counted.
Current(i, p) == {e \in limiter[i][p] : clock < e.start + WindowLen}
LocalAllows(i, p) == \A e \in Current(i, p) : UnderCap(e.count)
\* CountedAfresh forgets what the window has admitted.
CountedAfresh(i, p) == {[start |-> clock, count |-> 1]}
CountedHere(i, p) ==
    IF Current(i, p) = {} THEN {[start |-> clock, count |-> 1]}
    ELSE {[start |-> e.start, count |-> e.count + 1] : e \in Current(i, p)}

CountLocal(r, i, s) ==
    /\ MayArrive(r, s)
    /\ QueryFails
    /\ buckets' \in {buckets, Counted(s.route)}
    /\ limiter' = IF LocalAllows(i, s.route)
                  THEN [limiter EXCEPT ![i][s.route] = CountedHere(i, s.route)]
                  ELSE limiter
    /\ Begin(r, i, s, "local", LocalAllows(i, s.route))
    /\ UNCHANGED <<clock, responses, claims, restarts>>

-----------------------------------------------------------------------------
(* getIdempotentResponse.                                                  *)

Replay(r, reply, expires) ==
    req' = [req EXCEPT ![r].pc = "done", ![r].reply = reply, ![r].pinned = expires]

\* Shared state answers, and its answer is final: a miss does not look in memory.
LiveRows(s) == {row \in rows[s] : row.expires > clock}

LookupShared(r) ==
    /\ req[r].pc = "lookup"
    /\ \/ \E row \in LiveRows(req[r].sub) : Replay(r, row.reply, row.expires)
       \/ LiveRows(req[r].sub) = {} /\ Move(r, "parse")
    /\ QueryAnswers
    /\ UNCHANGED <<clock, limits, responses, claims, restarts>>

LookupLocal(r) ==
    /\ req[r].pc = "lookup"
    /\ QueryFails
    /\ LET i == req[r].inst
           s == req[r].sub
           live == {e \in stored[i][s] : clock <= e.storedAt + TTL}
       IN  /\ stored' = [stored EXCEPT ![i][s] = live]
           /\ \/ \E e \in live : Replay(r, e.reply, 0)
              \/ live = {} /\ Move(r, "parse")
    /\ UNCHANGED <<clock, limits, rows, claims, restarts>>

-----------------------------------------------------------------------------
(* Replies: isIdempotentCacheable in the internal route, status < 400 in   *)
(* withV1.  The memory is written before the row.                          *)

Cacheable(s, status) ==
    /\ s.keyed
    /\ IF s.route = "internal" THEN status \in {200, 400} ELSE status < 400

Respond(r, status) ==
    LET i == req[r].inst
        s == req[r].sub
        reply == [status |-> status, by |-> r]
    IN  IF Cacheable(s, status)
        THEN /\ stored' = [stored EXCEPT ![i][s] = {[reply |-> reply, storedAt |-> clock]}]
             /\ req' = [req EXCEPT ![r].pc = "store", ![r].at = clock, ![r].reply = reply]
        ELSE /\ req' = [req EXCEPT ![r].pc = "done", ![r].reply = reply]
             /\ UNCHANGED stored

\* INSERT ... ON CONFLICT DO NOTHING: an expired row that nobody has pruned stays.
\* ON CONFLICT DO UPDATE would let the last response win.
LastWins(s) == TRUE
MayInsert(s) == rows[s] = {}
Inserted(r) ==
    LET s == req[r].sub
        row == [reply |-> req[r].reply, expires |-> req[r].at + TTL]
    IN  IF MayInsert(s) THEN [rows EXCEPT ![s] = {row}] ELSE rows

Pin(r) ==
    req' = [req EXCEPT ![r].pc = "done",
                       ![r].pinned = IF MayInsert(req[r].sub) THEN req[r].at + TTL ELSE 0]

StoreShared(r) ==
    /\ req[r].pc = "store"
    /\ QueryAnswers
    /\ rows' = Inserted(r)
    /\ Pin(r)
    /\ UNCHANGED <<clock, limits, stored, claims, restarts>>

StoreFails(r) ==
    /\ req[r].pc = "store"
    /\ QueryFails
    /\ \/ rows' = Inserted(r) /\ Pin(r)
       \/ UNCHANGED rows /\ Move(r, "done")
    /\ UNCHANGED <<clock, limits, stored, claims, restarts>>

-----------------------------------------------------------------------------
(* The handler: schema and attestation, nonce, transaction.                *)

Outdated(s) == s.deadline <= clock

Parse(r) ==
    /\ req[r].pc = "parse"
    /\ LET s == req[r].sub IN
       \/ s.attestation = "malformed" /\ Respond(r, 400)
       \/ s.attestation = "refused" /\ Respond(r, 401)
       \/ s.attestation = "none" /\ Move(r, "build") /\ UNCHANGED stored
       \/ s.attestation = "verified" /\ Outdated(s) /\ Respond(r, 410)
       \/ /\ s.attestation = "verified"
          /\ ~Outdated(s)
          /\ req' = [req EXCEPT ![r].pc = "claim", ![r].at = clock]
          /\ UNCHANGED stored
    /\ UNCHANGED <<clock, limits, rows, claims, faults, restarts>>

\* claimSharedIntentNonce: a held nonce is overwritten once its deadline is past,
\* by the clock the claim was sent with.  Anytime is that upsert without its WHERE.
Anytime(n, now) == TRUE
Free(n, now) == nonceRows[n] <= now
Taken(r) == [nonceRows EXCEPT ![req[r].sub.nonce] = req[r].sub.deadline]
IsFree(r) == Free(req[r].sub.nonce, req[r].at)

Claim(r) ==
    /\ req[r].pc = "claim"
    /\ QueryAnswers
    /\ nonceRows' = IF IsFree(r) THEN Taken(r) ELSE nonceRows
    /\ req' = [req EXCEPT ![r].pc = "claimed",
                          ![r].claim = IF IsFree(r) THEN "yes" ELSE "no"]
    /\ UNCHANGED <<clock, limits, responses, nonces, restarts>>

ClaimFails(r) ==
    /\ req[r].pc = "claim"
    /\ QueryFails
    /\ nonceRows' \in {nonceRows, IF IsFree(r) THEN Taken(r) ELSE nonceRows}
    /\ req' = [req EXCEPT ![r].pc = "claimed", ![r].claim = "unknown"]
    /\ UNCHANGED <<clock, limits, responses, nonces, restarts>>

\* The rest of registerIntentReplay, in one stretch: prune the key's nonces, look,
\* and remember the nonce whichever store it was claimed in.
Pruned(i, now) == [n \in Nonce |-> IF nonces[i][n] <= now THEN 0 ELSE nonces[i][n]]
IsReplay(r) ==
    \/ req[r].claim = "no"
    \/ /\ req[r].claim = "unknown"
       /\ Pruned(req[r].inst, req[r].at)[req[r].sub.nonce] # 0

ClaimAnswered(r) ==
    /\ req[r].pc = "claimed"
    /\ LET i == req[r].inst
           s == req[r].sub
           kept == Pruned(i, req[r].at)
       IN  \/ /\ IsReplay(r)
              /\ nonces' = [nonces EXCEPT ![i] = kept]
              /\ req' = [req EXCEPT ![r].pc = "done", ![r].reply = [status |-> 409, by |-> r]]
           \/ /\ ~IsReplay(r)
              /\ nonces' = [nonces EXCEPT ![i] = [kept EXCEPT ![s.nonce] = s.deadline]]
              /\ Move(r, "build")
    /\ UNCHANGED <<clock, limits, responses, nonceRows, faults, restarts>>

\* createOfframpIntent: a transaction, no route for the corridor, or a failure to
\* build it.  Routes depend on the day's anchors, so a retry may end otherwise.
Build(r) ==
    /\ req[r].pc = "build"
    /\ \E status \in {200, 400, 500} : Respond(r, status)
    /\ UNCHANGED <<clock, limits, rows, claims, faults, restarts>>

-----------------------------------------------------------------------------
(* Prunes, time, and instances that are recycled.                          *)

\* pruneSharedIntentNonces and pruneSharedIdempotent are sent every so many calls
\* and not awaited: they run at any later time, with a now read before.
SweepNonces(cutoff) ==
    /\ nonceRows' = [n \in Nonce |-> IF nonceRows[n] <= cutoff THEN 0 ELSE nonceRows[n]]
    /\ UNCHANGED <<clock, limits, responses, nonces, req, faults, restarts>>

SweepResponses(cutoff) ==
    /\ rows' = [s \in Submission |-> {row \in rows[s] : row.expires > cutoff}]
    /\ UNCHANGED <<clock, limits, stored, claims, req, faults, restarts>>

Tick ==
    /\ clock < MaxTime
    /\ clock' = clock + 1
    /\ UNCHANGED <<buckets, limiter, responses, claims, req, faults, restarts>>

\* Its memory and the requests it was serving are gone.
Recycle(i) ==
    /\ restarts > 0
    /\ restarts' = restarts - 1
    /\ limiter' = [limiter EXCEPT ![i] = [p \in Route |-> {}]]
    /\ stored' = [stored EXCEPT ![i] = [s \in Submission |-> {}]]
    /\ nonces' = [nonces EXCEPT ![i] = [n \in Nonce |-> 0]]
    /\ req' = [r \in Arrived |-> IF req[r].inst # i THEN req[r] ELSE
          [req[r] EXCEPT !.pc = IF @ = "done" THEN @ ELSE "lost",
                         !.counted = IF @ = "local" THEN "forgotten" ELSE @]]
    /\ UNCHANGED <<clock, buckets, rows, nonceRows, faults>>

Step(r) ==
    \/ LookupShared(r) \/ LookupLocal(r)
    \/ Parse(r)
    \/ Claim(r) \/ ClaimFails(r) \/ ClaimAnswered(r)
    \/ Build(r)
    \/ StoreShared(r) \/ StoreFails(r)

Next ==
    \/ \E r \in Request, i \in Instance, s \in Submission :
          CountShared(r, i, s) \/ CountLocal(r, i, s)
    \/ \E r \in Arrived : Step(r)
    \/ \E cutoff \in 0..clock : SweepNonces(cutoff) \/ SweepResponses(cutoff)
    \/ Tick
    \/ \E i \in Instance : Recycle(i)

Spec == Init /\ [][Next]_vars

-----------------------------------------------------------------------------
(* Properties.                                                             *)

Built(r) == req[r].reply.status = 200
LiveIntent(r) == req[r].sub.attestation = "verified" /\ req[r].sub.deadline > clock

\* While two signed intents with one nonce are live, both have been answered with
\* a transaction only if it is the same one, or if a query of a claim failed and
\* an instance went by its own memory.
OneTransactionPerLiveNonce ==
    \A a, b \in Arrived :
        /\ Built(a) /\ LiveIntent(a)
        /\ Built(b) /\ LiveIntent(b)
        /\ req[a].sub.nonce = req[b].sub.nonce
        => LET x == req[a].reply.by
               y == req[b].reply.by
           IN  x = y \/ "unknown" \in {req[x].claim, req[y].claim}

\* Until it expires, the response whose row is stored for a key is the only one
\* the shared store gives to that key: to the request that stored it and to all
\* that replay it ("the first response for a key is the one every retry must
\* replay", shared-state.ts).
PinnedRepliesAgree ==
    \A a, b \in Arrived :
        /\ req[a].sub = req[b].sub
        /\ req[a].pinned > clock /\ req[b].pinned > clock
        => req[a].reply = req[b].reply

Admitted(r) == req[r].reply.status # 429

AdmittedIn(p, w, counted) ==
    {r \in Arrived : /\ req[r].sub.route = p /\ Admitted(r)
                     /\ Window(req[r].arrived) = w /\ req[r].counted = counted}

\* However many of the counter's queries fail, before or after they counted, no
\* window admits more than MaxRequests by the shared count.
SharedWindowsAreCapped ==
    \A p \in Route, w \in {Window(t) : t \in Time} :
        Cardinality(AdmittedIn(p, w, "shared")) <= MaxRequests

\* While the database is away, the memory of one instance admits at most
\* 2 * MaxRequests - 1 in a window of the shared clock: its own windows start at a
\* request, so that two of them meet one shared window.
FallbackWindowsAreCapped ==
    \A p \in Route, w \in {Window(t) : t \in Time}, i \in Instance :
        Cardinality({r \in AdmittedIn(p, w, "local") : req[r].inst = i})
            <= 2 * MaxRequests - 1
=============================================================================
