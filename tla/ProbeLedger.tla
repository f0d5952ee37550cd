----------------------------- MODULE ProbeLedger -----------------------------
(***************************************************************************)
(* The probe sweep (app/api/reputation/refresh/route.ts), the samples its  *)
(* probes take (lib/reputation/probe.ts) through the toml cache of their   *)
(* instance, and what is read from the ledger they fill: the verdicts of   *)
(* the health signals (lib/reputation/health.ts) and the coverage that the *)
(* publish gate asks for (lib/reputation/aggregate.ts).                    *)
(*                                                                         *)
(* The probes of a sweep run side by side: each looks up the anchor's toml *)
(* as the sweep begins, fetches it if need be, some then ask a server or   *)
(* Horizon, and each fires its write without waiting for it.  An anchor is *)
(* quoted for one corridor and asked about one deposit asset.  The prices  *)
(* of the seventh probe go to another table and are left out, and so is    *)
(* lastRefreshAt, which is only displayed.                                 *)
(***************************************************************************)
EXTENDS Naturals, FiniteSets, FiniteSetsExt

CONSTANTS
    Domain,         \* probe domains, one for each of ANCHORS, a list in the code
    Instance,       \* server instances, each with a memory of its own
    Sweep,          \* POSTs of the cron
    ProbedKind,     \* the kinds that are probed, of ProbeKind
    SigningKey,
    Published,      \* the documents an anchor may publish, of Document
    ReadinessDays,  \* PROBE_MAINNET_READINESS_DAYS, 90
    MaxDay,         \* bound on the UTC days
    MaxProbeFaults  \* bound on the faults

ProbeKind ==
    {"uptime", "toml-integrity", "issuer-mismatch", "quote", "sep31-info", "deposit"}

\* A stellar.toml: its key, an optional set, whether its server URLs are well
\* formed, and whether it names the server or issuer that a second question needs.
\* An answer that is no document has the other two states.
Document == [state : {"parsed"}, key : {{}} \cup {{k} : k \in SigningKey},
             urls : BOOLEAN, names : BOOLEAN]
Failing == [state : {"down", "unparsable"}, key : {{}}, urls : {FALSE}, names : {FALSE}]

ProbeAssumption ==
    /\ ProbedKind \subseteq ProbeKind /\ ProbedKind # {} /\ Published \subseteq Document
    /\ IsFiniteSet(Domain) /\ Domain # {}
    /\ ReadinessDays \in Nat \ {0} /\ MaxDay \in Nat \ {0} /\ MaxProbeFaults \in Nat
ASSUME ProbesAssumed == ProbeAssumption

VARIABLES
    day,          \* the UTC day
    served,       \* what each domain serves
    probeFaults,  \* requests and answers lost, instances and locks gone, anchors changed
    cached,       \* the toml cache of an instance, at most one entry for a domain
    lastGood,     \* lastKnownGoodToml of an instance: the key, an optional set
    locked,       \* the row of LOCK_KEY
    sweeps,       \* the invocations
    due,          \* probes that have not returned: <<sweep, domain, kind>>
    writing,      \* rows whose write is in flight
    ledger,       \* probe_samples
    keysSeen      \* history: the keys each domain has served

world == <<served, keysSeen>>
memory == <<cached, lastGood>>
probeVars == <<day, probeFaults, world, memory, locked, sweeps, due, writing, ledger>>

\* `failure' is failureType, and "disabled" the deposit probe's error; `sweep',
\* `doc', `answer' and `up' are history: what the probe judged, and whether the
\* domain served a document then.
Row == [domain : Domain, kind : ProbedKind, day : 1..MaxDay, reachable : BOOLEAN,
        failure : {"none", "mismatch", "integrity", "disabled", "other"},
        sweep : Sweep, doc : Document \cup Failing,
        answer : {"none", "yes", "no", "failed"}, up : BOOLEAN]

ProbeTypeOK ==
    /\ day \in 1..MaxDay /\ probeFaults \in 0..MaxProbeFaults
    /\ served \in [Domain -> Published \cup Failing]
    /\ keysSeen \in [Domain -> SUBSET SigningKey]
    /\ cached \in [Instance -> [Domain -> SUBSET [doc : Document, day : 1..MaxDay]]]
    /\ \A i \in Instance, d \in Domain : Cardinality(cached[i][d]) <= 1
    /\ lastGood \in [Instance -> [Domain -> SUBSET SigningKey]]
    /\ locked \in BOOLEAN
    /\ sweeps \in [Sweep ->
            [pc : {"new", "running", "ok", "error", "conflict", "dead"},
             on : SUBSET Instance, found : [Domain -> SUBSET Document], began : 0..MaxDay,
             persisted : Nat, failed : Nat]]
    /\ due \subseteq Sweep \X Domain \X ProbedKind
    /\ writing \subseteq Row /\ ledger \subseteq Row

ProbeInit ==
    /\ day = 1 /\ probeFaults = 0
    /\ served \in [Domain -> Published \cup Failing]
    /\ keysSeen = [d \in Domain |-> IF served[d] \in Document THEN served[d].key ELSE {}]
    /\ cached = [i \in Instance |-> [d \in Domain |-> {}]]
    /\ lastGood = [i \in Instance |-> [d \in Domain |-> {}]]
    /\ locked = FALSE
    /\ sweeps = [s \in Sweep |->
            [pc |-> "new", on |-> {}, found |-> [d \in Domain |-> {}], began |-> 0,
             persisted |-> 0, failed |-> 0]]
    /\ due = {} /\ writing = {} /\ ledger = {}

ProbeFault == probeFaults < MaxProbeFaults /\ probeFaults' = probeFaults + 1

On(s) == CHOOSE i \in Instance : i \in sweeps[s].on

-----------------------------------------------------------------------------
(* POST /api/reputation/refresh.  Its probes start at once, so they look the *)
(* cache up before any of them has filled it: `found'.                       *)

Post(s, i) ==
    /\ sweeps[s].pc = "new"
    /\ IF locked
       THEN /\ sweeps' = [sweeps EXCEPT ![s].pc = "conflict"]
            /\ UNCHANGED <<locked, due>>
       ELSE /\ locked' = TRUE
            /\ sweeps' = [sweeps EXCEPT ![s].pc = "running", ![s].on = {i}, ![s].began = day,
                                    ![s].found = [d \in Domain |-> {e.doc : e \in cached[i][d]}]]
            /\ due' = due \cup ({s} \X Domain \X ProbedKind)
    /\ UNCHANGED <<day, probeFaults, world, memory, writing, ledger>>

\* record(): the sample becomes a row, and its write is fired.
RecordSample(s, d, k, doc, answer, failure) ==
    writing' = writing \cup
        {[domain |-> d, kind |-> k, day |-> day, reachable |-> failure = "none",
          failure |-> failure, sweep |-> s, doc |-> doc, answer |-> answer,
          up |-> served[d] \in Document]}

\* validateTomlIntegrity.
Sound(i, d, doc) == doc.key # {} /\ doc.urls /\ (lastGood[i][d] \in {{}, doc.key})

\* What the second answer comes to.
OutcomeOf(k, answer) ==
    CASE answer = "yes" -> "none"
      [] answer = "no" /\ k = "issuer-mismatch" -> "mismatch"
      [] answer = "no" /\ k = "deposit" -> "disabled"
      [] OTHER -> "other"

\* A probe that has a document judges it, or asks whom it names.
Judge(s, d, k, doc) ==
    LET i == On(s)
        sound == k = "uptime" \/ Sound(i, d, doc)
    IN
    \/ /\ k \in {"uptime", "toml-integrity"}
       /\ RecordSample(s, d, k, doc, "none", IF sound THEN "none" ELSE "integrity")
       /\ UNCHANGED probeFaults
       /\ lastGood' = IF k = "toml-integrity" /\ sound
                      THEN [lastGood EXCEPT ![i][d] = doc.key] ELSE lastGood
    \/ /\ k \notin {"uptime", "toml-integrity"}
       /\ \/ /\ doc.names
             /\ \E answer \in {"yes", "no", "failed"} :
                   /\ RecordSample(s, d, k, doc, answer, OutcomeOf(k, answer))
                   /\ IF answer = "failed" THEN ProbeFault ELSE UNCHANGED probeFaults
          \/ /\ ~doc.names
             /\ RecordSample(s, d, k, doc, "none",
                       IF k = "issuer-mismatch" THEN "mismatch" ELSE "other")
             /\ UNCHANGED probeFaults
       /\ UNCHANGED lastGood

\* A fetched toml is cached.  toSep1TomlData drops a server URL that is not well
\* formed.
TomlFetched(s, d, k) ==
    /\ served[d] \in Document
    /\ LET doc == [served[d] EXCEPT !.urls = TRUE] IN
       /\ Judge(s, d, k, doc)
       /\ cached' = [cached EXCEPT ![On(s)][d] = {[doc |-> doc, day |-> day]}]

\* A fetch that fails, or brings what does not parse, clears the cache.
TomlNotFetched(s, d, k) ==
    /\ \E f \in Failing :
          /\ (f.state = "down" /\ ProbeFault) \/ (f = served[d] /\ UNCHANGED probeFaults)
          /\ RecordSample(s, d, k, f, "none",
                          IF f.state = "unparsable" THEN "integrity" ELSE "other")
    /\ cached' = [cached EXCEPT ![On(s)][d] = {}]
    /\ UNCHANGED lastGood

Probe(s, d, k) ==
    /\ <<s, d, k>> \in due
    /\ due' = due \ {<<s, d, k>>}
    /\ \/ \E doc \in sweeps[s].found[d] : Judge(s, d, k, doc) /\ UNCHANGED cached
       \/ sweeps[s].found[d] = {} /\ (TomlFetched(s, d, k) \/ TomlNotFetched(s, d, k))
    /\ UNCHANGED <<day, world, locked, sweeps, ledger>>

\* The write of a row succeeds or is counted as failed: also one that was committed and
\* whose answer was lost.
Written(row) ==
    /\ row \in writing
    /\ writing' = writing \ {row}
    /\ \/ /\ ledger' = ledger \cup {row}
          /\ sweeps' = [sweeps EXCEPT ![row.sweep].persisted = @ + 1]
          /\ UNCHANGED probeFaults
       \/ /\ sweeps' = [sweeps EXCEPT ![row.sweep].failed = @ + 1]
          /\ \/ UNCHANGED <<ledger, probeFaults>>
             \/ ledger' = ledger \cup {row} /\ ProbeFault
    /\ UNCHANGED <<day, world, memory, locked, due>>

\* All probes have returned and every sink is drained.
Undrained(s) == \A p \in due : p[1] # s
Drained(s) ==
    /\ \A p \in due : p[1] # s
    /\ \A row \in writing : row.sweep # s

Reply(s) ==
    /\ sweeps[s].pc = "running" /\ Drained(s)
    /\ LET failed == sweeps[s].persisted = 0 /\ sweeps[s].failed > 0
       IN sweeps' = [sweeps EXCEPT ![s].pc = IF failed THEN "error" ELSE "ok"]
    /\ locked' = FALSE
    /\ UNCHANGED <<day, probeFaults, world, cached, lastGood, due, writing, ledger>>

-----------------------------------------------------------------------------
(* The instances, the lock's time to live, the toml's, and the anchors.    *)

\* An instance dies with its memory and its sweeps; their writes never arrive.
InstanceDies(i) ==
    LET lost == {s \in Sweep : sweeps[s].pc = "running" /\ i \in sweeps[s].on} IN
    /\ ProbeFault
    /\ sweeps' = [s \in Sweep |-> IF s \in lost THEN [sweeps[s] EXCEPT !.pc = "dead"]
                                  ELSE sweeps[s]]
    /\ due' = {p \in due : p[1] \notin lost}
    /\ writing' = {row \in writing : row.sweep \notin lost}
    /\ cached' = [cached EXCEPT ![i] = [d \in Domain |-> {}]]
    /\ lastGood' = [lastGood EXCEPT ![i] = [d \in Domain |-> {}]]
    /\ UNCHANGED <<day, world, locked, ledger>>

LockExpires ==
    /\ locked /\ ProbeFault
    /\ locked' = FALSE
    /\ UNCHANGED <<day, world, memory, sweeps, due, writing, ledger>>

TomlExpires(i, d) ==
    /\ cached[i][d] # {}
    /\ cached' = [cached EXCEPT ![i][d] = {}]
    /\ UNCHANGED <<day, probeFaults, world, lastGood, locked, sweeps, due, writing, ledger>>

\* A sweep and a cached toml live for minutes: neither sees two midnights.
NextDay ==
    /\ day < MaxDay
    /\ \A s \in Sweep : sweeps[s].pc = "running" => sweeps[s].began = day
    /\ day' = day + 1
    /\ cached' = [i \in Instance |-> [d \in Domain |-> {e \in cached[i][d] : e.day = day}]]
    /\ UNCHANGED <<probeFaults, world, lastGood, locked, sweeps, due, writing, ledger>>

Change(d) ==
    /\ ProbeFault
    /\ \E new \in (Published \cup Failing) \ {served[d]} :
          /\ served' = [served EXCEPT ![d] = new]
          /\ keysSeen' = [keysSeen EXCEPT ![d] =
                            @ \cup (IF new \in Document THEN new.key ELSE {})]
    /\ UNCHANGED <<day, memory, locked, sweeps, due, writing, ledger>>

ProbeNext ==
    \/ \E s \in Sweep : Reply(s) \/ \E i \in Instance : Post(s, i)
    \/ \E p \in due : Probe(p[1], p[2], p[3])
    \/ \E row \in writing : Written(row)
    \/ \E i \in Instance : InstanceDies(i) \/ \E d \in Domain : TomlExpires(i, d)
    \/ \E d \in Domain : Change(d)
    \/ LockExpires
    \/ NextDay

ProbeSpec == ProbeInit /\ [][ProbeNext]_probeVars

-----------------------------------------------------------------------------
(* What is read from the ledger. *)

AnyFailureCounts(row) == TRUE
\* isVerdict: a failure that says something about the anchor.
IsVerdict(row) ==
    CASE row.reachable -> TRUE
      [] row.kind \in {"uptime", "quote"} -> TRUE
      [] row.kind = "issuer-mismatch" -> row.failure = "mismatch"
      [] row.kind = "toml-integrity" -> row.failure = "integrity"
      [] row.kind = "deposit" -> row.failure = "disabled"
      [] OTHER -> FALSE

\* buildProbeCoverageReport.
CoveredDays(d) == {row.day : row \in {r \in ledger : r.domain = d /\ r.kind = "uptime"}}
StreakEndingAt(covered, end) ==
    IF end \in covered THEN end - Max({0} \cup {e \in 1..end : e \notin covered}) ELSE 0
GapsToLastProbe(d) == {e \in Min(CoveredDays(d))..Max(CoveredDays(d)) : e \notin CoveredDays(d)}
Gaps(d) == {e \in Min(CoveredDays(d))..Max({day} \cup CoveredDays(d)) : e \notin CoveredDays(d)}
ContinuousDays(d) ==
    LET covered == CoveredDays(d) IN
    IF covered = {} THEN 0
    ELSE StreakEndingAt(covered, IF day \in covered THEN day ELSE Max(covered))
ThresholdMet(d) ==
    CoveredDays(d) # {} /\ ContinuousDays(d) >= ReadinessDays /\ Gaps(d) = {}
FleetThresholdMet == \A d \in Domain : ThresholdMet(d)

-----------------------------------------------------------------------------
(* A sweep's answer is true of the ledger: the rows it counts as persisted *)
(* are there, whatever else there is of it is among those it counts as     *)
(* failed, and every probe is counted, whatever dies or overlaps.  It      *)
(* reports a failure only if not one of its writes was confirmed           *)
(* (route.ts:71-121, probe.ts:1270-1330).                                  *)
RepliesMatchTheLedger ==
    \A s \in Sweep : sweeps[s].pc \in {"ok", "error"} =>
        LET rows == Cardinality({r \in ledger : r.sweep = s}) IN
        /\ sweeps[s].persisted <= rows /\ rows <= sweeps[s].persisted + sweeps[s].failed
        /\ sweeps[s].pc = "ok" <=> sweeps[s].persisted > 0
        /\ sweeps[s].persisted + sweeps[s].failed = Cardinality(Domain \X ProbedKind)

(* What a row that counts against an anchor rests on.  A comparison counts *)
(* only on something the anchor said: a mismatch on an answer about an     *)
(* issuer or a document that names none, an integrity failure on a         *)
(* document that is broken or whose key is not the only one the anchor has *)
(* served, a disabled deposit on an answer; no request of ours that failed *)
(* is such a thing.  Uptime and quotes are liveness observations: there a  *)
(* row says that no document came back, or no quote, and a request of ours *)
(* that was lost is counted too (health.ts:62-102).  How old a document    *)
(* may be is no part of this.                                              *)
AccusationsAreFounded ==
    \A r \in ledger : (~r.reachable /\ IsVerdict(r)) =>
        CASE r.kind = "issuer-mismatch" ->
                r.doc \in Document /\ (r.doc.names => r.answer = "no")
          [] r.kind = "toml-integrity" ->
                r.doc.state = "unparsable" \/ r.doc.key = {} \/ keysSeen[r.domain] # r.doc.key
          [] r.kind = "deposit" -> r.answer = "no"
          [] r.kind = "uptime" -> r.doc \in Failing
          [] r.kind = "quote" -> r.answer # "yes"
          [] r.kind = "sep31-info" -> FALSE

(* The gate opens for the fleet only if each anchor was probed on every    *)
(* one of the last ReadinessDays days, today among them: however sweeps    *)
(* fail, overlap or straddle midnight (aggregate.ts:510-601).              *)
GateIsEarned ==
    FleetThresholdMet =>
        /\ day >= ReadinessDays
        /\ \A d \in Domain :
              \A e \in {x \in 1..day : x + ReadinessDays > day} : e \in CoveredDays(d)

(* docs/ANCHOR_REPUTATION.md:107: "A streak whose last observation is      *)
(* older than yesterday is reported as `0`."                               *)
StaleStreaksAreZero ==
    \A d \in Domain : (CoveredDays(d) # {} /\ Max(CoveredDays(d)) + 1 < day)
                        => ContinuousDays(d) = 0

(* docs/ANCHOR_REPUTATION.md:46, of an uptime row: "The anchor's          *)
(* `stellar.toml` resolves and is reachable."  The probe reads through the *)
(* cache of its instance (sep1.ts:268), so the document may be one that    *)
(* the anchor served before.                                               *)
UptimeIsObserved == \A r \in ledger : (r.kind = "uptime" /\ r.reachable) => r.up
=============================================================================
