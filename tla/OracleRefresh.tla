---------------------------- MODULE OracleRefresh ----------------------------
(***************************************************************************)
(* What a publisher tick refreshes on the contract after its outcomes:     *)
(* corridor rates, metrics of each anchor and corridor, and probe signals  *)
(* (packages/publisher/src/batch.ts, the loaders of                        *)
(* app/api/publisher/tick/route.ts, lib/oracle).                           *)
(*                                                                         *)
(* Each phase reads the log anew, derives its figures and writes them one  *)
(* by one; a write that fails or is refused is skipped.  The phases run    *)
(* only behind a batch that went through: no row to send, or an exception  *)
(* among the outcomes, and nothing is refreshed.  PublisherTick has the    *)
(* lock, the gate and the awaits of the outcomes; here a batch is a step.  *)
(* The count of drift flags that goes with the signals is left out.        *)
(***************************************************************************)
EXTENDS Integers, Sequences, FiniteSets

CONSTANTS
    RatedAnchor, Corridor,
    ProbeDomain, \* domains of the probe samples, numbered in the order they sort
    AnchorOf,    \* domainToAnchorId, which may name one anchor for several domains
    Target,      \* TARGET_CORRIDORS, those with a published rate
    Outcome,     \* reconciled withdrawals as they may come in
    Sample,      \* probe samples as they may come in
    Quoted,      \* the rate every withdrawal was quoted
    MaxBps,      \* 10 000 in the code
    MaxSettle,   \* MAX_SETTLE_SECONDS of the contract
    Window,      \* LIMIT of the loaders, 5000 in the code
    BatchSize,   \* BATCH_SIZE
    LogBound,    \* bounds on the log: a number of rows with one of probe samples
    MaxRefreshFaults \* bound on failures and kills

\* `settle' is settle_seconds, and 0 in a row that is not `timed', where it is null.
\* Quoted divides MaxBps, so the slippage of a row is a whole number here.
ASSUME RefreshAssumption ==
    /\ Target \subseteq Corridor
    /\ ProbeDomain \subseteq Nat /\ AnchorOf \in [ProbeDomain -> RatedAnchor]
    /\ Outcome \subseteq [anchor : RatedAnchor, corridor : Corridor, completed : BOOLEAN,
                          delivered : Nat, timed : BOOLEAN, settle : Nat]
    /\ Sample \subseteq [domain : ProbeDomain, kind : {"uptime", "quote"}, up : BOOLEAN,
                         latency : Nat]
    /\ Quoted \in Nat \ {0} /\ MaxBps % Quoted = 0
    /\ MaxBps \in Nat /\ MaxSettle \in Nat
    /\ Window \in Nat \ {0} /\ BatchSize \in Nat \ {0}
    /\ LogBound \subseteq [rows : Nat, samples : Nat] /\ MaxRefreshFaults \in Nat

VARIABLES
    attested,  \* attested, reconciled withdrawals by reconciled_at, oldest first
    marked,    \* how many of them are published, oldest first
    samples,   \* probe_samples, oldest first
    rate,      \* CorridorRate(corridor), optional
    metrics,   \* the metrics of a pair, optional
    signals,   \* ProbeSignals(anchor), optional
    stage,     \* where the tick awaits
    unwritten,  \* the figures of this phase still to write
    rFaults,   \* failures that may still happen
    clean,     \* history: the last refresh went through and nothing was reset since
    asOf       \* history: the rows and samples that its phases read

logVars == <<attested, marked, samples>>
oracleVars == <<rate, metrics, signals>>
refreshVars == <<logVars, oracleVars, stage, unwritten, rFaults, clean, asOf>>

Pair == RatedAnchor \X Corridor
Phase == {"rates", "metrics", "signals"}
Reading == [rates |-> "read rates", metrics |-> "read metrics", signals |-> "read signals"]
Figures == [fill : 0..MaxBps, slippage : 0..MaxBps, settle : Nat, n : Nat]
Signals == [uptime : 0..MaxBps, p50 : Nat, p95 : Nat]

RefreshTypeOK ==
    /\ attested \in Seq(Outcome) /\ marked \in 0..Len(attested)
    /\ samples \in Seq(Sample)
    /\ DOMAIN rate = Corridor /\ DOMAIN metrics = Pair /\ DOMAIN signals = RatedAnchor
    /\ \A c \in Corridor : rate[c] \subseteq Nat \ {0} /\ Cardinality(rate[c]) <= 1
    /\ \A p \in Pair : metrics[p] \subseteq Figures /\ Cardinality(metrics[p]) <= 1
    /\ \A a \in RatedAnchor : signals[a] \subseteq Signals /\ Cardinality(signals[a]) <= 1
    /\ stage \in {"idle"} \cup Phase \cup {Reading[phase] : phase \in Phase}
    /\ rFaults \in 0..MaxRefreshFaults /\ clean \in BOOLEAN
    /\ asOf \in [Phase -> Nat]

RefreshInit ==
    /\ attested = <<>> /\ marked = 0 /\ samples = <<>>
    /\ rate = [c \in Corridor |-> {}]
    /\ metrics = [p \in Pair |-> {}]
    /\ signals = [a \in RatedAnchor |-> {}]
    /\ stage = "idle" /\ unwritten = <<>>
    /\ rFaults = MaxRefreshFaults
    /\ clean = FALSE /\ asOf = [phase \in Phase |-> 0]

RefreshFault == rFaults > 0 /\ rFaults' = rFaults - 1
NoRefreshFault == UNCHANGED rFaults

-----------------------------------------------------------------------------
(* The derivations.                                                        *)

\* The k-th of the values of I in rising order.
Nth(I, value, k) ==
    CHOOSE x \in {value[i] : i \in I} :
        /\ Cardinality({i \in I : value[i] < x}) < k
        /\ k <= Cardinality({i \in I : value[i] <= x})

\* The middle value, or the mean of the two in the middle: truncated for rates,
\* rounded half up for the rest.
Middle(I, value, carry) ==
    LET n == Cardinality(I)
        mid == n \div 2
    IN  IF n % 2 = 1 THEN Nth(I, value, mid + 1)
        ELSE (Nth(I, value, mid) + Nth(I, value, mid + 1) + carry) \div 2

MiddleOrZero(I, value) == IF I = {} THEN 0 ELSE Middle(I, value, 1)

\* Math.round(part / whole * MaxBps).
Share(part, whole) == (2 * part * MaxBps + whole) \div (2 * whole)

\* Of the rows I, every one with a delivered rate counts, whatever became of it.
Priced(I) == {i \in I : attested[i].delivered > 0}
Rates(I) == [i \in I |-> attested[i].delivered]
DeriveRate(I, c) ==
    LET priced == Priced({i \in I : attested[i].corridor = c})
    IN  IF priced = {} THEN {} ELSE {Middle(priced, Rates(priced), 0)}

\* How far the delivered rate fell short of the quoted one, in basis points.
Slippage(o) ==
    IF o.delivered >= Quoted THEN 0 ELSE (Quoted - o.delivered) * (MaxBps \div Quoted)

OfPair(I, p) == {i \in I : <<attested[i].anchor, attested[i].corridor>> = p}
Completed(I) == {i \in I : attested[i].completed}
Timed(I) == {i \in I : attested[i].timed}
Settles(I) == [i \in I |-> attested[i].settle]
Slippages(I) == [i \in I |-> Slippage(attested[i])]
DeriveMetrics(I, p) ==
    LET group == OfPair(I, p)
        done == Completed(group)
        priced == Priced(done)
        timed == Timed(done)
    IN  IF group = {} THEN {}
        ELSE {[fill |-> Share(Cardinality(done), Cardinality(group)),
               slippage |-> MiddleOrZero(priced, Slippages(priced)),
               settle |-> MiddleOrZero(timed, Settles(timed)),
               n |-> Cardinality(group)]}

\* percentileNearestRank, and 0 for no reachable quote at all.
NearestRank(I, value, percent) ==
    IF I = {} THEN 0 ELSE Nth(I, value, (percent * Cardinality(I) + 99) \div 100)

\* A domain with no uptime sample has no signals: its uptime is unknown, not 0.
Probed(I, d, kind) == {i \in I : samples[i].domain = d /\ samples[i].kind = kind}
Reached(I) == {i \in I : samples[i].up}
Latencies(I) == [i \in I |-> samples[i].latency]
DeriveSignals(I, d) ==
    LET uptime == Probed(I, d, "uptime")
        quoted == Reached(Probed(I, d, "quote"))
    IN  IF uptime = {} THEN {}
        ELSE {[uptime |-> Share(Cardinality(Reached(uptime)), Cardinality(uptime)),
               p50 |-> NearestRank(quoted, Latencies(quoted), 50),
               p95 |-> NearestRank(quoted, Latencies(quoted), 95)]}

-----------------------------------------------------------------------------
(* The tick.                                                               *)

\* The reconciler stamps one more row, and a sweep stores one more sample.
Reconcile(o) ==
    /\ \E b \in LogBound : Len(attested) < b.rows /\ Len(samples) <= b.samples
    /\ attested' = Append(attested, o)
    /\ UNCHANGED <<marked, samples, oracleVars, stage, unwritten, rFaults, clean, asOf>>

StoreSample(s) ==
    /\ \E b \in LogBound : Len(attested) <= b.rows /\ Len(samples) < b.samples
    /\ samples' = Append(samples, s)
    /\ UNCHANGED <<attested, marked, oracleVars, stage, unwritten, rFaults, clean, asOf>>

\* The outcomes of a batch, oldest first, up to the first that throws: one that the
\* contract refuses for its settle time, or any on a failure.
RunBatch ==
    LET size == IF Len(attested) - marked < BatchSize THEN Len(attested) - marked ELSE BatchSize
        TooSlow(i) == attested[marked + i].settle > MaxSettle
    IN  /\ stage = "idle" /\ size > 0
        /\ \E sent \in 0..size :
            /\ \A i \in 1..sent : ~TooSlow(i)
            /\ marked' = marked + sent
            /\ \/ sent = size /\ stage' = Reading["rates"] /\ NoRefreshFault
               \/ sent < size /\ stage' = "idle"
                  /\ IF TooSlow(sent + 1) THEN NoRefreshFault ELSE RefreshFault
            /\ clean' = (clean /\ sent < size)
        /\ UNCHANGED <<attested, samples, oracleVars, unwritten, asOf>>

\* ORDER BY reconciled_at DESC LIMIT, and its near miss.
Oldest == {i \in DOMAIN attested : i <= Window}
Newest == {i \in DOMAIN attested : i > Len(attested) - Window}

\* The figures of a phase by what they are filed under, the signals by domain.  The
\* loader of the tick reads every probe sample there is: the window of the batch is for
\* its own query.
Derived(phase) ==
    CASE phase = "rates" -> [c \in Target |-> DeriveRate(Newest, c)]
      [] phase = "metrics" -> [p \in Pair |-> DeriveMetrics(Newest, p)]
      [] phase = "signals" -> [d \in ProbeDomain |-> DeriveSignals(DOMAIN samples, d)]

Present(figures) ==
    LET keys == {k \in DOMAIN figures : figures[k] # {}}
    IN  [k \in keys |-> figures[k]]

\* A query that fails is a phase without figures.
Read(phase) ==
    /\ stage = Reading[phase]
    /\ \/ unwritten' = Present(Derived(phase)) /\ NoRefreshFault /\ clean' = (clean \/ phase = "rates")
       \/ unwritten' = <<>> /\ RefreshFault /\ clean' = FALSE
    /\ stage' = phase
    /\ asOf' = [asOf EXCEPT ![phase] = IF phase = "signals" THEN Len(samples) ELSE Len(attested)]
    /\ UNCHANGED <<logVars, oracleVars>>

\* The contract's guards that a derived figure may fail: the band of a rate and the
\* cap on a settle time (corridor_rate.rs, score.rs).
WithinBand(old, new) == old \div 2 <= new /\ new <= 2 * old
Accepts(phase, k, x) ==
    CASE phase = "rates" -> \A old \in rate[k] : WithinBand(old, x)
      [] phase = "metrics" -> x.settle <= MaxSettle
      [] phase = "signals" -> x.p50 <= x.p95

StoreFigures(phase, k, figures) ==
    /\ rate' = IF phase = "rates" THEN [rate EXCEPT ![k] = figures] ELSE rate
    /\ metrics' = IF phase = "metrics" THEN [metrics EXCEPT ![k] = figures] ELSE metrics
    /\ signals' = IF phase = "signals" THEN [signals EXCEPT ![AnchorOf[k]] = figures] ELSE signals

\* The domains come in the order they sort, so of two domains of an anchor the later
\* one's signals replace the other's.
InTurn(phase, k) == phase = "signals" => \A q \in DOMAIN unwritten : k <= q

\* What is left of a phase after a write.
Rest(k) == [q \in DOMAIN unwritten \ {k} |-> unwritten[q]]

\* withRetry repeats the same figures, which changes nothing once they landed: a write
\* lands, is refused, or is given up.
Write(phase, k) ==
    LET accepted == \A x \in unwritten[k] : Accepts(phase, k, x)
    IN  /\ stage = phase /\ k \in DOMAIN unwritten /\ InTurn(phase, k)
        /\ \/ accepted /\ StoreFigures(phase, k, unwritten[k]) /\ NoRefreshFault /\ UNCHANGED clean
           \/ ~accepted /\ UNCHANGED oracleVars /\ NoRefreshFault /\ UNCHANGED clean
           \/ UNCHANGED oracleVars /\ RefreshFault /\ clean' = FALSE
        /\ unwritten' = Rest(k)
        /\ UNCHANGED <<logVars, stage, asOf>>

After == [rates |-> Reading["metrics"], metrics |-> Reading["signals"], signals |-> "idle"]

EndPhase ==
    /\ stage \in Phase /\ DOMAIN unwritten = {}
    /\ stage' = After[stage]
    /\ unwritten' = <<>>
    /\ UNCHANGED <<logVars, oracleVars, rFaults, clean, asOf>>

\* The instance dies, or the client cannot be made: the tick ends.
Kill ==
    /\ stage # "idle" /\ RefreshFault
    /\ stage' = "idle" /\ unwritten' = <<>> /\ clean' = FALSE
    /\ UNCHANGED <<logVars, oracleVars, asOf>>

\* The admin's way out of the band.
ResetRate(c) ==
    /\ rate[c] # {}
    /\ rate' = [rate EXCEPT ![c] = {}]
    /\ clean' = FALSE
    /\ UNCHANGED <<logVars, metrics, signals, stage, unwritten, rFaults, asOf>>

RefreshNext ==
    \/ \E o \in Outcome : Reconcile(o)
    \/ \E s \in Sample : StoreSample(s)
    \/ RunBatch
    \/ \E phase \in Phase : Read(phase)
    \/ \E phase \in Phase : \E k \in DOMAIN unwritten : Write(phase, k)
    \/ EndPhase \/ Kill
    \/ \E c \in Corridor : ResetRate(c)

RefreshSpec == RefreshInit /\ [][RefreshNext]_refreshVars

-----------------------------------------------------------------------------
(* Properties.                                                             *)

\* By counting: as many of the named values are below x as above it.
IsMedian(x, I, value) ==
    /\ 2 * Cardinality({i \in I : value[i] <= x}) >= Cardinality(I)
    /\ 2 * Cardinality({i \in I : value[i] >= x}) >= Cardinality(I)
    /\ \E i, j \in I : value[i] <= x /\ x <= value[j]

\* x is a value that percent of them do not exceed, and the first such.
IsRank(x, I, value, percent) ==
    /\ \E i \in I : value[i] = x
    /\ 100 * Cardinality({i \in I : value[i] <= x}) >= percent * Cardinality(I)
    /\ 100 * Cardinality({i \in I : value[i] < x}) < percent * Cardinality(I)

IsShare(x, part, whole) == 2 * (x * whole - part * MaxBps) \in (-whole)..whole

Recent(phase) == {i \in 1..asOf[phase] : i > asOf[phase] - Window}

RateIsCurrent(c) ==
    LET I == Priced({i \in Recent("rates") : attested[i].corridor = c})
        Median(x) == IsMedian(x, I, Rates(I))
    IN  I = {} \/ \E old \in rate[c] :
            \/ Median(old)
            \/ \E i, j \in I : \E x \in Rates(I)[i]..Rates(I)[j] :
                  Median(x) /\ ~WithinBand(old, x)

\* m says of the rows of a pair what they say: 0 where none of them has a settle time,
\* or a price.
Measures(m, I) ==
    LET done == Completed(I)
        priced == Priced(done)
        timed == Timed(done)
    IN  /\ m.n = Cardinality(I) /\ IsShare(m.fill, Cardinality(done), m.n)
        /\ IF timed = {} THEN m.settle = 0 ELSE IsMedian(m.settle, timed, Settles(timed))
        /\ IF priced = {} THEN m.slippage = 0
           ELSE IsMedian(m.slippage, priced, Slippages(priced))

\* The middle of these settle times may be one that the contract refuses.
TooSlowFor(I) ==
    LET timed == Timed(Completed(I))
    IN  \E i, j \in timed : \E x \in Settles(timed)[i]..Settles(timed)[j] :
            IsMedian(x, timed, Settles(timed)) /\ x > MaxSettle

MetricsAreCurrent(p) ==
    LET I == OfPair(Recent("metrics"), p)
    IN  I = {} \/ TooSlowFor(I) \/ \E m \in metrics[p] : Measures(m, I)

\* s says of some probes what they say.
Reports(s, uptime, quoted) ==
    /\ IsShare(s.uptime, Cardinality(Reached(uptime)), Cardinality(uptime))
    /\ IF quoted = {} THEN s.p50 = 0 /\ s.p95 = 0
       ELSE /\ IsRank(s.p50, quoted, Latencies(quoted), 50)
            /\ IsRank(s.p95, quoted, Latencies(quoted), 95)

UptimeRows(d) == Probed(1..asOf["signals"], d, "uptime")
QuoteRows(d) == Reached(Probed(1..asOf["signals"], d, "quote"))

\* Of the domains of an anchor whose uptime is known, d is the one that sorts last.
LastOfAnchor(d) ==
    /\ UptimeRows(d) # {}
    /\ \A e \in ProbeDomain :
          AnchorOf[e] = AnchorOf[d] /\ UptimeRows(e) # {} => e <= d

SignalsAreCurrent(d) ==
    LastOfAnchor(d) =>
        \E s \in signals[AnchorOf[d]] : Reports(s, UptimeRows(d), QuoteRows(d))

\* Behind a refresh in which nothing failed, the contract says of every corridor and pair
\* what the newest rows say, and of an anchor what all samples of the last of its domains
\* say, however many other figures were refused: the median, the share and the count.  The
\* exceptions are the contract's: a rate outside its band, a median beyond its cap.
CleanRefreshIsCurrent ==
    stage = "idle" /\ clean =>
        /\ \A c \in Target : RateIsCurrent(c)
        /\ \A p \in Pair : MetricsAreCurrent(p)
        /\ \A d \in ProbeDomain : SignalsAreCurrent(d)

\* "Aggregates per-anchor probe-derived signals over the supplied rows" (batch.ts:288): the
\* signals of an anchor are those of the samples of all its domains together.
SignalsAreOfTheAnchor ==
    stage = "idle" /\ clean => \A a \in RatedAnchor :
        LET mine == {d \in ProbeDomain : AnchorOf[d] = a}
            uptime == UNION {UptimeRows(d) : d \in mine}
            quoted == UNION {QuoteRows(d) : d \in mine}
        IN  uptime = {} \/ \E s \in signals[a] : Reports(s, uptime, quoted)
=============================================================================
