--------------------------- MODULE ScheduledProofs ---------------------------
(***************************************************************************)
(* Proofs about what runs on a schedule beside the publisher: the sweeps   *)
(* of the probes, for any kinds of probe; the nightly health ledger; and   *)
(* the refresh of the oracle, for any log of outcomes and samples.         *)
(***************************************************************************)
EXTENDS ProbeLedger, HealthLedger, OracleRefresh, FiniteSetTheorems, WellFoundedInduction, TLAPS

-----------------------------------------------------------------------------
(* Sets of numbers. *)

\* A nonempty set of natural numbers has a least.
LEMMA LeastExists ==
    ASSUME NEW T, T \subseteq Nat, T # {}
    PROVE  \E i \in T : \A j \in T : i <= j
<1> DEFINE R == OpToRel(<, Nat)
<1>1. IsWellFoundedOn(R, Nat)
  BY NatLessThanWellFounded
<1>2. \A x, y \in Nat : x < y => <<x, y>> \in R
  BY DEF OpToRel
<1> HIDE DEF R
<1>3. PICK i \in T : \A j \in T : ~(<<j, i>> \in R)
  BY <1>1, WFMin
<1>4. \A j \in T : ~(j < i)
  BY <1>2, <1>3
<1>5. \A j \in T : i <= j
  BY <1>4, SMT
<1> QED BY <1>5

\* A nonempty set of numbers that has a bound has a greatest.
LEMMA GreatestExists ==
    ASSUME NEW T, NEW n \in Nat, T \subseteq 0..n, T # {}
    PROVE  \E i \in T : \A j \in T : j <= i
<1> DEFINE R == OpToRel(<, Nat)
           D == {n - i : i \in T}
<1>1. IsWellFoundedOn(R, Nat)
  BY NatLessThanWellFounded
<1> HIDE DEF R
<1>2. D \subseteq Nat /\ D # {}
  <2>1. \A i \in T : n - i \in D /\ n - i \in Nat
    OBVIOUS
  <2>2. PICK i \in T : TRUE
    OBVIOUS
  <2> QED BY <2>1, <2>2
<1>3. \A x, y \in Nat : x < y => <<x, y>> \in R
  BY DEF R, OpToRel
<1> HIDE DEF D
<1>4. PICK k \in D : \A m \in D : ~(<<m, k>> \in R)
  BY <1>1, <1>2, WFMin
<1>5. \A m \in D : ~(m < k)
  BY <1>2, <1>3, <1>4
<1> USE DEF D
<1>6. PICK i \in T : k = n - i
  BY <1>4
<1>7. \A j \in T : n - j \in D
  OBVIOUS
<1>8. \A j \in T : ~(n - j < n - i)
  BY <1>5, <1>6, <1>7
<1>9. \A j \in T : j <= i
  <2> HIDE DEF D
  <2>1. i \in Nat /\ \A j \in T : j \in Nat
    OBVIOUS
  <2> QED BY <1>8, <2>1
<1> QED BY <1>9

\* A set of numbers with 0 in it, and with each number the next, has all of them.
LEMMA SetInduction ==
    ASSUME NEW T, 0 \in T, \A n \in Nat : n \in T => n + 1 \in T
    PROVE  \A n \in Nat : n \in T
<1> DEFINE R == OpToRel(<, Nat)
           Out == Nat \ T
<1> SUFFICES ASSUME Out # {} PROVE FALSE
  OBVIOUS
<1>1. IsWellFoundedOn(R, Nat)
  BY NatLessThanWellFounded
<1>2. \A x, y \in Nat : x < y => <<x, y>> \in R
  BY DEF OpToRel
<1> HIDE DEF R
<1>3. PICK i \in Out : \A j \in Out : ~(<<j, i>> \in R)
  BY <1>1, WFMin
<1>4. i \in Nat /\ i # 0
  OBVIOUS
<1>5. i - 1 \in Nat /\ i - 1 < i /\ (i - 1) + 1 = i
  BY <1>4
<1>6. i - 1 \notin Out
  BY <1>2, <1>3, <1>4, <1>5
<1> QED
  BY <1>4, <1>5, <1>6

\* Finitely many numbers have a bound.
LEMMA BoundExists ==
    ASSUME NEW N \in Nat, NEW v \in [1..N -> Nat]
    PROVE  \E b \in Nat : \A i \in 1..N : v[i] <= b
<1> DEFINE T == {n \in Nat : \E b \in Nat : \A i \in 1..N : i <= n => v[i] <= b}
<1>1. \A i \in 1..N : v[i] \in Nat
  OBVIOUS
<1>2. 0 \in T
  OBVIOUS
<1>3. ASSUME NEW n \in Nat, n \in T PROVE n + 1 \in T
  <2>1. PICK b \in Nat : \A i \in 1..N : i <= n => v[i] <= b
    BY <1>3
  <2> DEFINE c == IF n + 1 \in 1..N /\ v[n + 1] > b THEN v[n + 1] ELSE b
  <2>2. c \in Nat /\ b <= c /\ (n + 1 \in 1..N => v[n + 1] <= c)
    BY <1>1
  <2> HIDE DEF c
  <2>3. \A i \in 1..N : i <= n + 1 => v[i] <= c
    <3> TAKE i \in 1..N
    <3> HAVE i <= n + 1
    <3>1. i \in Nat /\ v[i] \in Nat
      BY <1>1
    <3>2. CASE i = n + 1
      BY <2>2, <3>2
    <3>3. CASE i <= n
      BY <2>1, <2>2, <3>1, <3>3
    <3> QED
      BY <3>1, <3>2, <3>3
  <2> QED
    BY <2>2, <2>3
<1> HIDE DEF T
<1>4. N \in T
  BY <1>2, <1>3, SetInduction
<1> QED
  BY <1>4 DEF T

-----------------------------------------------------------------------------
(* The probe ledger.  Whatever an instance remembers of an anchor, and     *)
(* whatever a probe judged, the anchor has served (DocOK, MemoryOK), so a  *)
(* row that accuses it names what it did (RowOK).  A probe of a sweep is   *)
(* due, or its row is being written, or it is counted, and never two of    *)
(* the three (CountOK).                                                    *)

SweepState ==
    [pc : {"new", "running", "ok", "error", "conflict", "dead"},
     on : SUBSET Instance, found : [Domain -> SUBSET Document], began : 0..MaxDay,
     persisted : Nat, failed : Nat]
TomlEntry == [doc : Document, day : 1..MaxDay]

\* A document that a domain has served, as it is remembered.
DocOK(doc, known) == doc \in Document /\ doc.urls = TRUE /\ doc.key \subseteq known

AtMostOne(S) == \A x, y \in S : x = y

\* What the instances may remember, when the domains have served the keys known.
MemoryOK(c, g, known) ==
    /\ c \in [Instance -> [Domain -> SUBSET TomlEntry]]
    /\ g \in [Instance -> [Domain -> SUBSET SigningKey]]
    /\ \A i \in Instance : \A d \in Domain :
          /\ AtMostOne(c[i][d]) /\ \A e \in c[i][d] : DocOK(e.doc, known[d])
          /\ g[i][d] \subseteq known[d]

\* An accusation of kind k is founded on the document and the answer it was judged by.
FoundedOn(k, doc, said, failure, known) ==
    /\ k = "issuer-mismatch" /\ failure = "mismatch"
       => doc \in Document /\ (doc.names => said = "no")
    /\ k = "toml-integrity" /\ failure = "integrity"
       => doc.state = "unparsable" \/ doc.key = {} \/ known # doc.key
    /\ k = "deposit" /\ failure = "disabled" => said = "no"
    /\ k = "uptime" /\ failure # "none" => doc \in Failing
    /\ k = "quote" /\ failure # "none" => said # "yes"

\* What a row may say by day t.
RowOK(r, known, t) ==
    /\ r \in Row /\ r.day <= t /\ r.doc.key \subseteq known[r.domain]
    /\ r.reachable <=> r.failure = "none"
    /\ FoundedOn(r.kind, r.doc, r.answer, r.failure, known[r.domain])

ProbeInv ==
    /\ day \in 1..MaxDay /\ probeFaults \in 0..MaxProbeFaults /\ locked \in BOOLEAN
    /\ served \in [Domain -> Published \cup Failing]
    /\ keysSeen \in [Domain -> SUBSET SigningKey]
    /\ \A d \in Domain : served[d].key \subseteq keysSeen[d]
    /\ MemoryOK(cached, lastGood, keysSeen)
    /\ sweeps \in [Sweep -> SweepState]
    /\ \A s \in Sweep : \A d \in Domain : \A doc \in sweeps[s].found[d] : DocOK(doc, keysSeen[d])
    /\ due \subseteq Sweep \X Domain \X ProbedKind
    /\ \A p \in due : sweeps[p[1]].on # {}
    /\ \A r \in writing \cup ledger :
          RowOK(r, keysSeen, day) /\ <<r.sweep, r.domain, r.kind>> \notin due

\* The probes of sweep s that are due, and the rows of it.
Left(d, s) == {q \in Domain \X ProbedKind : <<s, q[1], q[2]>> \in d}
RowsOf(rows, s) == {r \in rows : r.sweep = s}

\* The counts of sweep s, which is x.
CountOK(x, s, d, w, l) ==
    /\ x.persisted <= Cardinality(RowsOf(l, s))
    /\ Cardinality(RowsOf(l, s)) <= x.persisted + x.failed
    /\ x.pc = "new" => x.persisted = 0 /\ x.failed = 0 /\ RowsOf(l, s) = {}
    /\ x.pc # "running" => Left(d, s) = {} /\ RowsOf(w, s) = {}
    /\ x.pc = "running" =>
          x.persisted + x.failed + Cardinality(RowsOf(w, s)) + Cardinality(Left(d, s))
          = Cardinality(Domain \X ProbedKind)
    /\ x.pc \in {"ok", "error"} =>
          /\ x.persisted + x.failed = Cardinality(Domain \X ProbedKind)
          /\ x.pc = "ok" <=> x.persisted > 0

CountInv ==
    /\ IsFiniteSet(writing) /\ IsFiniteSet(ledger) /\ writing \cap ledger = {}
    /\ \A s \in Sweep : CountOK(sweeps[s], s, due, writing, ledger)

-----------------------------------------------------------------------------
(* Documents, and what is judged by them.                                  *)

\* A document has at most one key.
LEMMA OneKey ==
    ASSUME NEW doc \in Document, NEW x \in doc.key
    PROVE  doc.key = {x} /\ doc.key \subseteq SigningKey
<1>1. doc.key \in {{}} \cup {{k} : k \in SigningKey}
  BY DEF Document
<1> QED BY <1>1

\* What the domains have served is a document, or none and without a key.
LEMMA ServedIs ==
    ASSUME ProbeInv, NEW d \in Domain
    PROVE  /\ served[d] \in Document \cup Failing
           /\ keysSeen[d] \subseteq SigningKey /\ served[d].key \subseteq keysSeen[d]
           /\ served[d] \in Document => [served[d] EXCEPT !.urls = TRUE] \in Document
           /\ served[d] \in Document => DocOK([served[d] EXCEPT !.urls = TRUE], keysSeen[d])
<1>1. served[d] \in Document \cup Failing
  BY ProbesAssumed DEF ProbeInv, ProbeAssumption
<1>2. keysSeen[d] \subseteq SigningKey /\ served[d].key \subseteq keysSeen[d]
  BY DEF ProbeInv
<1>3. \A x \in Document : \A v \in BOOLEAN : /\ [x EXCEPT !.urls = v] \in Document
                                             /\ [x EXCEPT !.urls = v].key = x.key
                                             /\ [x EXCEPT !.urls = v].urls = v
  BY DEF Document
<1> QED BY <1>1, <1>2, <1>3 DEF DocOK

\* The row of a sample.
Sampled(s, d, k, doc, said, failure) ==
    [domain |-> d, kind |-> k, day |-> day, reachable |-> failure = "none",
     failure |-> failure, sweep |-> s, doc |-> doc, answer |-> said,
     up |-> served[d] \in Document]

\* A sample that accuses nobody without a reason makes a row.
LEMMA SampleIsRow ==
    ASSUME ProbeInv, NEW s \in Sweep, NEW d \in Domain, NEW k \in ProbedKind,
           NEW doc \in Document \cup Failing, doc.key \subseteq keysSeen[d],
           NEW said \in {"none", "yes", "no", "failed"},
           NEW failure \in {"none", "mismatch", "integrity", "disabled", "other"},
           FoundedOn(k, doc, said, failure, keysSeen[d])
    PROVE  /\ RowOK(Sampled(s, d, k, doc, said, failure), keysSeen, day)
           /\ Sampled(s, d, k, doc, said, failure).sweep = s
           /\ Sampled(s, d, k, doc, said, failure).domain = d
           /\ Sampled(s, d, k, doc, said, failure).kind = k
<1> DEFINE r == Sampled(s, d, k, doc, said, failure)
<1>1. (failure = "none") \in BOOLEAN /\ (served[d] \in Document) \in BOOLEAN
  OBVIOUS
<1>2. day \in 1..MaxDay /\ day <= day
  BY ProbesAssumed DEF ProbeInv, ProbeAssumption
<1>3. r \in Row
  BY <1>1, <1>2 DEF Sampled, Row
<1>4. /\ r.domain = d /\ r.kind = k /\ r.day = day /\ r.failure = failure /\ r.sweep = s
      /\ r.doc = doc /\ r.answer = said /\ (r.reachable <=> failure = "none")
  BY DEF Sampled
<1> HIDE DEF r
<1>5. RowOK(r, keysSeen, day)
  BY <1>2, <1>3, <1>4 DEF RowOK
<1> QED BY <1>4, <1>5 DEF r

\* A document that is not sound shows what is wrong with the anchor: the key it had before
\* is one that it served, and not this one.
LEMMA UnsoundIsFounded ==
    ASSUME ProbeInv, NEW i \in Instance, NEW d \in Domain, NEW doc, DocOK(doc, keysSeen[d]),
           ~Sound(i, d, doc)
    PROVE  doc.key = {} \/ keysSeen[d] # doc.key
<1>1. lastGood[i][d] \subseteq keysSeen[d]
  BY DEF ProbeInv, MemoryOK
<1>2. SUFFICES ASSUME doc.key # {}, keysSeen[d] = doc.key PROVE FALSE
  OBVIOUS
<1>3. doc \in Document /\ doc.urls = TRUE
  BY DEF DocOK
<1>4. PICK x : x \in doc.key
  BY <1>2
<1>5. doc.key = {x}
  BY <1>3, <1>4, OneKey
<1>6. lastGood[i][d] = {} \/ lastGood[i][d] = doc.key
  BY <1>1, <1>2, <1>5
<1> QED BY <1>2, <1>3, <1>6 DEF Sound

\* A probe that has a document leaves a row that accuses the anchor only with a reason.
LEMMA JudgeEffect ==
    ASSUME ProbeInv, NEW s \in Sweep, NEW d \in Domain, NEW k \in ProbedKind,
           NEW doc, DocOK(doc, keysSeen[d]), On(s) \in Instance, Judge(s, d, k, doc)
    PROVE  /\ \E row : /\ RowOK(row, keysSeen, day)
                       /\ row.sweep = s /\ row.domain = d /\ row.kind = k
                       /\ writing' = writing \cup {row}
           /\ probeFaults' \in 0..MaxProbeFaults
           /\ lastGood' \in [Instance -> [Domain -> SUBSET SigningKey]]
           /\ \A i \in Instance : \A e \in Domain : lastGood'[i][e] \subseteq keysSeen[e]
<1> DEFINE i == On(s)
           sound == k = "uptime" \/ Sound(i, d, doc)
<1>1. doc \in Document /\ doc.key \subseteq keysSeen[d] /\ doc.key \subseteq SigningKey
  BY ServedIs DEF DocOK
<1>2. /\ lastGood \in [Instance -> [Domain -> SUBSET SigningKey]]
      /\ \A j \in Instance : \A e \in Domain : lastGood[j][e] \subseteq keysSeen[e]
      /\ probeFaults \in 0..MaxProbeFaults /\ MaxProbeFaults \in Nat
  BY ProbesAssumed DEF ProbeInv, MemoryOK, ProbeAssumption
<1>3. \A said, failure : RecordSample(s, d, k, doc, said, failure)
         => writing' = writing \cup {Sampled(s, d, k, doc, said, failure)}
  BY DEF RecordSample, Sampled
<1>4. ASSUME NEW said \in {"none", "yes", "no", "failed"},
             NEW failure \in {"none", "mismatch", "integrity", "disabled", "other"},
             FoundedOn(k, doc, said, failure, keysSeen[d]),
             RecordSample(s, d, k, doc, said, failure)
      PROVE  \E row : /\ RowOK(row, keysSeen, day)
                      /\ row.sweep = s /\ row.domain = d /\ row.kind = k
                      /\ writing' = writing \cup {row}
  BY <1>1, <1>3, <1>4, SampleIsRow
<1>5. CASE /\ k \in {"uptime", "toml-integrity"}
           /\ RecordSample(s, d, k, doc, "none", IF sound THEN "none" ELSE "integrity")
           /\ UNCHANGED probeFaults
           /\ lastGood' = IF k = "toml-integrity" /\ sound
                          THEN [lastGood EXCEPT ![i][d] = doc.key] ELSE lastGood
  <2> DEFINE failure == IF sound THEN "none" ELSE "integrity"
  <2>1. FoundedOn(k, doc, "none", failure, keysSeen[d])
    <3>1. k = "toml-integrity" /\ failure = "integrity"
          => doc.key = {} \/ keysSeen[d] # doc.key
      BY UnsoundIsFounded
    <3>2. /\ failure # "disabled" /\ failure # "mismatch"
          /\ k = "uptime" => failure = "none"
      OBVIOUS
    <3> HIDE DEF failure
    <3> QED BY <1>5, <3>1, <3>2 DEF FoundedOn
  <2>2. failure \in {"none", "integrity"} /\ RecordSample(s, d, k, doc, "none", failure)
    BY <1>5
  <2>3. CASE lastGood' = lastGood
    <3> HIDE DEF failure
    <3> QED BY <1>2, <1>4, <1>5, <2>1, <2>2, <2>3
  <2>4. CASE lastGood' = [lastGood EXCEPT ![i][d] = doc.key]
    <3>1. lastGood' \in [Instance -> [Domain -> SUBSET SigningKey]]
      BY <1>1, <1>2, <2>4
    <3>2. ASSUME NEW j \in Instance, NEW e \in Domain PROVE lastGood'[j][e] \subseteq keysSeen[e]
      <4>1. CASE j = i /\ e = d
        BY <1>1, <1>2, <2>4, <4>1
      <4>2. CASE ~(j = i /\ e = d)
        <5>1. lastGood'[j][e] = lastGood[j][e]
          BY <1>2, <2>4, <4>2
        <5> QED BY <1>2, <5>1
      <4> QED BY <4>1, <4>2
    <3> HIDE DEF failure
    <3> QED BY <1>2, <1>4, <1>5, <2>1, <2>2, <3>1, <3>2
  <2> QED BY <1>5, <2>3, <2>4
<1>6. ASSUME k \notin {"uptime", "toml-integrity"}, doc.names,
             NEW said \in {"yes", "no", "failed"},
             RecordSample(s, d, k, doc, said, OutcomeOf(k, said))
      PROVE  \E row : /\ RowOK(row, keysSeen, day)
                      /\ row.sweep = s /\ row.domain = d /\ row.kind = k
                      /\ writing' = writing \cup {row}
  <2>1. /\ OutcomeOf(k, said) \in {"none", "mismatch", "disabled", "other"}
        /\ OutcomeOf(k, said) \in {"mismatch", "disabled"} => said = "no"
        /\ OutcomeOf(k, said) # "none" => said # "yes"
    BY DEF OutcomeOf
  <2>2. FoundedOn(k, doc, said, OutcomeOf(k, said), keysSeen[d])
    BY <1>1, <1>6, <2>1 DEF FoundedOn
  <2> QED BY <1>4, <1>6, <2>1, <2>2
<1>7. ASSUME k \notin {"uptime", "toml-integrity"}, ~doc.names,
             RecordSample(s, d, k, doc, "none",
                          IF k = "issuer-mismatch" THEN "mismatch" ELSE "other")
      PROVE  \E row : /\ RowOK(row, keysSeen, day)
                      /\ row.sweep = s /\ row.domain = d /\ row.kind = k
                      /\ writing' = writing \cup {row}
  <2> DEFINE failure == IF k = "issuer-mismatch" THEN "mismatch" ELSE "other"
  <2>1. failure \in {"mismatch", "other"}
    OBVIOUS
  <2>2. RecordSample(s, d, k, doc, "none", failure)
    BY <1>7
  <2> HIDE DEF failure
  <2>3. FoundedOn(k, doc, "none", failure, keysSeen[d])
    BY <1>1, <1>7, <2>1 DEF FoundedOn
  <2> QED BY <1>4, <2>1, <2>2, <2>3
<1>8. ProbeFault => probeFaults' \in 0..MaxProbeFaults
  BY <1>2 DEF ProbeFault
<1> QED BY <1>2, <1>5, <1>6, <1>7, <1>8 DEF Judge

\* What an instance has fetched, or forgets, it may remember.
LEMMA CacheSet ==
    ASSUME ProbeInv, NEW i \in Instance, NEW d \in Domain,
           NEW S \in SUBSET TomlEntry, AtMostOne(S), \A e \in S : DocOK(e.doc, keysSeen[d]),
           NEW c, c = [cached EXCEPT ![i][d] = S], NEW g,
           g \in [Instance -> [Domain -> SUBSET SigningKey]],
           \A j \in Instance : \A e \in Domain : g[j][e] \subseteq keysSeen[e]
    PROVE  MemoryOK(c, g, keysSeen)
<1>1. cached \in [Instance -> [Domain -> SUBSET TomlEntry]]
  BY DEF ProbeInv, MemoryOK
<1>2. c \in [Instance -> [Domain -> SUBSET TomlEntry]]
  BY <1>1
<1>3. ASSUME NEW j \in Instance, NEW e \in Domain
      PROVE  AtMostOne(c[j][e]) /\ \A x \in c[j][e] : DocOK(x.doc, keysSeen[e])
  <2>1. CASE j = i /\ e = d
    <3>1. c[j][e] = S
      BY <1>1, <2>1
    <3> QED BY <2>1, <3>1
  <2>2. CASE ~(j = i /\ e = d)
    <3>1. c[j][e] = cached[j][e]
      BY <1>1, <2>2
    <3> QED BY <3>1 DEF ProbeInv, MemoryOK
  <2> QED BY <2>1, <2>2
<1> QED BY <1>2, <1>3 DEF MemoryOK

\* A probe that returns leaves a row, and is due no more.
LEMMA ProbeEffect ==
    ASSUME ProbeInv, NEW p \in due, Probe(p[1], p[2], p[3])
    PROVE  /\ p \in Sweep \X Domain \X ProbedKind /\ p = <<p[1], p[2], p[3]>>
           /\ due' = due \ {p}
           /\ \E row : /\ RowOK(row, keysSeen, day)
                       /\ row.sweep = p[1] /\ row.domain = p[2] /\ row.kind = p[3]
                       /\ writing' = writing \cup {row}
           /\ probeFaults' \in 0..MaxProbeFaults
           /\ MemoryOK(cached', lastGood', keysSeen)
           /\ UNCHANGED <<day, served, keysSeen, locked, sweeps, ledger>>
<1> DEFINE s == p[1]
           d == p[2]
           k == p[3]
           Leaves == \E row : /\ RowOK(row, keysSeen, day)
                              /\ row.sweep = s /\ row.domain = d /\ row.kind = k
                              /\ writing' = writing \cup {row}
           Remembers == MemoryOK(cached', lastGood', keysSeen)
<1>1. p \in Sweep \X Domain \X ProbedKind
  BY DEF ProbeInv
<1>2. s \in Sweep /\ d \in Domain /\ k \in ProbedKind /\ p = <<s, d, k>>
  BY <1>1
<1>3. /\ due' = due \ {p}
      /\ UNCHANGED <<day, served, keysSeen, locked, sweeps, ledger>>
      /\ \/ \E doc \in sweeps[s].found[d] : Judge(s, d, k, doc) /\ UNCHANGED cached
         \/ sweeps[s].found[d] = {} /\ (TomlFetched(s, d, k) \/ TomlNotFetched(s, d, k))
  BY <1>2 DEF Probe, world
<1>4. On(s) \in Instance
  <2>1. sweeps[s] \in SweepState /\ sweeps[s].on # {}
    BY <1>2 DEF ProbeInv
  <2>2. sweeps[s].on \subseteq Instance
    BY <2>1 DEF SweepState
  <2> QED BY <2>1, <2>2 DEF On
<1>5. /\ cached \in [Instance -> [Domain -> SUBSET TomlEntry]]
      /\ lastGood \in [Instance -> [Domain -> SUBSET SigningKey]]
      /\ \A j \in Instance : \A e \in Domain : /\ AtMostOne(cached[j][e])
                                               /\ \A x \in cached[j][e] : DocOK(x.doc, keysSeen[e])
                                               /\ lastGood[j][e] \subseteq keysSeen[e]
  BY DEF ProbeInv, MemoryOK
<1>6. /\ day \in 1..MaxDay /\ probeFaults \in 0..MaxProbeFaults /\ MaxProbeFaults \in Nat
  BY ProbesAssumed DEF ProbeInv, ProbeAssumption
<1> HIDE DEF s, d, k
<1>7. ASSUME NEW doc \in sweeps[s].found[d], Judge(s, d, k, doc), UNCHANGED cached
      PROVE  Leaves /\ probeFaults' \in 0..MaxProbeFaults /\ Remembers
  <2>1. DocOK(doc, keysSeen[d])
    BY <1>2 DEF ProbeInv
  <2>2. /\ Leaves /\ probeFaults' \in 0..MaxProbeFaults
        /\ lastGood' \in [Instance -> [Domain -> SUBSET SigningKey]]
        /\ \A i \in Instance : \A e \in Domain : lastGood'[i][e] \subseteq keysSeen[e]
    BY <1>2, <1>4, <1>7, <2>1, JudgeEffect
  <2> HIDE DEF Leaves
  <2> QED BY <1>5, <1>7, <2>2 DEF MemoryOK
<1>8. ASSUME TomlFetched(s, d, k)
      PROVE  Leaves /\ probeFaults' \in 0..MaxProbeFaults /\ Remembers
  <2> DEFINE doc == [served[d] EXCEPT !.urls = TRUE]
             S == {[doc |-> doc, day |-> day]}
  <2>1. served[d] \in Document /\ Judge(s, d, k, doc) /\ cached' = [cached EXCEPT ![On(s)][d] = S]
    BY <1>8 DEF TomlFetched
  <2>2. doc \in Document /\ DocOK(doc, keysSeen[d])
    BY <1>2, <2>1, ServedIs
  <2> HIDE DEF doc
  <2>3. /\ Leaves /\ probeFaults' \in 0..MaxProbeFaults
        /\ lastGood' \in [Instance -> [Domain -> SUBSET SigningKey]]
        /\ \A i \in Instance : \A e \in Domain : lastGood'[i][e] \subseteq keysSeen[e]
    BY <1>2, <1>4, <2>1, <2>2, JudgeEffect
  <2>4. [doc |-> doc, day |-> day] \in TomlEntry
    BY <1>6, <2>2 DEF TomlEntry
  <2>5. S \in SUBSET TomlEntry /\ AtMostOne(S) /\ \A e \in S : DocOK(e.doc, keysSeen[d])
    BY <2>2, <2>4 DEF AtMostOne
  <2> HIDE DEF S, Leaves
  <2> QED BY <1>2, <1>4, <2>1, <2>3, <2>5, CacheSet
<1>9. ASSUME TomlNotFetched(s, d, k)
      PROVE  Leaves /\ probeFaults' \in 0..MaxProbeFaults /\ Remembers
  <2>1. PICK f \in Failing :
          /\ (f.state = "down" /\ ProbeFault) \/ (f = served[d] /\ UNCHANGED probeFaults)
          /\ RecordSample(s, d, k, f, "none",
                          IF f.state = "unparsable" THEN "integrity" ELSE "other")
    BY <1>9 DEF TomlNotFetched
  <2> DEFINE failure == IF f.state = "unparsable" THEN "integrity" ELSE "other"
  <2>2. failure \in {"integrity", "other"} /\ (failure = "integrity" => f.state = "unparsable")
    OBVIOUS
  <2>3. RecordSample(s, d, k, f, "none", failure)
    BY <2>1
  <2> HIDE DEF failure
  <2>4. FoundedOn(k, f, "none", failure, keysSeen[d])
    BY <2>2 DEF FoundedOn
  <2>5. f.key = {}
    BY DEF Failing
  <2>6. writing' = writing \cup {Sampled(s, d, k, f, "none", failure)}
    BY <2>3 DEF RecordSample, Sampled
  <2>7. Leaves
    BY <1>2, <2>2, <2>4, <2>5, <2>6, SampleIsRow
  <2>8. probeFaults' \in 0..MaxProbeFaults
    BY <1>6, <2>1 DEF ProbeFault
  <2>9. cached' = [cached EXCEPT ![On(s)][d] = {}] /\ UNCHANGED lastGood
    BY <1>9 DEF TomlNotFetched
  <2>10. {} \in SUBSET TomlEntry /\ AtMostOne({}) /\ \A e \in {} : DocOK(e.doc, keysSeen[d])
    BY DEF AtMostOne
  <2> HIDE DEF Leaves
  <2> QED BY <1>2, <1>4, <1>5, <2>7, <2>8, <2>9, <2>10, CacheSet
<1>10. Leaves /\ probeFaults' \in 0..MaxProbeFaults /\ Remembers
  <2> HIDE DEF Leaves, Remembers
  <2> QED BY <1>3, <1>7, <1>8, <1>9
<1> QED BY <1>1, <1>2, <1>3, <1>10 DEF s, d, k

-----------------------------------------------------------------------------
(* Every step keeps what is remembered and what is recorded. *)

\* More keys served, or a later day, takes nothing back.
LEMMA SeenGrows ==
    ASSUME NEW known \in [Domain -> SUBSET SigningKey], NEW more \in [Domain -> SUBSET SigningKey],
           \A d \in Domain : known[d] \subseteq more[d]
    PROVE  /\ \A d \in Domain : \A doc : DocOK(doc, known[d]) => DocOK(doc, more[d])
           /\ \A c, g : MemoryOK(c, g, known) => MemoryOK(c, g, more)
           /\ \A r, t : RowOK(r, known, t) => RowOK(r, more, t)
<1>1. \A d \in Domain : \A doc : DocOK(doc, known[d]) => DocOK(doc, more[d])
  BY DEF DocOK
<1>2. ASSUME NEW c, NEW g, MemoryOK(c, g, known) PROVE MemoryOK(c, g, more)
  <2>1. \A i \in Instance : \A d \in Domain :
          /\ AtMostOne(c[i][d]) /\ \A e \in c[i][d] : DocOK(e.doc, more[d])
          /\ g[i][d] \subseteq more[d]
    BY <1>1, <1>2 DEF MemoryOK
  <2> QED BY <1>2, <2>1 DEF MemoryOK
<1>3. ASSUME NEW r, NEW t, RowOK(r, known, t) PROVE RowOK(r, more, t)
  <2>1. r \in Row /\ r.domain \in Domain /\ r.day <= t
    BY <1>3 DEF RowOK, Row
  <2>2. r.doc.key \subseteq known[r.domain] /\ known[r.domain] \subseteq more[r.domain]
    BY <1>3, <2>1 DEF RowOK
  <2>3. known[r.domain] # r.doc.key => more[r.domain] # r.doc.key
    BY <2>2
  <2>4. FoundedOn(r.kind, r.doc, r.answer, r.failure, more[r.domain])
    BY <1>3, <2>3 DEF RowOK, FoundedOn
  <2>5. r.reachable <=> r.failure = "none"
    BY <1>3 DEF RowOK
  <2>6. r.doc.key \subseteq more[r.domain]
    BY <2>2
  <2> QED BY <2>1, <2>4, <2>5, <2>6 DEF RowOK
<1> QED BY <1>1, <1>2, <1>3

\* A sweep as it begins, as a row of it is counted, and as it ends.
Begun(x, o, b, f) == [x EXCEPT !.pc = "running", !.on = o, !.began = b, !.found = f]
WithPersisted(x, n) == [x EXCEPT !.persisted = n]
WithFailed(x, n) == [x EXCEPT !.failed = n]
Ended(x, p) == [x EXCEPT !.pc = p]

\* Sweep y is a state that has these fields.
HasFields(y, p, on, found, persisted, failed) ==
    /\ y \in SweepState /\ y.pc = p /\ y.on = on /\ y.found = found
    /\ y.persisted = persisted /\ y.failed = failed

\* The fields of a sweep that change together.
LEMMA SweepFields ==
    ASSUME NEW x \in SweepState
    PROVE  /\ x.persisted \in Nat /\ x.failed \in Nat
           /\ \A p \in {"ok", "error", "conflict", "dead"} :
                 HasFields(Ended(x, p), p, x.on, x.found, x.persisted, x.failed)
           /\ \A n \in Nat : /\ HasFields(WithPersisted(x, n), x.pc, x.on, x.found, n, x.failed)
                             /\ HasFields(WithFailed(x, n), x.pc, x.on, x.found, x.persisted, n)
           /\ \A o \in SUBSET Instance : \A b \in 0..MaxDay :
              \A f \in [Domain -> SUBSET Document] :
                 HasFields(Begun(x, o, b, f), "running", o, f, x.persisted, x.failed)
<1>1. x.persisted \in Nat /\ x.failed \in Nat /\ x.began \in 0..MaxDay
  BY DEF SweepState
<1>2. ASSUME NEW p \in {"ok", "error", "conflict", "dead"}
      PROVE  HasFields(Ended(x, p), p, x.on, x.found, x.persisted, x.failed)
  BY DEF HasFields, Ended, SweepState
<1>3. ASSUME NEW n \in Nat
      PROVE  HasFields(WithPersisted(x, n), x.pc, x.on, x.found, n, x.failed)
  BY DEF HasFields, WithPersisted, SweepState
<1>4. ASSUME NEW n \in Nat
      PROVE  HasFields(WithFailed(x, n), x.pc, x.on, x.found, x.persisted, n)
  BY DEF HasFields, WithFailed, SweepState
<1>5. ASSUME NEW o \in SUBSET Instance, NEW b \in 0..MaxDay,
             NEW f \in [Domain -> SUBSET Document]
      PROVE  HasFields(Begun(x, o, b, f), "running", o, f, x.persisted, x.failed)
  <2> DEFINE y == Begun(x, o, b, f)
  <2>0. y = [x EXCEPT !.pc = "running", !.on = o, !.began = b, !.found = f]
    BY DEF Begun
  <2> HIDE DEF y
  <2>1. y = [pc |-> "running", on |-> o, found |-> f, began |-> b,
             persisted |-> x.persisted, failed |-> x.failed]
    BY <2>0 DEF SweepState
  <2>2. HasFields(y, "running", o, f, x.persisted, x.failed)
    BY <1>1, <2>1 DEF HasFields, SweepState
  <2> QED BY <2>2 DEF y
<1> QED BY <1>1, <1>2, <1>3, <1>4, <1>5

\* The sweep s becomes y.
SweepBecomes(s, y) ==
    /\ sweeps' \in [Sweep -> SweepState]
    /\ sweeps'[s] = y
    /\ \A j \in Sweep : j # s => sweeps'[j] = sweeps[j]

\* A sweep is changed on its own.
LEMMA OneSweep ==
    ASSUME ProbeInv, NEW s \in Sweep, NEW y \in SweepState, sweeps' = [sweeps EXCEPT ![s] = y]
    PROVE  SweepBecomes(s, y)
BY DEF SweepBecomes, ProbeInv

\* The sets that the counts are about are finite.
LEMMA FiniteParts ==
    ASSUME NEW s
    PROVE  /\ IsFiniteSet(Domain \X ProbedKind) /\ Cardinality(Domain \X ProbedKind) \in Nat
           /\ Cardinality(Domain \X ProbedKind) > 0
           /\ \A d : IsFiniteSet(Left(d, s)) /\ Cardinality(Left(d, s)) \in Nat
           /\ \A rows : IsFiniteSet(rows) => /\ IsFiniteSet(RowsOf(rows, s))
                                             /\ Cardinality(RowsOf(rows, s)) \in Nat
<1>1. IsFiniteSet(ProbedKind)
  <2>1. IsFiniteSet({"uptime"})
    BY FS_Singleton
  <2>2. IsFiniteSet({"uptime"} \cup {"toml-integrity"})
    BY <2>1, FS_AddElement
  <2>3. IsFiniteSet({"uptime"} \cup {"toml-integrity"} \cup {"issuer-mismatch"})
    BY <2>2, FS_AddElement
  <2>4. IsFiniteSet({"uptime"} \cup {"toml-integrity"} \cup {"issuer-mismatch"} \cup {"quote"})
    BY <2>3, FS_AddElement
  <2>5. IsFiniteSet({"uptime"} \cup {"toml-integrity"} \cup {"issuer-mismatch"} \cup {"quote"}
                    \cup {"sep31-info"})
    BY <2>4, FS_AddElement
  <2>6. IsFiniteSet({"uptime"} \cup {"toml-integrity"} \cup {"issuer-mismatch"} \cup {"quote"}
                    \cup {"sep31-info"} \cup {"deposit"})
    BY <2>5, FS_AddElement
  <2>7. ProbeKind = {"uptime"} \cup {"toml-integrity"} \cup {"issuer-mismatch"} \cup {"quote"}
                    \cup {"sep31-info"} \cup {"deposit"}
    BY DEF ProbeKind
  <2>8. IsFiniteSet(ProbeKind)
    BY <2>6, <2>7
  <2> QED BY <2>8, FS_Subset, ProbesAssumed DEF ProbeAssumption
<1>2. IsFiniteSet(Domain \X ProbedKind)
  BY <1>1, FS_Product, ProbesAssumed DEF ProbeAssumption
<1>3. Domain \X ProbedKind # {}
  <2>1. Domain # {} /\ ProbedKind # {}
    BY ProbesAssumed DEF ProbeAssumption
  <2>2. PICK d \in Domain, k \in ProbedKind : TRUE
    BY <2>1
  <2>3. <<d, k>> \in Domain \X ProbedKind
    OBVIOUS
  <2> QED BY <2>3
<1>4. Cardinality(Domain \X ProbedKind) \in Nat /\ Cardinality(Domain \X ProbedKind) # 0
  BY <1>2, <1>3, FS_CardinalityType, FS_EmptySet
<1>5. ASSUME NEW d PROVE IsFiniteSet(Left(d, s)) /\ Cardinality(Left(d, s)) \in Nat
  <2>1. Left(d, s) \in SUBSET (Domain \X ProbedKind)
    BY DEF Left
  <2> QED BY <1>2, <2>1, FS_Subset, FS_CardinalityType
<1>6. ASSUME NEW rows, IsFiniteSet(rows)
      PROVE  IsFiniteSet(RowsOf(rows, s)) /\ Cardinality(RowsOf(rows, s)) \in Nat
  <2>1. RowsOf(rows, s) \in SUBSET rows
    BY DEF RowsOf
  <2> QED BY <1>6, <2>1, FS_Subset, FS_CardinalityType
<1> QED BY <1>2, <1>4, <1>5, <1>6

\* A row that comes is among its own sweep's.
LEMMA RowComes ==
    ASSUME NEW s, NEW rows, NEW r
    PROVE  RowsOf(rows \cup {r}, s)
           = IF r.sweep = s THEN RowsOf(rows, s) \cup {r} ELSE RowsOf(rows, s)
BY DEF RowsOf

\* A row that goes is gone from its own sweep's.
LEMMA RowGoes ==
    ASSUME NEW s, NEW rows, NEW r
    PROVE  RowsOf(rows \ {r}, s)
           = IF r.sweep = s THEN RowsOf(rows, s) \ {r} ELSE RowsOf(rows, s)
BY DEF RowsOf

\* A probe that has returned is no longer due in its own sweep.
LEMMA ProbeGoes ==
    ASSUME NEW s, NEW d, NEW p \in Sweep \X Domain \X ProbedKind
    PROVE  Left(d \ {p}, s) = IF p[1] = s THEN Left(d, s) \ {<<p[2], p[3]>>} ELSE Left(d, s)
<1>1. p = <<p[1], p[2], p[3]>>
  OBVIOUS
<1>2. \A q \in Domain \X ProbedKind :
        /\ <<s, q[1], q[2]>> = p <=> (p[1] = s /\ q = <<p[2], p[3]>>)
  BY <1>1
<1> QED BY <1>2 DEF Left

\* A sweep begins with all its probes due, none of them recorded.
LEMMA PostKeeps ==
    ASSUME ProbeInv, CountInv, NEW s \in Sweep, NEW i \in Instance, Post(s, i)
    PROVE  ProbeInv' /\ CountInv'
<1>1. /\ sweeps[s].pc = "new" /\ sweeps[s] \in SweepState
      /\ UNCHANGED <<day, probeFaults, served, keysSeen, cached, lastGood, writing, ledger>>
  BY DEF Post, world, memory, ProbeInv
<1>2. CountOK(sweeps[s], s, due, writing, ledger)
  BY DEF CountInv
<1>3. CASE locked
  <2> DEFINE y == Ended(sweeps[s], "conflict")
  <2>1. sweeps' = [sweeps EXCEPT ![s] = y] /\ UNCHANGED <<locked, due>>
    BY <1>3 DEF Post, Ended
  <2>2. /\ y \in SweepState /\ y.pc = "conflict" /\ y.on = sweeps[s].on
        /\ y.found = sweeps[s].found
        /\ y.persisted = sweeps[s].persisted /\ y.failed = sweeps[s].failed
    BY <1>1, SweepFields DEF HasFields
  <2> HIDE DEF y
  <2>3. SweepBecomes(s, y)
    BY <2>1, <2>2, OneSweep
  <2>4. \A j \in Sweep : sweeps'[j].on = sweeps[j].on /\ sweeps'[j].found = sweeps[j].found
    BY <2>2, <2>3 DEF SweepBecomes
  <2>5. ProbeInv'
    <3>1. \A p \in due : p[1] \in Sweep
      BY DEF ProbeInv
    <3> QED BY <1>1, <2>1, <2>3, <2>4, <3>1 DEF ProbeInv, SweepBecomes
  <2>6. CountOK(y, s, due, writing, ledger)
    BY <1>1, <1>2, <2>2 DEF CountOK
  <2>7. CountInv'
    BY <1>1, <2>1, <2>3, <2>6 DEF CountInv, SweepBecomes
  <2> QED BY <2>5, <2>7
<1>4. CASE ~locked
  <2> DEFINE f == [d \in Domain |-> {e.doc : e \in cached[i][d]}]
  <2>1. /\ locked' = TRUE
        /\ sweeps' = [sweeps EXCEPT ![s] = Begun(sweeps[s], {i}, day, f)]
        /\ due' = due \cup ({s} \X Domain \X ProbedKind)
    BY <1>4 DEF Post, Begun
  <2>2. \A d \in Domain : \A e \in cached[i][d] : e \in TomlEntry /\ DocOK(e.doc, keysSeen[d])
    BY DEF ProbeInv, MemoryOK
  <2>3. f \in [Domain -> SUBSET Document]
    BY <2>2 DEF DocOK
  <2>4. \A d \in Domain : \A doc \in f[d] : DocOK(doc, keysSeen[d])
    BY <2>2
  <2> HIDE DEF f
  <2>5. day \in 0..MaxDay
    BY DEF ProbeInv
  <2> DEFINE y == Begun(sweeps[s], {i}, day, f)
  <2>6. /\ sweeps' = [sweeps EXCEPT ![s] = y]
        /\ y \in SweepState /\ y.pc = "running" /\ y.on = {i} /\ y.found = f
        /\ y.persisted = sweeps[s].persisted /\ y.failed = sweeps[s].failed
    <3>1. {i} \in SUBSET Instance
      OBVIOUS
    <3>2. HasFields(y, "running", {i}, f, sweeps[s].persisted, sweeps[s].failed)
      BY <1>1, <2>3, <2>5, <3>1, SweepFields
    <3> QED BY <2>1, <3>2 DEF HasFields
  <2> HIDE DEF y
  <2>7. SweepBecomes(s, y)
    BY <2>6, OneSweep
  <2>8. RowsOf(writing, s) = {} /\ RowsOf(ledger, s) = {} /\ Left(due, s) = {}
        /\ sweeps[s].failed = 0 /\ sweeps[s].persisted = 0
    BY <1>1, <1>2 DEF CountOK
  <2>9. ProbeInv'
    <3>1. \A r \in writing \cup ledger : r.sweep # s
      BY <2>8 DEF RowsOf
    <3>2. \A r \in writing \cup ledger : <<r.sweep, r.domain, r.kind>> \notin due'
      BY <2>1, <3>1 DEF ProbeInv
    <3>3. due' \subseteq Sweep \X Domain \X ProbedKind
      BY <2>1 DEF ProbeInv
    <3>4. \A p \in due' : sweeps'[p[1]].on # {}
      BY <2>1, <2>6, <2>7 DEF ProbeInv, SweepBecomes
    <3>5. \A j \in Sweep : \A d \in Domain : \A doc \in sweeps'[j].found[d] :
            DocOK(doc, keysSeen[d])
      BY <2>4, <2>6, <2>7 DEF ProbeInv, SweepBecomes
    <3>6. sweeps' \in [Sweep -> SweepState] /\ locked' \in BOOLEAN
      BY <2>1, <2>7 DEF SweepBecomes
    <3> QED BY <1>1, <3>2, <3>3, <3>4, <3>5, <3>6 DEF ProbeInv
  <2>10. Left(due', s) = Domain \X ProbedKind
    BY <2>1 DEF Left
  <2>11. \A j \in Sweep : j # s => Left(due', j) = Left(due, j)
    BY <2>1 DEF Left
  <2>12. CountOK(y, s, due', writing, ledger)
    <3>1. Cardinality(RowsOf(writing, s)) = 0 /\ Cardinality(RowsOf(ledger, s)) = 0
      BY <2>8, FS_EmptySet
    <3>2. Cardinality(Domain \X ProbedKind) \in Nat
      BY FiniteParts
    <3>3. y.persisted = 0 /\ y.failed = 0 /\ y.pc = "running"
      BY <2>6, <2>8
    <3> QED BY <2>10, <3>1, <3>2, <3>3 DEF CountOK
  <2>13. CountInv'
    <3>1. \A j \in Sweep : j # s => CountOK(sweeps[j], j, due', writing, ledger)
      BY <2>11 DEF CountInv, CountOK
    <3> QED BY <1>1, <2>7, <2>12, <3>1 DEF CountInv, SweepBecomes
  <2> QED BY <2>9, <2>13
<1> QED BY <1>3, <1>4

\* A probe that returns turns from a probe that is due into a row that is being written.
LEMMA ProbeKeeps ==
    ASSUME ProbeInv, CountInv, NEW p \in due, Probe(p[1], p[2], p[3])
    PROVE  ProbeInv' /\ CountInv'
<1> DEFINE s == p[1]
           q == <<p[2], p[3]>>
<1>1. /\ p \in Sweep \X Domain \X ProbedKind /\ p = <<p[1], p[2], p[3]>>
      /\ due' = due \ {p}
      /\ probeFaults' \in 0..MaxProbeFaults
      /\ MemoryOK(cached', lastGood', keysSeen)
      /\ UNCHANGED <<day, served, keysSeen, locked, sweeps, ledger>>
  BY ProbeEffect
<1>2. PICK row : /\ RowOK(row, keysSeen, day)
                 /\ row.sweep = p[1] /\ row.domain = p[2] /\ row.kind = p[3]
                 /\ writing' = writing \cup {row}
  BY ProbeEffect
<1>3. <<row.sweep, row.domain, row.kind>> = p
  BY <1>1, <1>2
<1>4. row \notin writing /\ row \notin ledger
  BY <1>3 DEF ProbeInv
<1>5. ProbeInv'
  <2>1. \A r \in writing' \cup ledger :
          RowOK(r, keysSeen, day) /\ <<r.sweep, r.domain, r.kind>> \notin due'
    BY <1>1, <1>2, <1>3 DEF ProbeInv
  <2> QED BY <1>1, <2>1 DEF ProbeInv
<1>6. s \in Sweep /\ q \in Domain \X ProbedKind /\ q \in Left(due, s)
  BY <1>1 DEF Left
<1>a. p \in Sweep \X Domain \X ProbedKind /\ due' = due \ {p}
  BY <1>1
<1>b. row.sweep = s /\ writing' = writing \cup {row}
  BY <1>2
<1>7. CountOK(sweeps[s], s, due, writing, ledger) /\ IsFiniteSet(writing)
  BY <1>6 DEF CountInv
<1>8. sweeps[s].pc = "running"
  BY <1>6, <1>7 DEF CountOK
<1>9. Left(due', s) = Left(due, s) \ {q} /\ RowsOf(writing', s) = RowsOf(writing, s) \cup {row}
  <2>1. Left(due \ {p}, s) = Left(due, s) \ {q}
    BY <1>a, ProbeGoes
  <2>2. RowsOf(writing \cup {row}, s) = RowsOf(writing, s) \cup {row}
    BY <1>b, RowComes
  <2> QED BY <1>a, <1>b, <2>1, <2>2
<1>10. /\ Cardinality(Left(due', s)) = Cardinality(Left(due, s)) - 1
       /\ Cardinality(RowsOf(writing', s)) = Cardinality(RowsOf(writing, s)) + 1
  <2>1. IsFiniteSet(Left(due, s)) /\ IsFiniteSet(RowsOf(writing, s))
    BY <1>7, FiniteParts
  <2>2. row \notin RowsOf(writing, s)
    BY <1>4 DEF RowsOf
  <2>3. Cardinality(Left(due, s) \ {q}) = Cardinality(Left(due, s)) - 1
    <3> HIDE DEF q
    <3> QED BY <1>6, <2>1, FS_RemoveElement
  <2>4. Cardinality(RowsOf(writing, s) \cup {row}) = Cardinality(RowsOf(writing, s)) + 1
    BY <2>1, <2>2, FS_AddElement
  <2> QED BY <1>9, <2>3, <2>4
<1>11. CountOK(sweeps[s], s, due', writing', ledger)
  <2>1. Cardinality(Left(due, s)) \in Nat /\ Cardinality(RowsOf(writing, s)) \in Nat
    BY <1>7, FiniteParts
  <2>2. sweeps[s].persisted \in Nat /\ sweeps[s].failed \in Nat
    <3>1. sweeps[s] \in SweepState
      BY <1>6 DEF ProbeInv
    <3> QED BY <3>1 DEF SweepState
  <2> DEFINE gone == sweeps[s].persisted + sweeps[s].failed
             all == Cardinality(Domain \X ProbedKind)
             rows == Cardinality(RowsOf(writing, s))
             left == Cardinality(Left(due, s))
  <2>3. /\ gone + rows + left = all
        /\ sweeps[s].persisted <= Cardinality(RowsOf(ledger, s))
        /\ Cardinality(RowsOf(ledger, s)) <= gone
    BY <1>7, <1>8 DEF CountOK
  <2>4. gone \in Nat /\ rows \in Nat /\ left \in Nat
    BY <2>1, <2>2
  <2>5. Cardinality(RowsOf(writing', s)) = rows + 1 /\ Cardinality(Left(due', s)) = left - 1
    BY <1>10
  <2>6. gone + Cardinality(RowsOf(writing', s)) + Cardinality(Left(due', s)) = all
    <3> HIDE DEF gone, all, rows, left
    <3>1. gone + (rows + 1) + (left - 1) = all
      BY <2>3, <2>4
    <3> QED BY <2>5, <3>1
  <2> QED BY <1>8, <2>3, <2>6 DEF CountOK
<1>12. ASSUME NEW j \in Sweep, j # s PROVE CountOK(sweeps[j], j, due', writing', ledger')
  <2>1. Left(due', j) = Left(due, j)
    <3>1. Left(due \ {p}, j) = Left(due, j)
      BY <1>a, <1>12, ProbeGoes
    <3> QED BY <1>a, <3>1
  <2>2. RowsOf(writing', j) = RowsOf(writing, j)
    <3>1. RowsOf(writing \cup {row}, j) = RowsOf(writing, j)
      BY <1>b, <1>12, RowComes
    <3> QED BY <1>b, <3>1
  <2>3. CountOK(sweeps[j], j, due, writing, ledger)
    BY DEF CountInv
  <2> QED BY <1>1, <2>1, <2>2, <2>3 DEF CountOK
<1>13. CountInv'
  <2>1. IsFiniteSet(writing')
    BY <1>2, <1>7, FS_AddElement
  <2>2. writing' \cap ledger = {}
    BY <1>2, <1>4 DEF CountInv
  <2> QED BY <1>1, <1>6, <1>11, <1>12, <2>1, <2>2 DEF CountInv
<1> QED BY <1>5, <1>13

\* A row that is being written is counted, as written or as lost.
LEMMA WrittenKeeps ==
    ASSUME ProbeInv, CountInv, NEW row \in writing, Written(row)
    PROVE  ProbeInv' /\ CountInv'
<1> DEFINE s == row.sweep
<1>1. /\ writing' = writing \ {row}
      /\ UNCHANGED <<day, served, keysSeen, cached, lastGood, locked, due>>
      /\ RowOK(row, keysSeen, day) /\ row \notin ledger
  BY DEF Written, world, memory, ProbeInv, CountInv
<1>a. probeFaults' \in 0..MaxProbeFaults
  BY ProbesAssumed DEF Written, ProbeFault, ProbeInv, ProbeAssumption
<1>2. s \in Sweep
  BY <1>1 DEF RowOK, Row
<1>3. /\ sweeps[s] \in SweepState /\ sweeps \in [Sweep -> SweepState]
      /\ CountOK(sweeps[s], s, due, writing, ledger) /\ IsFiniteSet(writing) /\ IsFiniteSet(ledger)
  BY <1>2 DEF ProbeInv, CountInv
<1>4. row \in RowsOf(writing, s)
  BY DEF RowsOf
<1>5. sweeps[s].pc = "running"
  BY <1>3, <1>4 DEF CountOK
<1>6. PICK y \in SweepState :
        /\ sweeps' = [sweeps EXCEPT ![s] = y]
        /\ y.pc = "running" /\ y.on = sweeps[s].on /\ y.found = sweeps[s].found
        /\ \/ /\ ledger' = ledger \cup {row}
              /\ y.persisted = sweeps[s].persisted + 1 /\ y.failed = sweeps[s].failed
           \/ /\ ledger' \in {ledger, ledger \cup {row}}
              /\ y.persisted = sweeps[s].persisted /\ y.failed = sweeps[s].failed + 1
  <2>1. CASE /\ ledger' = ledger \cup {row}
             /\ sweeps' = [sweeps EXCEPT ![s].persisted = @ + 1]
    <3> DEFINE y == WithPersisted(sweeps[s], sweeps[s].persisted + 1)
    <3>1. sweeps' = [sweeps EXCEPT ![s] = y]
      BY <1>2, <1>3, <2>1 DEF WithPersisted
    <3>2. /\ y \in SweepState /\ y.pc = sweeps[s].pc /\ y.on = sweeps[s].on
          /\ y.found = sweeps[s].found
          /\ y.persisted = sweeps[s].persisted + 1 /\ y.failed = sweeps[s].failed
      <4> HIDE DEF s
      <4> QED BY <1>3, SweepFields DEF HasFields
    <3> HIDE DEF y
    <3> QED BY <1>5, <2>1, <3>1, <3>2
  <2>2. CASE /\ ledger' \in {ledger, ledger \cup {row}}
             /\ sweeps' = [sweeps EXCEPT ![s].failed = @ + 1]
    <3> DEFINE y == WithFailed(sweeps[s], sweeps[s].failed + 1)
    <3>1. sweeps' = [sweeps EXCEPT ![s] = y]
      BY <1>2, <1>3, <2>2 DEF WithFailed
    <3>2. /\ y \in SweepState /\ y.pc = sweeps[s].pc /\ y.on = sweeps[s].on
          /\ y.found = sweeps[s].found
          /\ y.persisted = sweeps[s].persisted /\ y.failed = sweeps[s].failed + 1
      <4> HIDE DEF s
      <4> QED BY <1>3, SweepFields DEF HasFields
    <3> HIDE DEF y
    <3> QED BY <1>5, <2>2, <3>1, <3>2
  <2> QED BY <2>1, <2>2 DEF Written
<1>7. SweepBecomes(s, y)
  BY <1>2, <1>6, OneSweep
<1>8. ledger' \subseteq ledger \cup {row}
  BY <1>6
<1>9. ProbeInv'
  <2>1. \A r \in writing' \cup ledger' :
          RowOK(r, keysSeen, day) /\ <<r.sweep, r.domain, r.kind>> \notin due
    BY <1>1, <1>8 DEF ProbeInv
  <2>2. \A j \in Sweep : sweeps'[j].on = sweeps[j].on /\ sweeps'[j].found = sweeps[j].found
    BY <1>6, <1>7 DEF SweepBecomes
  <2>3. \A p \in due : p[1] \in Sweep
    BY DEF ProbeInv
  <2> QED BY <1>1, <1>a, <1>7, <2>1, <2>2, <2>3 DEF ProbeInv, SweepBecomes
<1>10. /\ RowsOf(writing', s) = RowsOf(writing, s) \ {row}
       /\ RowsOf(ledger \cup {row}, s) = RowsOf(ledger, s) \cup {row}
  <2>1. RowsOf(writing \ {row}, s) = RowsOf(writing, s) \ {row}
    BY RowGoes
  <2>2. RowsOf(ledger \cup {row}, s) = RowsOf(ledger, s) \cup {row}
    BY RowComes
  <2> QED BY <1>1, <2>1, <2>2
<1>11. /\ Cardinality(RowsOf(writing', s)) = Cardinality(RowsOf(writing, s)) - 1
       /\ Cardinality(RowsOf(ledger \cup {row}, s)) = Cardinality(RowsOf(ledger, s)) + 1
  <2>1. IsFiniteSet(RowsOf(writing, s)) /\ IsFiniteSet(RowsOf(ledger, s))
    BY <1>3, FiniteParts
  <2>2. row \notin RowsOf(ledger, s)
    BY <1>1 DEF RowsOf
  <2> HIDE DEF s
  <2>3. Cardinality(RowsOf(writing, s) \ {row}) = Cardinality(RowsOf(writing, s)) - 1
    BY <1>4, <2>1, FS_RemoveElement
  <2>4. Cardinality(RowsOf(ledger, s) \cup {row}) = Cardinality(RowsOf(ledger, s)) + 1
    BY <2>1, <2>2, FS_AddElement
  <2> QED BY <1>10, <2>3, <2>4
<1>12. CountOK(y, s, due, writing', ledger')
  <2>1. /\ Cardinality(Left(due, s)) \in Nat /\ Cardinality(RowsOf(writing, s)) \in Nat
        /\ Cardinality(RowsOf(ledger, s)) \in Nat
    BY <1>3, FiniteParts
  <2>2. sweeps[s].persisted \in Nat /\ sweeps[s].failed \in Nat
    BY <1>3 DEF SweepState
  <2> HIDE DEF s
  <2>a. /\ sweeps[s].persisted <= Cardinality(RowsOf(ledger, s))
        /\ Cardinality(RowsOf(ledger, s)) <= sweeps[s].persisted + sweeps[s].failed
    BY <1>3 DEF CountOK
  <2>3. /\ y.persisted <= Cardinality(RowsOf(ledger', s))
        /\ Cardinality(RowsOf(ledger', s)) <= y.persisted + y.failed
    <3> DEFINE P == sweeps[s].persisted
               F == sweeps[s].failed
               n == Cardinality(RowsOf(ledger, s))
               m == Cardinality(RowsOf(ledger', s))
    <3>1. \/ m = n + 1 /\ y.persisted = P + 1 /\ y.failed = F
          \/ m \in {n, n + 1} /\ y.persisted = P /\ y.failed = F + 1
      BY <1>6, <1>11
    <3>2. P \in Nat /\ F \in Nat /\ n \in Nat /\ P <= n /\ n <= P + F
      BY <2>1, <2>2, <2>a
    <3> HIDE DEF P, F, n, m
    <3>3. y.persisted <= m /\ m <= y.persisted + y.failed
      BY <3>1, <3>2
    <3> QED BY <3>3 DEF m
  <2>4. y.persisted + y.failed = sweeps[s].persisted + sweeps[s].failed + 1
    BY <1>6, <2>2
  <2>5. y.persisted \in Nat /\ y.failed \in Nat
    BY <1>6, <2>2
  <2> QED BY <1>3, <1>5, <1>6, <1>11, <2>1, <2>2, <2>3, <2>4, <2>5 DEF CountOK
<1>13. ASSUME NEW j \in Sweep, j # s PROVE CountOK(sweeps[j], j, due, writing', ledger')
  <2>1. RowsOf(writing', j) = RowsOf(writing, j)
    <3>1. RowsOf(writing \ {row}, j) = RowsOf(writing, j)
      BY <1>13, RowGoes
    <3> QED BY <1>1, <3>1
  <2>2. RowsOf(ledger', j) = RowsOf(ledger, j)
    <3>1. RowsOf(ledger \cup {row}, j) = RowsOf(ledger, j)
      BY <1>13, RowComes
    <3> QED BY <1>6, <3>1
  <2>3. CountOK(sweeps[j], j, due, writing, ledger)
    BY DEF CountInv
  <2> QED BY <2>1, <2>2, <2>3 DEF CountOK
<1>14. CountInv'
  <2>1. IsFiniteSet(writing') /\ IsFiniteSet(ledger')
    BY <1>1, <1>3, <1>6, FS_AddElement, FS_RemoveElement
  <2>2. writing' \cap ledger' = {}
    BY <1>1, <1>8 DEF CountInv
  <2> QED BY <1>1, <1>2, <1>7, <1>12, <1>13, <2>1, <2>2 DEF CountInv, SweepBecomes
<1> QED BY <1>9, <1>14

\* A reply comes when nothing is due or being written, so all probes are counted.
LEMMA ReplyKeeps ==
    ASSUME ProbeInv, CountInv, NEW s \in Sweep, Reply(s)
    PROVE  ProbeInv' /\ CountInv'
<1>1. /\ sweeps[s].pc = "running" /\ sweeps[s] \in SweepState /\ locked' = FALSE
      /\ UNCHANGED <<day, probeFaults, served, keysSeen, cached, lastGood, due, writing, ledger>>
      /\ CountOK(sweeps[s], s, due, writing, ledger)
  BY DEF Reply, world, ProbeInv, CountInv
<1> DEFINE failed == sweeps[s].persisted = 0 /\ sweeps[s].failed > 0
           p == IF failed THEN "error" ELSE "ok"
<1>3. p \in {"ok", "error", "conflict", "dead"} /\ p \in {"ok", "error"} /\ (p = "ok" <=> ~failed)
  OBVIOUS
<1> DEFINE y == Ended(sweeps[s], p)
<1>2. sweeps' = [sweeps EXCEPT ![s] = y]
  BY DEF Reply, ProbeInv, Ended
<1> HIDE DEF p
<1>4. /\ y \in SweepState /\ y.pc = p /\ y.on = sweeps[s].on /\ y.found = sweeps[s].found
      /\ y.persisted = sweeps[s].persisted /\ y.failed = sweeps[s].failed
  BY <1>1, <1>3, SweepFields DEF HasFields
<1> HIDE DEF y
<1>5. SweepBecomes(s, y)
  BY <1>2, <1>4, OneSweep
<1>6. ProbeInv'
  <2>1. \A j \in Sweep : sweeps'[j].on = sweeps[j].on /\ sweeps'[j].found = sweeps[j].found
    BY <1>4, <1>5 DEF SweepBecomes
  <2>2. \A e \in due : e[1] \in Sweep
    BY DEF ProbeInv
  <2> QED BY <1>1, <1>5, <2>1, <2>2 DEF ProbeInv, SweepBecomes
<1>7. Left(due, s) = {} /\ RowsOf(writing, s) = {}
  BY DEF Reply, Drained, Left, RowsOf
<1>8. CountOK(y, s, due, writing, ledger)
  <2>1. Cardinality(Left(due, s)) = 0 /\ Cardinality(RowsOf(writing, s)) = 0
    BY <1>7, FS_EmptySet
  <2>2. Cardinality(Domain \X ProbedKind) \in Nat /\ Cardinality(Domain \X ProbedKind) > 0
    BY FiniteParts
  <2>3. sweeps[s].persisted \in Nat /\ sweeps[s].failed \in Nat
    BY <1>1 DEF SweepState
  <2>4. y.persisted + y.failed = Cardinality(Domain \X ProbedKind)
    BY <1>1, <1>4, <2>1, <2>3 DEF CountOK
  <2>5. y.pc = "ok" <=> y.persisted > 0
    BY <1>3, <1>4, <2>2, <2>3, <2>4
  <2> QED BY <1>1, <1>3, <1>4, <1>7, <2>4, <2>5 DEF CountOK
<1>9. CountInv'
  BY <1>1, <1>5, <1>8 DEF CountInv, SweepBecomes
<1> QED BY <1>6, <1>9

\* The counts do not change when sweeps, probes and rows do not.
LEMMA CountsStay ==
    ASSUME CountInv, UNCHANGED <<sweeps, due, writing, ledger>>
    PROVE  CountInv'
BY DEF CountInv

\* What an instance takes with it when it dies is its memory, and of its sweeps what they
\* had not counted.
LEMMA DiesKeeps ==
    ASSUME ProbeInv, CountInv, NEW i \in Instance, InstanceDies(i)
    PROVE  ProbeInv' /\ CountInv'
<1> DEFINE lost == {s \in Sweep : sweeps[s].pc = "running" /\ i \in sweeps[s].on}
<1>1. /\ sweeps' = [s \in Sweep |-> IF s \in lost THEN Ended(sweeps[s], "dead") ELSE sweeps[s]]
      /\ due' = {p \in due : p[1] \notin lost}
      /\ writing' = {row \in writing : row.sweep \notin lost}
      /\ cached' = [cached EXCEPT ![i] = [d \in Domain |-> {}]]
      /\ lastGood' = [lastGood EXCEPT ![i] = [d \in Domain |-> {}]]
      /\ ProbeFault
      /\ UNCHANGED <<day, served, keysSeen, locked, ledger>>
  BY DEF InstanceDies, world, Ended
<1>2. \A s \in Sweep : sweeps[s] \in SweepState
  BY DEF ProbeInv
<1>3. \A s \in lost : HasFields(sweeps'[s], "dead", sweeps[s].on, sweeps[s].found,
                                sweeps[s].persisted, sweeps[s].failed)
  BY <1>1, <1>2, SweepFields
<1>4. \A s \in Sweep \ lost : sweeps'[s] = sweeps[s]
  BY <1>1
<1>5. lost \subseteq Sweep /\ \A s \in lost : sweeps[s].pc = "running"
  OBVIOUS
<1> HIDE DEF lost
<1>6. /\ \A s \in Sweep : /\ sweeps'[s] \in SweepState /\ sweeps'[s].on = sweeps[s].on
                          /\ sweeps'[s].found = sweeps[s].found
                          /\ sweeps'[s].persisted = sweeps[s].persisted
                          /\ sweeps'[s].failed = sweeps[s].failed
                          /\ s \in lost => sweeps'[s].pc = "dead"
      /\ sweeps' \in [Sweep -> SweepState]
  <2>1. ASSUME NEW s \in Sweep
        PROVE  /\ sweeps'[s] \in SweepState /\ sweeps'[s].on = sweeps[s].on
               /\ sweeps'[s].found = sweeps[s].found
               /\ sweeps'[s].persisted = sweeps[s].persisted
               /\ sweeps'[s].failed = sweeps[s].failed
               /\ s \in lost => sweeps'[s].pc = "dead"
    BY <1>2, <1>3, <1>4 DEF HasFields
  <2> QED BY <1>1, <2>1
<1>7. probeFaults' \in 0..MaxProbeFaults
  BY <1>1, ProbesAssumed DEF ProbeFault, ProbeInv, ProbeAssumption
<1>8. MemoryOK(cached', lastGood', keysSeen)
  <2>1. /\ cached \in [Instance -> [Domain -> SUBSET TomlEntry]]
        /\ lastGood \in [Instance -> [Domain -> SUBSET SigningKey]]
    BY DEF ProbeInv, MemoryOK
  <2>2. /\ [d \in Domain |-> {}] \in [Domain -> SUBSET TomlEntry]
        /\ [d \in Domain |-> {}] \in [Domain -> SUBSET SigningKey]
    OBVIOUS
  <2>3. /\ cached' \in [Instance -> [Domain -> SUBSET TomlEntry]]
        /\ lastGood' \in [Instance -> [Domain -> SUBSET SigningKey]]
    BY <1>1, <2>1, <2>2
  <2>4. ASSUME NEW j \in Instance, NEW d \in Domain
        PROVE  /\ AtMostOne(cached'[j][d])
               /\ \A e \in cached'[j][d] : DocOK(e.doc, keysSeen[d])
               /\ lastGood'[j][d] \subseteq keysSeen[d]
    <3>1. CASE j = i
      <4>1. cached'[j][d] = {} /\ lastGood'[j][d] = {}
        BY <1>1, <2>1, <3>1
      <4> QED BY <4>1 DEF AtMostOne
    <3>2. CASE j # i
      <4>1. cached'[j] = cached[j] /\ lastGood'[j] = lastGood[j]
        BY <1>1, <2>1, <3>2
      <4> QED BY <4>1 DEF ProbeInv, MemoryOK
    <3> QED BY <3>1, <3>2
  <2> QED BY <2>3, <2>4 DEF MemoryOK
<1>9. ProbeInv'
  <2>1. \A p \in due : p[1] \in Sweep
    BY DEF ProbeInv
  <2>2. due' \subseteq due /\ writing' \subseteq writing
    BY <1>1
  <2>3. \A r \in writing' \cup ledger :
          RowOK(r, keysSeen, day) /\ <<r.sweep, r.domain, r.kind>> \notin due'
    BY <2>2 DEF ProbeInv
  <2> QED BY <1>1, <1>6, <1>7, <1>8, <2>1, <2>2, <2>3 DEF ProbeInv
<1>10. ASSUME NEW s \in Sweep PROVE CountOK(sweeps'[s], s, due', writing', ledger)
  <2>1. CountOK(sweeps[s], s, due, writing, ledger)
    BY DEF CountInv
  <2>2. CASE s \in lost
    <3>1. Left(due', s) = {} /\ RowsOf(writing', s) = {}
      BY <1>1, <2>2 DEF Left, RowsOf
    <3> QED BY <1>6, <2>1, <2>2, <3>1 DEF CountOK
  <2>3. CASE s \notin lost
    <3>1. Left(due', s) = Left(due, s) /\ RowsOf(writing', s) = RowsOf(writing, s)
      BY <1>1, <2>3 DEF Left, RowsOf
    <3> QED BY <1>4, <2>1, <2>3, <3>1 DEF CountOK
  <2> QED BY <2>2, <2>3
<1>11. CountInv'
  <2>1. IsFiniteSet(writing')
    <3>1. writing' \in SUBSET writing
      BY <1>1
    <3> QED BY <3>1, FS_Subset DEF CountInv
  <2> QED BY <1>1, <1>10, <2>1 DEF CountInv
<1> QED BY <1>9, <1>11

\* What an instance still remembers the next day it remembered before.
LEMMA NextDayKeeps ==
    ASSUME ProbeInv, CountInv, NextDay
    PROVE  ProbeInv' /\ CountInv'
<1>1. /\ day \in Nat /\ day' = day + 1 /\ day' \in 1..MaxDay
      /\ cached' = [i \in Instance |-> [d \in Domain |-> {e \in cached[i][d] : e.day = day}]]
      /\ UNCHANGED <<probeFaults, served, keysSeen, lastGood, locked, sweeps, due, writing, ledger>>
  BY ProbesAssumed DEF NextDay, world, ProbeInv, ProbeAssumption
<1>2. /\ cached \in [Instance -> [Domain -> SUBSET TomlEntry]]
      /\ \A i \in Instance : \A d \in Domain : cached'[i][d] \subseteq cached[i][d]
  BY <1>1 DEF ProbeInv, MemoryOK
<1>3. cached' \in [Instance -> [Domain -> SUBSET TomlEntry]]
  <2>1. \A i \in Instance : [d \in Domain |-> {e \in cached[i][d] : e.day = day}]
                            \in [Domain -> SUBSET TomlEntry]
    BY <1>2
  <2> QED BY <1>1, <2>1
<1>4. MemoryOK(cached', lastGood, keysSeen)
  BY <1>2, <1>3 DEF ProbeInv, MemoryOK, AtMostOne
<1>5. \A r \in writing \cup ledger : RowOK(r, keysSeen, day')
  <2>1. \A r \in Row : r.day \in Nat
    BY ProbesAssumed DEF Row, ProbeAssumption
  <2>2. ASSUME NEW r \in writing \cup ledger PROVE RowOK(r, keysSeen, day')
    <3>1. RowOK(r, keysSeen, day)
      BY DEF ProbeInv
    <3> QED BY <1>1, <2>1, <3>1 DEF RowOK
  <2> QED BY <2>2
<1>6. ProbeInv'
  BY <1>1, <1>4, <1>5 DEF ProbeInv
<1> QED BY <1>1, <1>6, CountsStay

\* What a domain has served it has served, whatever it serves next.
LEMMA ChangeKeeps ==
    ASSUME ProbeInv, CountInv, NEW d \in Domain, Change(d)
    PROVE  ProbeInv' /\ CountInv'
<1>1. PICK new \in Published \cup Failing :
        /\ served' = [served EXCEPT ![d] = new]
        /\ keysSeen' = [keysSeen EXCEPT ![d] = @ \cup (IF new \in Document THEN new.key ELSE {})]
  BY DEF Change
<1>2. /\ ProbeFault
      /\ UNCHANGED <<day, cached, lastGood, locked, sweeps, due, writing, ledger>>
      /\ keysSeen \in [Domain -> SUBSET SigningKey]
      /\ served \in [Domain -> Published \cup Failing]
  BY DEF Change, memory, ProbeInv
<1>3. probeFaults' \in 0..MaxProbeFaults
  BY <1>2, ProbesAssumed DEF ProbeFault, ProbeInv, ProbeAssumption
<1> DEFINE more == IF new \in Document THEN new.key ELSE {}
<1>4. new.key \subseteq more /\ more \subseteq SigningKey
  <2>1. CASE new \in Document
    <3>1. new.key \subseteq SigningKey
      BY <2>1, OneKey
    <3> QED BY <2>1, <3>1
  <2>2. CASE new \notin Document
    <3>1. new \in Failing
      BY <2>2, ProbesAssumed DEF ProbeAssumption
    <3>2. new.key = {}
      BY <3>1 DEF Failing
    <3> QED BY <2>2, <3>2
  <2> QED BY <2>1, <2>2
<1> HIDE DEF more
<1>5. keysSeen' = [keysSeen EXCEPT ![d] = keysSeen[d] \cup more]
  BY <1>1, <1>2 DEF more
<1>6. /\ keysSeen' \in [Domain -> SUBSET SigningKey]
      /\ \A e \in Domain : keysSeen[e] \subseteq keysSeen'[e]
  BY <1>2, <1>4, <1>5
<1>7. /\ served' \in [Domain -> Published \cup Failing]
      /\ \A e \in Domain : served'[e].key \subseteq keysSeen'[e]
  <2>1. \A e \in Domain : served[e].key \subseteq keysSeen'[e]
    BY <1>6 DEF ProbeInv
  <2>2. new.key \subseteq keysSeen'[d]
    BY <1>2, <1>4, <1>5
  <2> QED BY <1>1, <1>2, <2>1, <2>2
<1>8. /\ MemoryOK(cached, lastGood, keysSeen')
      /\ \A r \in writing \cup ledger : RowOK(r, keysSeen', day)
      /\ \A s \in Sweep : \A e \in Domain : \A doc \in sweeps[s].found[e] :
            DocOK(doc, keysSeen'[e])
  BY <1>2, <1>6, SeenGrows DEF ProbeInv
<1>9. ProbeInv'
  BY <1>2, <1>3, <1>6, <1>7, <1>8 DEF ProbeInv
<1> QED BY <1>2, <1>9, CountsStay

\* Every step of the sweeps, the instances and the anchors keeps the invariants.
LEMMA ProbeStep == (ProbeInv /\ CountInv) /\ [ProbeNext]_probeVars => (ProbeInv /\ CountInv)'
<1> SUFFICES ASSUME ProbeInv, CountInv, [ProbeNext]_probeVars PROVE ProbeInv' /\ CountInv'
  OBVIOUS
<1>1. ASSUME NEW s \in Sweep, Reply(s) PROVE ProbeInv' /\ CountInv'
  BY <1>1, ReplyKeeps
<1>2. ASSUME NEW s \in Sweep, NEW i \in Instance, Post(s, i) PROVE ProbeInv' /\ CountInv'
  BY <1>2, PostKeeps
<1>3. ASSUME NEW p \in due, Probe(p[1], p[2], p[3]) PROVE ProbeInv' /\ CountInv'
  BY <1>3, ProbeKeeps
<1>4. ASSUME NEW row \in writing, Written(row) PROVE ProbeInv' /\ CountInv'
  BY <1>4, WrittenKeeps
<1>5. ASSUME NEW i \in Instance, NEW d \in Domain, TomlExpires(i, d)
      PROVE  ProbeInv' /\ CountInv'
  <2>1. /\ cached' = [cached EXCEPT ![i][d] = {}]
        /\ UNCHANGED <<day, probeFaults, served, keysSeen, lastGood, locked, sweeps, due, writing, ledger>>
    BY <1>5 DEF TomlExpires, world
  <2>2. {} \in SUBSET TomlEntry /\ AtMostOne({}) /\ \A e \in {} : DocOK(e.doc, keysSeen[d])
    BY DEF AtMostOne
  <2>3. /\ lastGood \in [Instance -> [Domain -> SUBSET SigningKey]]
        /\ \A j \in Instance : \A e \in Domain : lastGood[j][e] \subseteq keysSeen[e]
    BY DEF ProbeInv, MemoryOK
  <2>4. MemoryOK(cached', lastGood, keysSeen)
    BY <2>1, <2>2, <2>3, CacheSet
  <2>5. ProbeInv'
    BY <2>1, <2>4 DEF ProbeInv
  <2> QED BY <2>1, <2>5, CountsStay
<1>6. ASSUME LockExpires PROVE ProbeInv' /\ CountInv'
  <2>1. /\ locked' = FALSE /\ probeFaults' \in 0..MaxProbeFaults
        /\ UNCHANGED <<day, served, keysSeen, cached, lastGood, sweeps, due, writing, ledger>>
    BY <1>6, ProbesAssumed DEF LockExpires, ProbeFault, world, memory, ProbeInv, ProbeAssumption
  <2>2. ProbeInv'
    BY <2>1 DEF ProbeInv
  <2> QED BY <2>1, <2>2, CountsStay
<1>7. ASSUME UNCHANGED probeVars PROVE ProbeInv' /\ CountInv'
  <2>1. UNCHANGED <<day, probeFaults, served, keysSeen, cached, lastGood, locked, sweeps, due, writing, ledger>>
    BY <1>7 DEF probeVars, world, memory
  <2>2. ProbeInv'
    BY <2>1 DEF ProbeInv
  <2> QED BY <2>1, <2>2, CountsStay
<1> QED BY <1>1, <1>2, <1>3, <1>4, <1>5, <1>6, <1>7, DiesKeeps, NextDayKeeps, ChangeKeeps
       DEF ProbeNext

\* Probes: the invariants hold throughout.
LEMMA ProbeInvariance == ProbeSpec => [](ProbeInv /\ CountInv)
<1>1. ProbeInit => ProbeInv /\ CountInv
  <2> SUFFICES ASSUME ProbeInit PROVE ProbeInv /\ CountInv
    OBVIOUS
  <2>0. locked \in BOOLEAN /\ served \in [Domain -> Published \cup Failing]
    BY DEF ProbeInit
  <2>1. /\ day \in 1..MaxDay /\ probeFaults \in 0..MaxProbeFaults /\ locked \in BOOLEAN
        /\ served \in [Domain -> Published \cup Failing]
        /\ due = {} /\ writing = {} /\ ledger = {} /\ 0 \in 0..MaxDay
    BY <2>0, ProbesAssumed DEF ProbeInit, ProbeAssumption
  <2>2. /\ keysSeen \in [Domain -> SUBSET SigningKey]
        /\ \A d \in Domain : served[d].key \subseteq keysSeen[d]
    <3>1. ASSUME NEW d \in Domain
          PROVE  /\ (IF served[d] \in Document THEN served[d].key ELSE {}) \subseteq SigningKey
                 /\ served[d].key \subseteq IF served[d] \in Document THEN served[d].key ELSE {}
      <4>1. CASE served[d] \in Document
        BY <4>1, OneKey
      <4>2. CASE served[d] \notin Document
        <5>1. served[d] \in Failing
          BY <2>1, <4>2, ProbesAssumed DEF ProbeAssumption
        <5>2. served[d].key = {}
          BY <5>1 DEF Failing
        <5> QED BY <4>2, <5>2
      <4> QED BY <4>1, <4>2
    <3> QED BY <3>1 DEF ProbeInit
  <2>3. MemoryOK(cached, lastGood, keysSeen)
    BY DEF ProbeInit, MemoryOK, AtMostOne
  <2>4. \A s \in Sweep : sweeps[s] = [pc |-> "new", on |-> {}, found |-> [d \in Domain |-> {}],
                                      began |-> 0, persisted |-> 0, failed |-> 0]
    BY DEF ProbeInit
  <2>5. sweeps \in [Sweep -> SweepState]
    <3>1. [pc |-> "new", on |-> {}, found |-> [d \in Domain |-> {}],
           began |-> 0, persisted |-> 0, failed |-> 0] \in SweepState
      BY <2>1 DEF SweepState
    <3> QED BY <3>1 DEF ProbeInit
  <2>6. \A s \in Sweep : \A d \in Domain : sweeps[s].found[d] = {}
    BY <2>4
  <2>7. ProbeInv
    BY <2>1, <2>2, <2>3, <2>5, <2>6 DEF ProbeInv
  <2>8. IsFiniteSet({}) /\ Cardinality({}) = 0
    BY FS_EmptySet
  <2>9. ASSUME NEW s \in Sweep PROVE CountOK(sweeps[s], s, {}, {}, {})
    <3>1. Left({}, s) = {} /\ RowsOf({}, s) = {}
      BY DEF Left, RowsOf
    <3>2. sweeps[s].pc = "new" /\ sweeps[s].persisted = 0 /\ sweeps[s].failed = 0
      BY <2>4
    <3> QED BY <2>8, <3>1, <3>2 DEF CountOK
  <2>10. CountInv
    BY <2>1, <2>8, <2>9 DEF CountInv
  <2> QED BY <2>7, <2>10
<1> QED BY <1>1, ProbeStep, PTL DEF ProbeSpec

\* The variables of the probes keep their types.
THEOREM ProbeTypes == ProbeSpec => []ProbeTypeOK
<1>1. ProbeInv => ProbeTypeOK
  <2> SUFFICES ASSUME ProbeInv PROVE ProbeTypeOK
    OBVIOUS
  <2>1. \A i \in Instance, d \in Domain : Cardinality(cached[i][d]) <= 1
    <3> SUFFICES ASSUME NEW i \in Instance, NEW d \in Domain PROVE Cardinality(cached[i][d]) <= 1
      OBVIOUS
    <3>1. AtMostOne(cached[i][d])
      BY DEF ProbeInv, MemoryOK
    <3>2. cached[i][d] = {} \/ \E e : cached[i][d] = {e}
      BY <3>1 DEF AtMostOne
    <3>3. Cardinality(cached[i][d]) \in {0, 1}
      BY <3>2, FS_EmptySet, FS_Singleton
    <3> QED BY <3>3
  <2>2. cached \in [Instance -> [Domain -> SUBSET [doc : Document, day : 1..MaxDay]]]
    BY DEF ProbeInv, MemoryOK, TomlEntry
  <2>3. lastGood \in [Instance -> [Domain -> SUBSET SigningKey]]
    BY DEF ProbeInv, MemoryOK
  <2>4. writing \subseteq Row /\ ledger \subseteq Row
    BY DEF ProbeInv, RowOK
  <2>5. sweeps \in [Sweep ->
            [pc : {"new", "running", "ok", "error", "conflict", "dead"},
             on : SUBSET Instance, found : [Domain -> SUBSET Document], began : 0..MaxDay,
             persisted : Nat, failed : Nat]]
    BY DEF ProbeInv, SweepState
  <2> QED BY <2>1, <2>2, <2>3, <2>4, <2>5 DEF ProbeInv, ProbeTypeOK
<1> QED BY <1>1, ProbeInvariance, PTL

\* A sweep's answer is true of the ledger: the rows it counts as persisted are there, the
\* others that are were counted as failed, for their answers were lost, and every probe is
\* counted; it reports a failure only if none was confirmed, whatever dies or overlaps
\* (refresh/route.ts; probe.ts).
THEOREM RepliesAlwaysMatchTheLedger == ProbeSpec => []RepliesMatchTheLedger
<1>1. ProbeInv /\ CountInv => RepliesMatchTheLedger
  <2> SUFFICES ASSUME CountInv, NEW s \in Sweep, sweeps[s].pc \in {"ok", "error"}
               PROVE  LET rows == Cardinality({r \in ledger : r.sweep = s}) IN
                      /\ sweeps[s].persisted <= rows
                      /\ rows <= sweeps[s].persisted + sweeps[s].failed
                      /\ sweeps[s].pc = "ok" <=> sweeps[s].persisted > 0
                      /\ sweeps[s].persisted + sweeps[s].failed
                         = Cardinality(Domain \X ProbedKind)
    BY DEF RepliesMatchTheLedger
  <2>1. CountOK(sweeps[s], s, due, writing, ledger)
    BY DEF CountInv
  <2> QED BY <2>1 DEF CountOK, RowsOf
<1> QED BY <1>1, ProbeInvariance, PTL

\* No comparison counts against an anchor that did not say what it is accused of, and an
\* uptime or quote row does only where no document or no quote came back, whatever was
\* cached, failed or ran beside it (probe.ts; health.ts).
THEOREM AccusationsAreAlwaysFounded == ProbeSpec => []AccusationsAreFounded
<1>1. ProbeInv => AccusationsAreFounded
  <2> SUFFICES ASSUME ProbeInv, NEW r \in ledger, ~r.reachable, IsVerdict(r)
               PROVE  CASE r.kind = "issuer-mismatch" ->
                             r.doc \in Document /\ (r.doc.names => r.answer = "no")
                        [] r.kind = "toml-integrity" ->
                             \/ r.doc.state = "unparsable" \/ r.doc.key = {}
                             \/ keysSeen[r.domain] # r.doc.key
                        [] r.kind = "deposit" -> r.answer = "no"
                        [] r.kind = "uptime" -> r.doc \in Failing
                        [] r.kind = "quote" -> r.answer # "yes"
                        [] r.kind = "sep31-info" -> FALSE
    BY DEF AccusationsAreFounded
  <2>1. FoundedOn(r.kind, r.doc, r.answer, r.failure, keysSeen[r.domain])
    BY DEF ProbeInv, RowOK
  <2>2. CASE r.kind = "issuer-mismatch"
    <3>1. r.failure = "mismatch"
      BY <2>2 DEF IsVerdict
    <3> QED BY <2>1, <2>2, <3>1 DEF FoundedOn
  <2>3. CASE r.kind = "toml-integrity"
    <3>1. r.failure = "integrity"
      BY <2>3 DEF IsVerdict
    <3> QED BY <2>1, <2>3, <3>1 DEF FoundedOn
  <2>4. CASE r.kind = "deposit"
    <3>1. r.failure = "disabled"
      BY <2>4 DEF IsVerdict
    <3> QED BY <2>1, <2>4, <3>1 DEF FoundedOn
  <2>5. r.failure # "none" /\ r.kind \in ProbeKind
    BY ProbesAssumed DEF ProbeInv, RowOK, Row, ProbeAssumption
  <2>6. CASE r.kind = "uptime"
    BY <2>1, <2>5, <2>6 DEF FoundedOn
  <2>7. CASE r.kind = "quote"
    BY <2>1, <2>5, <2>7 DEF FoundedOn
  <2>8. CASE r.kind = "sep31-info"
    BY <2>8 DEF IsVerdict
  <2> QED BY <2>2, <2>3, <2>4, <2>5, <2>6, <2>7, <2>8 DEF ProbeKind
<1> QED BY <1>1, ProbeInvariance, PTL

\* The greatest and the least of a set of numbers up to n.
LEMMA Extremes ==
    ASSUME NEW n \in Nat, NEW S, S \subseteq 0..n, S # {}
    PROVE  /\ Max(S) \in S /\ \A j \in S : j <= Max(S)
           /\ Min(S) \in S /\ \A j \in S : Min(S) <= j
<1>1. S \subseteq Nat
  OBVIOUS
<1>2. \E x \in S : \A y \in S : x >= y
  <2>1. PICK x \in S : \A y \in S : y <= x
    BY GreatestExists
  <2> QED BY <1>1, <2>1
<1>3. \E x \in S : \A y \in S : x =< y
  BY <1>1, LeastExists
<1>4. Max(S) \in S /\ \A y \in S : Max(S) >= y
  BY <1>2 DEF Max
<1>5. Min(S) \in S /\ \A y \in S : Min(S) =< y
  BY <1>3 DEF Min
<1> QED BY <1>1, <1>4, <1>5

\* The gate opens for the fleet only if each anchor was probed on every one of the last
\* ReadinessDays days, today among them: however sweeps fail, overlap or straddle midnight
\* (aggregate.ts).
THEOREM GateIsAlwaysEarned == ProbeSpec => []GateIsEarned
<1>1. ProbeInv => GateIsEarned
  <2> SUFFICES ASSUME ProbeInv, FleetThresholdMet
               PROVE  /\ day >= ReadinessDays
                      /\ \A d \in Domain :
                            \A e \in {x \in 1..day : x + ReadinessDays > day} : e \in CoveredDays(d)
    BY DEF GateIsEarned
  <2>1. day \in Nat /\ day >= 1 /\ ReadinessDays \in Nat /\ ReadinessDays >= 1
    BY ProbesAssumed DEF ProbeInv, ProbeAssumption
  <2>2. ASSUME NEW d \in Domain
        PROVE  /\ day >= ReadinessDays
               /\ \A e \in 1..day : e + ReadinessDays > day => e \in CoveredDays(d)
    <3> DEFINE covered == CoveredDays(d)
               missed == {0} \cup {e \in 1..day : e \notin covered}
    <3>1. covered # {} /\ ContinuousDays(d) >= ReadinessDays /\ Gaps(d) = {}
      BY <2>2 DEF FleetThresholdMet, ThresholdMet
    <3>2. covered \subseteq 1..day
      <4>1. ASSUME NEW r \in ledger PROVE r.day \in 1..day
        <5>1. r \in Row /\ r.day <= day
          BY DEF ProbeInv, RowOK
        <5>2. r.day \in 1..MaxDay
          BY <5>1 DEF Row
        <5> QED BY <2>1, <5>1, <5>2, ProbesAssumed DEF ProbeAssumption
      <4> QED BY <4>1 DEF CoveredDays
    <3> HIDE DEF covered
    <3>3. /\ Min(covered) \in covered
          /\ Max({day} \cup covered) \in {day} \cup covered /\ day <= Max({day} \cup covered)
      <4>1. covered \subseteq 0..day /\ {day} \cup covered \subseteq 0..day
            /\ {day} \cup covered # {}
        BY <2>1, <3>2
      <4> QED BY <2>1, <3>1, <4>1, Extremes
    <3>4. Max({day} \cup covered) = day
      <4> DEFINE last == Max({day} \cup covered)
      <4>1. last \in {day} \cup covered /\ day <= last
        BY <3>3
      <4> HIDE DEF last
      <4>2. last = day \/ last \in 1..day
        BY <4>1, <3>2
      <4>3. last = day
        BY <2>1, <4>1, <4>2
      <4> QED BY <4>3 DEF last
    <3>5. day \in covered
      <4>1. day \in Min(covered)..day
        <5> DEFINE first == Min(covered)
        <5>1. first \in 1..day
          BY <3>2, <3>3
        <5> HIDE DEF first
        <5>2. day \in first..day
          BY <2>1, <5>1
        <5> QED BY <5>2 DEF first
      <4>2. {e \in Min(covered)..day : e \notin covered} = {}
        BY <3>1, <3>4 DEF Gaps, covered
      <4> QED BY <4>1, <4>2
    <3>6. ContinuousDays(d) = day - Max(missed)
      BY <3>1, <3>5 DEF ContinuousDays, StreakEndingAt, covered
    <3>7. Max(missed) \in missed /\ \A e \in missed : e <= Max(missed)
      <4>1. missed \subseteq 0..day /\ missed # {}
        BY <2>1
      <4> HIDE DEF missed
      <4> QED BY <2>1, <4>1, Extremes
    <3>8. Max(missed) \in Nat
      <4>1. missed \subseteq Nat
        BY <2>1
      <4> HIDE DEF missed
      <4> QED BY <3>7, <4>1
    <3>9. Max(missed) + ReadinessDays <= day
      BY <2>1, <3>1, <3>6, <3>8
    <3>10. ASSUME NEW e \in 1..day, e + ReadinessDays > day, e \notin covered PROVE FALSE
      <4>1. e \in missed
        BY <3>10
      <4>2. e <= Max(missed)
        BY <3>7, <4>1
      <4> HIDE DEF missed
      <4> QED BY <2>1, <3>8, <3>9, <3>10, <4>2
    <3> HIDE DEF missed
    <3> QED BY <2>1, <3>8, <3>9, <3>10 DEF covered
  <2>3. Domain # {}
    BY ProbesAssumed DEF ProbeAssumption
  <2> QED BY <2>2, <2>3
<1> QED BY <1>1, ProbeInvariance, PTL
-----------------------------------------------------------------------------
(* The nightly ledger.  Every ledger that a run has made, a branch carries *)
(* or main has taken is judged against the one it was made from (Made): a  *)
(* failure adds one to the streak of that ledger, and an answer ends it.   *)
(* Since only a branch made from the newest commit can be merged, the      *)
(* streaks on main count commits in a row, of nights that only grow.       *)

HealthDocument == [version : Day, failed : SUBSET ListedAnchor,
                   failures : UNION {[S -> Nat] : S \in SUBSET ListedAnchor}]
Commit == [ledger : HealthDocument, night : Nat, day : Nat]
Branch == [base : Nat, ledger : HealthDocument, open : BOOLEAN]

\* Ledger l counts on from ledger prev.
Follows(l, prev) ==
    \A a \in DOMAIN l.failures :
        l.failures[a] = IF a \in l.failed THEN Streak(prev, a) + 1 ELSE 0

\* Ledger l was made from commit b of m, no later than on day t.
Made(m, l, b, t) ==
    /\ b \in 1..Len(m) /\ l \in HealthDocument /\ l.failed \subseteq DOMAIN l.failures
    /\ m[b].ledger.version <= l.version /\ l.version <= t
    /\ Follows(l, m[b].ledger)

\* What a run may hold on day t.
RunOK(m, x, t) ==
    \/ x = IdleRun
    \/ x.pc = "probe" /\ x.base \in 1..Len(m) /\ x.registry \subseteq ListedAnchor
    \/ x.pc = "propose" /\ Made(m, x.ledger, x.base, t)

\* What the branch of day d may carry.
BranchOK(m, b, d) ==
    /\ Made(m, b.ledger, b.base, d)
    /\ b.open => m[b.base].night < d

\* A streak was counted in commits in a row up to commit i.
Counted(m, i) ==
    \A a \in DOMAIN m[i].ledger.failures :
        \A k \in 0..m[i].ledger.failures[a] - 1 : i - k > 1 /\ a \in m[i - k].ledger.failed

\* What commit i of m may be on day t, when requests of the nights asked were made.
CommitOK(m, i, asked, t) ==
    /\ m[i].night \in asked \cup {0}
    /\ m[i].ledger.version <= m[i].day /\ m[i].day <= t
    /\ m[i].ledger.failed \subseteq DOMAIN m[i].ledger.failures
    /\ \A j \in 1..i - 1 : /\ m[j].ledger.version <= m[i].ledger.version
                           /\ m[j].night < m[i].night

\* Commit i is the last one dated no later than the date.
LatestFor(m, i, date) ==
    /\ i \in 1..Len(m) /\ m[i].day <= date
    /\ \A j \in 1..Len(m) : m[j].day <= date => j <= i

\* What may have been answered while commit dep was deployed, or an earlier one.
AnswerOK(m, x, dep) ==
    /\ x \in [date : Day, commit : Nat]
    /\ LatestFor(m, x.commit, x.date)
    /\ x.date < m[dep].ledger.version

NightlyInv ==
    /\ today \in Day /\ registry \subseteq ListedAnchor
    /\ started \in 0..MaxRuns /\ changes \in 0..MaxChanges
    /\ main \in Seq(Commit) /\ deployed \in 1..Len(main)
    /\ requested \subseteq 1..today
    /\ runs = [r \in Run |-> runs[r]]
    /\ branches \in [DOMAIN branches -> Branch] /\ DOMAIN branches \subseteq requested
    /\ \A r \in Run : RunOK(main, runs[r], today)
    /\ \A d \in DOMAIN branches : BranchOK(main, branches[d], d)
    /\ \A i \in 1..Len(main) : CommitOK(main, i, requested, today) /\ Counted(main, i)
    /\ \A x \in answers : AnswerOK(main, x, deployed)

\* The commit for a date is the last one dated no later, if there is any.
LEMMA CommitForIsLatest ==
    ASSUME NEW date \in Day, main \in Seq(Commit)
    PROVE  /\ (\E i \in DOMAIN main : main[i].day <= date)
              => LatestFor(main, CommitFor(date), date)
           /\ \A i : LatestFor(main, i, date) => CommitFor(date) = i
<1>1. DOMAIN main = 1..Len(main) /\ Len(main) \in Nat
  OBVIOUS
<1>2. CommitFor(date) = CHOOSE i \in 1..Len(main) :
          /\ main[i].day <= date
          /\ \A j \in 1..Len(main) : main[j].day <= date => j <= i
  BY <1>1 DEF CommitFor
<1>3. ASSUME \E i \in DOMAIN main : main[i].day <= date
      PROVE  LatestFor(main, CommitFor(date), date)
  <2> DEFINE T == {i \in 1..Len(main) : main[i].day <= date}
  <2>1. T \subseteq 0..Len(main) /\ T # {}
    BY <1>1, <1>3
  <2>2. PICK i \in T : \A j \in T : j <= i
    <3> HIDE DEF T
    <3> QED BY <1>1, <2>1, GreatestExists
  <2>3. i \in 1..Len(main) /\ main[i].day <= date
        /\ \A j \in 1..Len(main) : main[j].day <= date => j <= i
    BY <2>2
  <2> HIDE DEF T
  <2> QED BY <1>2, <2>3 DEF LatestFor
<1>4. ASSUME NEW i, LatestFor(main, i, date) PROVE CommitFor(date) = i
  <2>1. \A j : LatestFor(main, j, date) => j = i
    BY <1>1, <1>4 DEF LatestFor
  <2>2. LatestFor(main, CommitFor(date), date)
    BY <1>1, <1>3, <1>4 DEF LatestFor
  <2> QED BY <2>1, <2>2
<1> QED BY <1>3, <1>4

\* A commit is added at the end of main.
LEMMA MainGrows ==
    ASSUME NEW m \in Seq(Commit), NEW c \in Commit
    PROVE  /\ Append(m, c) \in Seq(Commit)
           /\ Len(Append(m, c)) = Len(m) + 1 /\ Len(m) \in Nat
           /\ \A i \in 1..Len(m) : Append(m, c)[i] = m[i] /\ m[i] \in Commit
           /\ Append(m, c)[Len(m) + 1] = c
           /\ 1..Len(m) + 1 = 1..Len(m) \cup {Len(m) + 1}
<1>1. Len(m) \in Nat /\ Len(Append(m, c)) = Len(m) + 1
  OBVIOUS
<1>2. 1..Len(m) + 1 = 1..Len(m) \cup {Len(m) + 1}
  BY <1>1
<1>3. \A i \in 1..Len(m) : Append(m, c)[i] = m[i] /\ m[i] \in Commit
  OBVIOUS
<1> QED BY <1>1, <1>2, <1>3

\* What holds of the commits there are does not depend on what is added.
LEMMA OlderCommitsStay ==
    ASSUME NEW m \in Seq(Commit), NEW c \in Commit
    PROVE  /\ \A l, b, t : Made(m, l, b, t) => Made(Append(m, c), l, b, t)
           /\ \A x, t : RunOK(m, x, t) => RunOK(Append(m, c), x, t)
           /\ \A b, d : BranchOK(m, b, d) => BranchOK(Append(m, c), b, d)
           /\ \A i \in 1..Len(m) : \A asked, t :
                 CommitOK(m, i, asked, t) => CommitOK(Append(m, c), i, asked, t)
<1> DEFINE n == Append(m, c)
<1>1. /\ Len(n) = Len(m) + 1 /\ Len(m) \in Nat
      /\ \A i \in 1..Len(m) : n[i] = m[i] /\ i \in 1..Len(n)
  BY MainGrows
<1> HIDE DEF n
<1>2. ASSUME NEW l, NEW b, NEW t, Made(m, l, b, t) PROVE Made(n, l, b, t)
  BY <1>1, <1>2 DEF Made
<1>3. ASSUME NEW x, NEW t, RunOK(m, x, t) PROVE RunOK(n, x, t)
  BY <1>1, <1>2, <1>3 DEF RunOK
<1>4. ASSUME NEW b, NEW d, BranchOK(m, b, d) PROVE BranchOK(n, b, d)
  <2>1. b.base \in 1..Len(m)
    BY <1>4 DEF BranchOK, Made
  <2> QED BY <1>1, <1>2, <1>4, <2>1 DEF BranchOK
<1>5. ASSUME NEW i \in 1..Len(m), NEW asked, NEW t, CommitOK(m, i, asked, t)
      PROVE  CommitOK(n, i, asked, t)
  <2>1. \A j \in 1..i - 1 : n[j] = m[j]
    BY <1>1
  <2> QED BY <1>1, <1>5, <2>1 DEF CommitOK
<1> QED BY <1>2, <1>3, <1>4, <1>5 DEF n

\* The steps that leave main and its requests alone: of a run, which becomes x,
LEMMA RunBecomes ==
    ASSUME NightlyInv, NEW r \in Run, NEW x, RunOK(main, x, today),
           runs' = [runs EXCEPT ![r] = x], started' \in 0..MaxRuns,
           UNCHANGED <<today, registry, main, deployed, branches, requested, answers, changes>>
    PROVE  NightlyInv'
<1>1. runs' = [q \in Run |-> runs'[q]]
  BY DEF NightlyInv
<1>2. \A q \in Run : RunOK(main, runs'[q], today)
  BY DEF NightlyInv
<1> QED BY <1>1, <1>2 DEF NightlyInv

\* and of the days: what was no later than one day is no later than the next.
LEMMA LaterStays ==
    ASSUME NEW t \in Nat, NEW u \in Nat, t <= u, NEW m \in Seq(Commit)
    PROVE  /\ \A l, b : Made(m, l, b, t) => Made(m, l, b, u)
           /\ \A x : RunOK(m, x, t) => RunOK(m, x, u)
           /\ \A i \in 1..Len(m) : \A asked : CommitOK(m, i, asked, t) => CommitOK(m, i, asked, u)
<1>1. ASSUME NEW l, NEW b, Made(m, l, b, t) PROVE Made(m, l, b, u)
  <2>1. l.version \in Nat
    BY <1>1, HealthLedgerAssumption DEF Made, HealthDocument, Day, HealthLedgerAssumption
  <2> QED BY <1>1, <2>1 DEF Made
<1>2. ASSUME NEW x, RunOK(m, x, t) PROVE RunOK(m, x, u)
  BY <1>1, <1>2 DEF RunOK
<1>3. ASSUME NEW i \in 1..Len(m), NEW asked, CommitOK(m, i, asked, t)
      PROVE  CommitOK(m, i, asked, u)
  <2>1. m[i].day \in Nat
    <3>1. m[i] \in Commit
      OBVIOUS
    <3> QED BY <3>1 DEF Commit
  <2> QED BY <1>3, <2>1 DEF CommitOK
<1> QED BY <1>1, <1>2, <1>3

\* A run counts on from the ledger of its checkout.
LEMMA ValidateKeeps ==
    ASSUME NightlyInv, NEW r \in Run, Validate(r)
    PROVE  NightlyInv'
<1>1. /\ runs[r].pc = "probe" /\ RunOK(main, runs[r], today) /\ main \in Seq(Commit)
      /\ runs = [q \in Run |-> runs[q]] /\ today \in Day /\ started' = started
      /\ UNCHANGED <<today, registry, main, deployed, branches, requested, answers, changes>>
  BY DEF Validate, NightlyInv
<1>2. runs[r].base \in 1..Len(main) /\ runs[r].registry \subseteq ListedAnchor
  BY <1>1 DEF RunOK, IdleRun
<1> DEFINE b == runs[r].base
           probed == runs[r].registry
           prev == main[b].ledger
<1>3. PICK failed \in SUBSET probed :
        runs' = [runs EXCEPT ![r] =
                    IF probed = {} THEN IdleRun
                    ELSE [pc |-> "propose", base |-> b,
                          ledger |-> ApplyProbes(prev, probed, failed, today)]]
  BY <1>1 DEF Validate
<1> DEFINE l == ApplyProbes(prev, probed, failed, today)
<1>4. /\ main[b] \in Commit /\ prev \in HealthDocument /\ prev.version \in Nat
      /\ main[b].day \in Nat /\ today \in Nat
  <2>1. main[b] \in Commit
    BY <1>1, <1>2
  <2>2. prev \in HealthDocument /\ main[b].day \in Nat
    BY <2>1 DEF Commit
  <2> HIDE DEF prev
  <2> QED BY <1>1, <2>1, <2>2, HealthLedgerAssumption DEF HealthDocument, Day, HealthLedgerAssumption
<1>5. \A a : Streak(prev, a) \in Nat
  <2> HIDE DEF prev
  <2>1. \A a \in DOMAIN prev.failures : prev.failures[a] \in Nat
    BY <1>4 DEF HealthDocument
  <2> QED BY <2>1 DEF Streak
<1>6. l \in HealthDocument /\ l.failed \subseteq DOMAIN l.failures /\ Follows(l, prev)
  <2> HIDE DEF prev, probed
  <2>1. \A a \in probed : NextHealth(prev, a, a \notin failed) \in Nat
    BY <1>5 DEF NextHealth
  <2>2. probed \in SUBSET ListedAnchor
    BY <1>2 DEF probed
  <2>3. l.failures \in [probed -> Nat]
    BY <2>1 DEF ApplyProbes
  <2>4. l = [version |-> today, failed |-> failed, failures |-> l.failures]
    BY DEF ApplyProbes
  <2>5. l \in HealthDocument
    <3> HIDE DEF l
    <3> QED BY <1>1, <2>2, <2>3, <2>4 DEF HealthDocument
  <2>6. DOMAIN l.failures = probed /\ l.failed = failed
    BY DEF ApplyProbes
  <2>7. Follows(l, prev)
    BY DEF Follows, ApplyProbes, NextHealth
  <2> QED BY <2>5, <2>6, <2>7
<1>7. prev.version <= today
  <2>1. CommitOK(main, b, requested, today)
    BY <1>2 DEF NightlyInv
  <2> QED BY <1>4, <2>1 DEF CommitOK
<1>8. l.version = today
  BY DEF ApplyProbes
<1> HIDE DEF l
<1>9. Made(main, l, b, today)
  BY <1>2, <1>4, <1>6, <1>7, <1>8 DEF Made
<1>10. RunOK(main, [pc |-> "propose", base |-> b, ledger |-> l], today)
  <2> HIDE DEF b
  <2> QED BY <1>9 DEF RunOK
<1>11. RunOK(main, IdleRun, today)
  BY DEF RunOK
<1> HIDE DEF b, probed, prev
<1>12. \/ runs' = [runs EXCEPT ![r] = IdleRun]
       \/ runs' = [runs EXCEPT ![r] = [pc |-> "propose", base |-> b, ledger |-> l]]
  BY <1>3 DEF l
<1>13. started' \in 0..MaxRuns
  BY <1>1 DEF NightlyInv
<1> QED BY <1>1, <1>10, <1>11, <1>12, <1>13, RunBecomes

\* A request of a day is of a later night than the ledger its branch was made from.
LEMMA ProposeKeeps ==
    ASSUME NightlyInv, NEW r \in Run, Propose(r)
    PROVE  NightlyInv'
<1>1. /\ runs[r].pc = "propose" /\ RunOK(main, runs[r], today) /\ main \in Seq(Commit)
      /\ today \in Nat /\ today >= 1
      /\ UNCHANGED <<today, registry, main, deployed, answers, started, changes>>
      /\ runs' = [runs EXCEPT ![r] = IdleRun]
  BY HealthLedgerAssumption DEF Propose, NightlyInv, Day, HealthLedgerAssumption
<1> DEFINE b == [base |-> runs[r].base, ledger |-> runs[r].ledger,
                 open |-> today \notin requested]
<1>2. Made(main, runs[r].ledger, runs[r].base, today)
  BY <1>1 DEF RunOK, IdleRun
<1>3. CASE today \in DOMAIN branches
  <2>1. UNCHANGED <<branches, requested>>
    BY <1>3 DEF Propose
  <2>2. RunOK(main, IdleRun, today) /\ started' \in 0..MaxRuns
    BY <1>1 DEF RunOK, NightlyInv
  <2> QED BY <1>1, <2>1, <2>2, RunBecomes
<1>4. CASE today \notin DOMAIN branches
  <2>1. /\ branches' = [d \in DOMAIN branches \cup {today} |->
                          IF d \in DOMAIN branches THEN branches[d] ELSE b]
        /\ requested' = requested \cup {today}
    BY <1>4 DEF Propose
  <2>2. b \in Branch
    <3>1. runs[r].base \in Nat /\ runs[r].ledger \in HealthDocument
      BY <1>1, <1>2 DEF Made
    <3>2. (today \notin requested) \in BOOLEAN
      OBVIOUS
    <3> QED BY <3>1, <3>2 DEF Branch
  <2>3. BranchOK(main, b, today)
    <3>1. b.base = runs[r].base /\ b.ledger = runs[r].ledger /\ (b.open <=> today \notin requested)
      OBVIOUS
    <3> HIDE DEF b
    <3>2. b.base \in 1..Len(main)
      BY <1>2, <3>1 DEF Made
    <3>3. main[b.base].night \in requested \cup {0}
      BY <3>2 DEF NightlyInv, CommitOK
    <3>4. b.open => main[b.base].night < today
      BY <1>1, <3>1, <3>3 DEF NightlyInv
    <3> QED BY <1>2, <3>1, <3>4 DEF BranchOK
  <2> HIDE DEF b
  <2>4. /\ branches' \in [DOMAIN branches' -> Branch] /\ DOMAIN branches' \subseteq requested'
        /\ \A d \in DOMAIN branches' : BranchOK(main, branches'[d], d)
    BY <1>1, <2>1, <2>2, <2>3 DEF NightlyInv
  <2>5. requested' \subseteq 1..today
    BY <1>1, <2>1 DEF NightlyInv
  <2>6. \A i \in 1..Len(main) : CommitOK(main, i, requested', today)
    BY <2>1 DEF NightlyInv, CommitOK
  <2>7. runs' = [q \in Run |-> runs'[q]] /\ \A q \in Run : RunOK(main, runs'[q], today)
    BY <1>1 DEF NightlyInv, RunOK
  <2> QED BY <1>1, <2>4, <2>5, <2>6, <2>7 DEF NightlyInv
<1> QED BY <1>3, <1>4

\* What follows the newest commit is a commit in order, dated on the night of its request
\* or today.
LEMMA NextCommit ==
    ASSUME NEW m \in Seq(Commit), NEW c \in Commit, Len(m) >= 1, NEW asked, NEW t,
           \A i \in 1..Len(m) : CommitOK(m, i, asked, t) /\ Counted(m, i),
           Made(m, c.ledger, Len(m), c.day), c.day <= t, c.night \in asked,
           m[Len(m)].night < c.night
    PROVE  \A i \in 1..Len(m) + 1 : CommitOK(Append(m, c), i, asked, t) /\ Counted(Append(m, c), i)
<1> DEFINE n == Append(m, c)
           last == m[Len(m)]
<1>1. /\ Len(m) \in Nat /\ n[Len(m) + 1] = c
      /\ \A i \in 1..Len(m) : n[i] = m[i] /\ m[i] \in Commit
      /\ 1..Len(m) + 1 = 1..Len(m) \cup {Len(m) + 1}
  BY MainGrows
<1>2. \A i \in 1..Len(m) : CommitOK(n, i, asked, t)
  BY OlderCommitsStay
<1> HIDE DEF n
<1>3. \A i \in 1..Len(m) : m[i].ledger \in HealthDocument /\ m[i].night \in Nat
  BY <1>1 DEF Commit
<1>4. \A l \in HealthDocument : /\ l.version \in Nat
                        /\ \A a \in DOMAIN l.failures : l.failures[a] \in Nat
  BY HealthLedgerAssumption DEF HealthDocument, Day, HealthLedgerAssumption
<1>5. \A i \in 1..Len(m) : Counted(n, i)
  <2> SUFFICES ASSUME NEW i \in 1..Len(m), NEW a \in DOMAIN m[i].ledger.failures,
                      NEW k \in 0..m[i].ledger.failures[a] - 1
               PROVE  i - k > 1 /\ a \in n[i - k].ledger.failed
    BY <1>1 DEF Counted
  <2>1. m[i].ledger.failures[a] \in Nat
    BY <1>3, <1>4
  <2>2. i - k > 1 /\ a \in m[i - k].ledger.failed
    BY DEF Counted
  <2>3. i - k \in 1..Len(m)
    BY <1>1, <2>1, <2>2
  <2> QED BY <1>1, <2>2, <2>3
<1>6. c.ledger \in HealthDocument /\ Follows(c.ledger, last.ledger)
  BY DEF Made
<1>7. Len(m) \in 1..Len(m)
  BY <1>1
<1>8. Counted(n, Len(m) + 1)
  <2> SUFFICES ASSUME NEW a \in DOMAIN c.ledger.failures,
                      NEW k \in 0..c.ledger.failures[a] - 1
               PROVE  /\ Len(m) + 1 - k > 1
                      /\ a \in n[Len(m) + 1 - k].ledger.failed
    BY <1>1 DEF Counted
  <2>1. c.ledger.failures[a] \in Nat
    BY <1>4, <1>6
  <2>2. k \in Nat /\ c.ledger.failures[a] > k
    BY <2>1
  <2>3. a \in c.ledger.failed /\ c.ledger.failures[a] = Streak(last.ledger, a) + 1
    BY <1>6, <2>2 DEF Follows
  <2>4. CASE k = 0
    BY <1>1, <2>3, <2>4
  <2>5. CASE k # 0
    <3>1. k - 1 \in Nat /\ k <= Streak(last.ledger, a) /\ Streak(last.ledger, a) > 0
      <4>1. Streak(last.ledger, a) \in Nat
        BY <1>3, <1>4, <1>7 DEF Streak
      <4> QED BY <2>2, <2>3, <2>5, <4>1
    <3>2. a \in DOMAIN last.ledger.failures /\ Streak(last.ledger, a) = last.ledger.failures[a]
      BY <3>1 DEF Streak
    <3>3. last.ledger.failures[a] \in Nat
      BY <1>3, <1>4, <1>7, <3>2
    <3>4. k - 1 \in 0..last.ledger.failures[a] - 1
      BY <3>1, <3>2, <3>3
    <3>5. Len(m) - (k - 1) > 1 /\ a \in m[Len(m) - (k - 1)].ledger.failed
      BY <1>7, <3>2, <3>4 DEF Counted
    <3>6. Len(m) + 1 - k = Len(m) - (k - 1) /\ Len(m) - (k - 1) \in 1..Len(m)
      BY <1>1, <2>2, <3>1, <3>5
    <3> QED BY <1>1, <3>5, <3>6
  <2> QED BY <2>4, <2>5
<1>9. CommitOK(n, Len(m) + 1, asked, t)
  <2>1. last.ledger.version <= c.ledger.version /\ c.ledger.version <= c.day
        /\ c.ledger.failed \subseteq DOMAIN c.ledger.failures
    BY DEF Made
  <2>2. \A j \in 1..Len(m) : j < Len(m) => /\ m[j].ledger.version <= last.ledger.version
                                           /\ m[j].night < last.night
    BY <1>1, <1>7 DEF CommitOK
  <2>3. c.night \in Nat /\ last.night \in Nat /\ last.ledger.version \in Nat
        /\ c.ledger.version \in Nat
    BY <1>3, <1>4, <1>6, <1>7 DEF Commit
  <2>4. ASSUME NEW j \in 1..Len(m)
        PROVE  m[j].ledger.version <= c.ledger.version /\ m[j].night < c.night
    <3>1. m[j].ledger.version \in Nat /\ m[j].night \in Nat
      BY <1>3, <1>4
    <3>2. CASE j = Len(m)
      BY <2>1, <3>2
    <3>3. CASE j # Len(m)
      <4>1. j < Len(m)
        BY <1>1, <3>3
      <4>2. m[j].ledger.version <= last.ledger.version /\ m[j].night < last.night
        BY <2>2, <4>1
      <4> HIDE DEF last
      <4>3. last.night < c.night
        BY DEF last
      <4> QED BY <2>1, <2>3, <3>1, <4>2, <4>3
    <3> QED BY <3>2, <3>3
  <2>5. \A j \in 1..(Len(m) + 1) - 1 : j \in 1..Len(m)
    BY <1>1
  <2> QED BY <1>1, <2>1, <2>4, <2>5 DEF CommitOK
<1>10. ASSUME NEW i \in 1..Len(m) + 1 PROVE CommitOK(n, i, asked, t) /\ Counted(n, i)
  BY <1>1, <1>2, <1>5, <1>8, <1>9
<1> QED BY <1>10 DEF n

\* A merge takes a request made from the newest commit, so nothing that was answered for a
\* date changes: the answer was older than the ledger deployed, and the new commit is not.
LEMMA MergeKeeps ==
    ASSUME NightlyInv, NEW d \in Day, Merge(d)
    PROVE  NightlyInv'
<1>1. /\ d \in DOMAIN branches /\ branches[d].open /\ branches[d].base = Len(main)
      /\ branches[d] \in Branch /\ BranchOK(main, branches[d], d)
      /\ main \in Seq(Commit) /\ today \in Nat /\ d \in Nat /\ d <= today
      /\ deployed \in 1..Len(main)
      /\ UNCHANGED <<today, registry, deployed, runs, requested, answers, started, changes>>
  BY HealthLedgerAssumption
     DEF Merge, Mergeable, NightlyInv, Day, HealthLedgerAssumption
<1>2. PICK dated \in {d, today} :
        main' = Append(main, [ledger |-> branches[d].ledger, night |-> d, day |-> dated])
  BY DEF Merge
<1> DEFINE c == [ledger |-> branches[d].ledger, night |-> d, day |-> dated]
           n == Append(main, c)
<1>3. branches[d].ledger \in HealthDocument /\ main[Len(main)].night < d
      /\ Made(main, branches[d].ledger, Len(main), d)
  BY <1>1 DEF BranchOK, Made
<1>4. dated \in Nat /\ d <= dated /\ dated <= today
  BY <1>1
<1>5. c \in Commit /\ c.ledger = branches[d].ledger /\ c.night = d /\ c.day = dated
  BY <1>1, <1>3, <1>4 DEF Commit
<1> HIDE DEF c
<1>6. Made(main, c.ledger, Len(main), c.day)
  BY <1>1, <1>3, <1>4, <1>5, LaterStays
<1>7. /\ n \in Seq(Commit) /\ Len(n) = Len(main) + 1 /\ Len(main) \in Nat
      /\ \A i \in 1..Len(main) : n[i] = main[i] /\ main[i] \in Commit
      /\ n[Len(main) + 1] = c
      /\ 1..Len(main) + 1 = 1..Len(main) \cup {Len(main) + 1}
  BY <1>1, <1>5, MainGrows
<1>8. main' = n
  BY <1>2 DEF c
<1>9. d \in requested
  BY <1>1 DEF NightlyInv
<1>10. Len(main) >= 1
  BY <1>1, <1>7
<1>11. \A i \in 1..Len(n) : CommitOK(n, i, requested, today) /\ Counted(n, i)
  <2>1. \A i \in 1..Len(main) : CommitOK(main, i, requested, today) /\ Counted(main, i)
    BY DEF NightlyInv
  <2> QED BY <1>1, <1>3, <1>4, <1>5, <1>6, <1>7, <1>9, <1>10, <2>1, NextCommit
<1>12. \A x \in answers : AnswerOK(n, x, deployed)
  <2> SUFFICES ASSUME NEW x \in answers PROVE AnswerOK(n, x, deployed)
    OBVIOUS
  <2>1. AnswerOK(main, x, deployed)
    BY DEF NightlyInv
  <2>2. x.date \in Nat
    BY <2>1, HealthLedgerAssumption DEF AnswerOK, Day, HealthLedgerAssumption
  <2>3. /\ main[deployed].ledger.version <= main[Len(main)].ledger.version
        /\ main[deployed].ledger.version \in Nat /\ main[Len(main)].ledger.version \in Nat
    <3>1. \A i \in 1..Len(main) : main[i].ledger.version \in Nat
      <4>1. \A i \in 1..Len(main) : main[i].ledger \in HealthDocument
        BY <1>7 DEF Commit
      <4> QED BY <4>1, HealthLedgerAssumption DEF HealthDocument, Day, HealthLedgerAssumption
    <3>2. Len(main) \in 1..Len(main)
      BY <1>7, <1>10
    <3>3. CommitOK(main, Len(main), requested, today)
      BY <3>2 DEF NightlyInv
    <3>4. deployed = Len(main) \/ deployed \in 1..Len(main) - 1
      BY <1>1, <1>7
    <3> QED BY <1>1, <3>1, <3>2, <3>3, <3>4 DEF CommitOK
  <2>4. main[Len(main)].ledger.version <= c.ledger.version /\ c.ledger.version <= c.day
    BY <1>6 DEF Made
  <2>5. c.ledger.version \in Nat /\ c.day \in Nat
    BY <1>5, HealthLedgerAssumption DEF Commit, HealthDocument, Day, HealthLedgerAssumption
  <2>6. x.date < c.day
    <3>1. x.date < main[deployed].ledger.version
      BY <2>1 DEF AnswerOK
    <3> QED BY <2>2, <2>3, <2>4, <2>5, <3>1
  <2>7. LatestFor(n, x.commit, x.date)
    <3>1. LatestFor(main, x.commit, x.date)
      BY <2>1 DEF AnswerOK
    <3>2. x.commit \in 1..Len(n) /\ n[x.commit].day <= x.date
      BY <1>7, <3>1 DEF LatestFor
    <3>3. \A j \in 1..Len(main) : n[j].day <= x.date => j <= x.commit
      BY <1>7, <3>1 DEF LatestFor
    <3>4. ~(n[Len(main) + 1].day <= x.date)
      BY <1>7, <2>2, <2>5, <2>6
    <3> QED BY <1>7, <3>2, <3>3, <3>4 DEF LatestFor
  <2> QED BY <1>1, <1>7, <2>1, <2>7 DEF AnswerOK
<1>13. /\ branches' \in [DOMAIN branches' -> Branch] /\ DOMAIN branches' \subseteq requested
       /\ \A e \in DOMAIN branches' : BranchOK(main, branches'[e], e)
  <2>1. CASE branches' = [branches EXCEPT ![d].open = FALSE]
    <3> DEFINE b == [base |-> branches[d].base, ledger |-> branches[d].ledger, open |-> FALSE]
    <3>1. branches' = [branches EXCEPT ![d] = b]
      <4>1. [branches[d] EXCEPT !.open = FALSE] = b
        <5>1. branches[d] \in Branch
          BY <1>1
        <5>2. \A x \in Branch : \A v : [x EXCEPT !.open = v]
                                       = [base |-> x.base, ledger |-> x.ledger, open |-> v]
          <6> HIDE DEF b
          <6> QED BY DEF Branch
        <5> QED BY <5>1, <5>2
      <4>2. branches' = [branches EXCEPT ![d] = [branches[d] EXCEPT !.open = FALSE]]
        BY <2>1
      <4> QED BY <4>1, <4>2
    <3>2. b \in Branch /\ BranchOK(main, b, d)
      BY <1>1 DEF Branch, BranchOK
    <3> HIDE DEF b
    <3> QED BY <3>1, <3>2 DEF NightlyInv
  <2>2. CASE branches' = [e \in DOMAIN branches \ {d} |-> branches[e]]
    BY <2>2 DEF NightlyInv
  <2> QED BY <2>1, <2>2 DEF Merge
<1>14. \A e \in DOMAIN branches' : BranchOK(n, branches'[e], e)
  BY <1>1, <1>5, <1>13, OlderCommitsStay
<1>15. \A r \in Run : RunOK(n, runs[r], today)
  BY <1>1, <1>5, OlderCommitsStay DEF NightlyInv
<1>16. deployed \in 1..Len(n)
  BY <1>1, <1>7
<1> HIDE DEF n
<1> QED BY <1>1, <1>7, <1>8, <1>11, <1>12, <1>13, <1>14, <1>15, <1>16 DEF NightlyInv

\* An answer from history is of a date before the ledger deployed.
LEMMA ServeKeeps ==
    ASSUME NightlyInv, NEW date \in Day, Serve(date)
    PROVE  NightlyInv'
<1>1. /\ UNCHANGED <<today, registry, main, deployed, runs, branches, requested, started, changes>>
      /\ answers' = answers \cup {[date |-> date, commit |-> CommitFor(date)]}
      /\ \E i \in DOMAIN main : main[i].day <= date
      /\ ~(date >= main[deployed].ledger.version)
      /\ main \in Seq(Commit) /\ deployed \in 1..Len(main)
  BY DEF Serve, FromDeployment, NightlyInv
<1>2. LatestFor(main, CommitFor(date), date)
  BY <1>1, CommitForIsLatest
<1>3. main[deployed].ledger.version \in Nat /\ date \in Nat
  <2>1. main[deployed] \in Commit
    BY <1>1
  <2> QED BY <2>1, HealthLedgerAssumption DEF Commit, HealthDocument, Day, HealthLedgerAssumption
<1>4. CommitFor(date) \in Nat
  BY <1>1, <1>2 DEF LatestFor
<1>5. AnswerOK(main, [date |-> date, commit |-> CommitFor(date)], deployed)
  BY <1>1, <1>2, <1>3, <1>4 DEF AnswerOK
<1>6. \A x \in answers' : AnswerOK(main, x, deployed)
  BY <1>1, <1>5 DEF NightlyInv
<1> QED BY <1>1, <1>6 DEF NightlyInv

\* A later deployment has a ledger as new.
LEMMA DeployKeeps ==
    ASSUME NightlyInv, DeployLedger
    PROVE  NightlyInv'
<1>1. /\ UNCHANGED <<today, registry, main, runs, branches, requested, answers, started, changes>>
      /\ deployed' = Len(main) /\ main \in Seq(Commit) /\ deployed \in 1..Len(main)
      /\ deployed # Len(main)
  BY DEF DeployLedger, NightlyInv
<1>2. Len(main) \in Nat /\ Len(main) \in 1..Len(main) /\ deployed \in 1..Len(main) - 1
  BY <1>1
<1>3. main[deployed].ledger.version <= main[Len(main)].ledger.version
  <2>1. CommitOK(main, Len(main), requested, today)
    BY <1>2 DEF NightlyInv
  <2> QED BY <1>2, <2>1 DEF CommitOK
<1>4. main[deployed].ledger.version \in Nat /\ main[Len(main)].ledger.version \in Nat
  <2>1. main[deployed] \in Commit /\ main[Len(main)] \in Commit
    BY <1>1, <1>2
  <2> QED BY <2>1, HealthLedgerAssumption DEF Commit, HealthDocument, Day, HealthLedgerAssumption
<1>5. \A x \in answers : AnswerOK(main, x, deployed')
  <2> SUFFICES ASSUME NEW x \in answers PROVE AnswerOK(main, x, deployed')
    OBVIOUS
  <2>1. AnswerOK(main, x, deployed)
    BY DEF NightlyInv
  <2>2. x.date \in Nat
    BY <2>1, HealthLedgerAssumption DEF AnswerOK, Day, HealthLedgerAssumption
  <2> QED BY <1>1, <1>3, <1>4, <2>1, <2>2 DEF AnswerOK
<1> QED BY <1>1, <1>2, <1>5 DEF NightlyInv

\* Every step of the nightly job, of main and of its readers keeps the invariant.
LEMMA NightlyStep == NightlyInv /\ [NightlyNext]_nightlyVars => NightlyInv'
<1> SUFFICES ASSUME NightlyInv, [NightlyNext]_nightlyVars PROVE NightlyInv'
  OBVIOUS
<1>1. ASSUME NEW r \in Run, Checkout(r) PROVE NightlyInv'
  <2> DEFINE x == [pc |-> "probe", base |-> Len(main), registry |-> registry]
  <2>1. RunOK(main, x, today)
    <3>1. Len(main) \in 1..Len(main) /\ registry \subseteq ListedAnchor
      BY DEF NightlyInv
    <3> QED BY <3>1 DEF RunOK
  <2>2. started' \in 0..MaxRuns
    BY <1>1, HealthLedgerAssumption DEF Checkout, NightlyInv, HealthLedgerAssumption
  <2>3. /\ runs' = [runs EXCEPT ![r] = x]
        /\ UNCHANGED <<today, registry, main, deployed, branches, requested, answers, changes>>
    BY <1>1 DEF Checkout
  <2> HIDE DEF x
  <2> QED BY <2>1, <2>2, <2>3, RunBecomes
<1>2. ASSUME NEW r \in Run, Fail(r) PROVE NightlyInv'
  <2>1. RunOK(main, IdleRun, today) /\ started' \in 0..MaxRuns
    BY <1>2 DEF RunOK, Fail, NightlyInv
  <2> QED BY <1>2, <2>1, RunBecomes DEF Fail
<1>3. ASSUME NEW d \in Day, Discard(d) PROVE NightlyInv'
  BY <1>3 DEF Discard, NightlyInv
<1>4. ASSUME ChangeRegistry PROVE NightlyInv'
  BY <1>4, HealthLedgerAssumption DEF ChangeRegistry, NightlyInv, HealthLedgerAssumption
<1>5. ASSUME Midnight PROVE NightlyInv'
  <2>1. /\ today \in Nat /\ today' = today + 1 /\ today' \in Day /\ main \in Seq(Commit)
        /\ UNCHANGED <<registry, main, deployed, runs, branches, requested, answers, started, changes>>
    BY <1>5, HealthLedgerAssumption DEF Midnight, NightlyInv, Day, HealthLedgerAssumption
  <2>2. today' \in Nat /\ today <= today' /\ 1..today \subseteq 1..today'
    BY <2>1
  <2>3. /\ \A r \in Run : RunOK(main, runs[r], today')
        /\ \A i \in 1..Len(main) : CommitOK(main, i, requested, today')
    BY <2>1, <2>2, LaterStays DEF NightlyInv
  <2> QED BY <2>1, <2>2, <2>3 DEF NightlyInv
<1>6. ASSUME UNCHANGED nightlyVars PROVE NightlyInv'
  BY <1>6 DEF nightlyVars, NightlyInv
<1> QED BY <1>1, <1>2, <1>3, <1>4, <1>5, <1>6, ValidateKeeps, ProposeKeeps, MergeKeeps,
           ServeKeeps, DeployKeeps DEF NightlyNext

\* The nightly ledger: the invariant holds throughout.
LEMMA NightlyInvariance == NightlySpec => []NightlyInv
<1>1. NightlyInit => NightlyInv
  <2> SUFFICES ASSUME NightlyInit PROVE NightlyInv
    OBVIOUS
  <2> DEFINE l == [version |-> 1, failed |-> {}, failures |-> <<>>]
             c == [ledger |-> l, night |-> 0, day |-> 1]
  <2>1. DOMAIN l.failures = {}
    OBVIOUS
  <2>2. <<>> \in [{} -> Nat]
    OBVIOUS
  <2>3. l \in HealthDocument
    <3> DEFINE Counts == UNION {[S -> Nat] : S \in SUBSET ListedAnchor}
    <3>1. <<>> \in Counts
      BY <2>2
    <3>2. 1 \in Day
      BY HealthLedgerAssumption DEF Day
    <3>3. HealthDocument = [version : Day, failed : SUBSET ListedAnchor, failures : Counts]
      BY DEF HealthDocument
    <3> HIDE DEF Counts
    <3> QED BY <3>1, <3>2, <3>3
  <2>4. c \in Commit /\ c.ledger = l /\ c.night = 0 /\ c.day = 1 /\ l.version = 1
        /\ l.failed = {}
    BY <2>3 DEF Commit
  <2>5. main = <<c>> /\ today = 1
    BY DEF NightlyInit
  <2> HIDE DEF l, c
  <2>6. main \in Seq(Commit) /\ Len(main) = 1 /\ main[1] = c
    BY <2>4, <2>5
  <2>7. \A i \in 1..Len(main) : CommitOK(main, i, {}, today) /\ Counted(main, i)
    BY <2>1, <2>4, <2>5, <2>6 DEF CommitOK, Counted
  <2>8. /\ started \in 0..MaxRuns /\ changes \in 0..MaxChanges /\ today \in Day
        /\ registry \subseteq ListedAnchor /\ deployed \in 1..Len(main)
    BY <2>6, HealthLedgerAssumption DEF NightlyInit, Day, HealthLedgerAssumption
  <2>9. /\ branches \in [DOMAIN branches -> Branch] /\ DOMAIN branches = {}
        /\ requested = {} /\ answers = {}
    BY DEF NightlyInit
  <2>10. runs = [r \in Run |-> runs[r]] /\ \A r \in Run : RunOK(main, runs[r], today)
    BY DEF NightlyInit, RunOK
  <2> QED BY <2>6, <2>7, <2>8, <2>9, <2>10 DEF NightlyInv
<1> QED BY <1>1, NightlyStep, PTL DEF NightlySpec

\* The variables of the nightly job and of the ledgers keep their types.
THEOREM NightlyTypes == NightlySpec => []NightlyTypeOK
<1>1. NightlyInv => NightlyTypeOK
  <2> SUFFICES ASSUME NightlyInv PROVE NightlyTypeOK
    OBVIOUS
  <2>0. main \in Seq(Commit) /\ DOMAIN main = 1..Len(main) /\ today \in Nat /\ today <= LastDay
        /\ Len(main) \in Nat
    BY HealthLedgerAssumption DEF NightlyInv, Day, HealthLedgerAssumption
  <2>1. \A l \in HealthDocument : l.failed \subseteq DOMAIN l.failures => IsLedger(l)
    BY DEF HealthDocument, IsLedger
  <2>2. \A i \in DOMAIN main : IsLedger(main[i].ledger) /\ main[i].day \in Day
    <3> SUFFICES ASSUME NEW i \in DOMAIN main
                 PROVE  IsLedger(main[i].ledger) /\ main[i].day \in Day
      OBVIOUS
    <3>1. main[i] \in Commit /\ CommitOK(main, i, requested, today)
      BY <2>0 DEF NightlyInv
    <3>2. main[i].ledger \in HealthDocument /\ main[i].day \in Nat
      BY <3>1 DEF Commit
    <3>3. main[i].ledger.version \in Day
      BY <3>2 DEF HealthDocument
    <3>4. IsLedger(main[i].ledger)
      BY <2>1, <3>1, <3>2 DEF CommitOK
    <3> QED BY <2>0, <3>1, <3>2, <3>3, <3>4, HealthLedgerAssumption
            DEF CommitOK, Day, HealthLedgerAssumption
  <2>3. \A r \in Run : RunTypeOK(runs[r])
    BY <2>0, <2>1 DEF NightlyInv, RunOK, RunTypeOK, Made
  <2>4. DOMAIN branches \subseteq Day /\ requested \subseteq Day
    BY <2>0, HealthLedgerAssumption DEF NightlyInv, Day, HealthLedgerAssumption
  <2>5. \A d \in DOMAIN branches : branches[d].base \in DOMAIN main
    BY <2>0 DEF NightlyInv, BranchOK, Made
  <2>6. answers \subseteq [date : Day, commit : DOMAIN main]
    BY <2>0 DEF NightlyInv, AnswerOK, LatestFor
  <2> QED BY <2>0, <2>2, <2>3, <2>4, <2>5, <2>6 DEF NightlyInv, NightlyTypeOK
<1> QED BY <1>1, NightlyInvariance, PTL

\* An anchor is hidden only if it failed in as many ledgers in a row as the threshold says,
\* of as many different nights, however runs overlap, are repeated on a day or cross
\* midnight, and whatever becomes of their pull requests (validate-anchors.mjs;
\* lib/stellar/anchors.ts; nightly.yml).
THEOREM DegradedIsAlwaysEarned == NightlySpec => []DegradedIsEarned
<1>1. NightlyInv => DegradedIsEarned
  <2> SUFFICES ASSUME NightlyInv, NEW i \in DOMAIN main, NEW a \in Degraded(main[i].ledger)
               PROVE  LET first == i - ThresholdNights + 1 IN
                      /\ first > 1
                      /\ \A j \in first..i : a \in main[j].ledger.failed
                      /\ \A j \in first..i - 1 : main[j].night < main[j + 1].night
    BY DEF DegradedIsEarned
  <2> DEFINE first == i - ThresholdNights + 1
  <2>1. /\ main \in Seq(Commit) /\ i \in 1..Len(main) /\ Len(main) \in Nat
        /\ ThresholdNights \in Nat /\ ThresholdNights >= 1
    BY HealthLedgerAssumption DEF NightlyInv, HealthLedgerAssumption
  <2>2. /\ a \in DOMAIN main[i].ledger.failures
        /\ main[i].ledger.failures[a] >= ThresholdNights
    BY DEF Degraded
  <2>3. main[i].ledger.failures[a] \in Nat
    <3>1. main[i] \in Commit
      BY <2>1
    <3>2. main[i].ledger \in HealthDocument
      BY <3>1 DEF Commit
    <3> QED BY <2>2, <3>2 DEF HealthDocument
  <2>4. \A k \in 0..ThresholdNights - 1 : i - k > 1 /\ a \in main[i - k].ledger.failed
    <3>1. Counted(main, i)
      BY <2>1 DEF NightlyInv
    <3>2. \A k \in 0..ThresholdNights - 1 : k \in 0..main[i].ledger.failures[a] - 1
      BY <2>1, <2>2, <2>3
    <3> QED BY <2>2, <3>1, <3>2 DEF Counted
  <2>5. first > 1
    <3>1. ThresholdNights - 1 \in 0..ThresholdNights - 1
      BY <2>1
    <3>2. i - (ThresholdNights - 1) > 1
      BY <2>4, <3>1
    <3> QED BY <2>1, <3>2
  <2>6. ASSUME NEW j \in first..i PROVE a \in main[j].ledger.failed
    <3>1. i - j \in 0..ThresholdNights - 1 /\ i - (i - j) = j
      BY <2>1, <2>6
    <3> QED BY <2>4, <3>1
  <2>7. ASSUME NEW j \in first..i - 1 PROVE main[j].night < main[j + 1].night
    <3>1. j + 1 \in 1..Len(main) /\ j \in 1..(j + 1) - 1
      BY <2>1, <2>5, <2>7
    <3>2. CommitOK(main, j + 1, requested, today)
      BY <3>1 DEF NightlyInv
    <3> QED BY <3>1, <3>2 DEF CommitOK
  <2> QED BY <2>5, <2>6, <2>7
<1> QED BY <1>1, NightlyInvariance, PTL

\* What was answered from history for a date, and cached as immutable, is still the answer,
\* and describes no later date, however late requests are merged and with whatever date
\* (app/api/v1/anchor-health/ledger/route.ts).
THEOREM PastDatesStaySettled == NightlySpec => []PastDatesAreSettled
<1>1. NightlyInv => PastDatesAreSettled
  <2> SUFFICES ASSUME NightlyInv, NEW x \in answers
               PROVE  /\ x.commit = CommitFor(x.date)
                      /\ main[x.commit].ledger.version <= x.date
    BY DEF PastDatesAreSettled
  <2>1. AnswerOK(main, x, deployed) /\ main \in Seq(Commit)
    BY DEF NightlyInv
  <2>2. x.date \in Day /\ LatestFor(main, x.commit, x.date)
    BY <2>1 DEF AnswerOK
  <2>3. x.commit = CommitFor(x.date)
    BY <2>1, <2>2, CommitForIsLatest
  <2>4. x.commit \in 1..Len(main) /\ main[x.commit].day <= x.date
    BY <2>2 DEF LatestFor
  <2>5. CommitOK(main, x.commit, requested, today) /\ main[x.commit] \in Commit
    BY <2>1, <2>4 DEF NightlyInv
  <2>6. main[x.commit].ledger.version \in Nat /\ main[x.commit].day \in Nat /\ x.date \in Nat
    BY <2>2, <2>5, HealthLedgerAssumption DEF Commit, HealthDocument, Day, HealthLedgerAssumption
  <2> QED BY <2>3, <2>4, <2>5, <2>6 DEF CommitOK
<1> QED BY <1>1, NightlyInvariance, PTL

-----------------------------------------------------------------------------
(* The refresh of the oracle.  Figures are of sets of rows: the k-th value *)
(* of a set exists, whatever its size, and the median, the percentiles and *)
(* the shares are what the counts say.                                     *)

\* Rows of a log that give numbers.
Valued(I, v, N) == N \in Nat /\ I \subseteq 1..N /\ \A i \in I : v[i] \in Nat

AtMost(I, v, x) == {i \in I : v[i] <= x}
Under(I, v, x) == {i \in I : v[i] < x}

\* Some of the rows are finitely many, and no more than all.
LEMMA SomeRows ==
    ASSUME NEW N \in Nat, NEW I, I \subseteq 1..N, NEW J, J \subseteq I
    PROVE  /\ IsFiniteSet(I) /\ IsFiniteSet(J)
           /\ Cardinality(I) \in Nat /\ Cardinality(J) \in Nat
           /\ Cardinality(J) <= Cardinality(I)
           /\ Cardinality(J) = Cardinality(I) => J = I
           /\ Cardinality(I \ J) = Cardinality(I) - Cardinality(J)
<1>1. IsFiniteSet(1..N)
  <2>1. 1 \in Int /\ N \in Int
    OBVIOUS
  <2> QED
    BY <2>1, FS_Interval
<1>2. IsFiniteSet(I)
  BY <1>1, FS_Subset
<1>3. IsFiniteSet(J) /\ Cardinality(J) <= Cardinality(I) /\ (Cardinality(I) = Cardinality(J) => I = J)
  BY <1>2, FS_Subset
<1>4. Cardinality(I \ J) = Cardinality(I) - Cardinality(I \cap J)
  BY <1>2, FS_Difference
<1>5. I \cap J = J
  OBVIOUS
<1> QED
  BY <1>2, <1>3, <1>4, <1>5, FS_CardinalityType

\* The k-th value is one that fewer than k are under, and at least k are not above.
LEMMA NthIs ==
    ASSUME NEW I, NEW v, NEW N, Valued(I, v, N), NEW k \in Nat, 1 <= k, k <= Cardinality(I)
    PROVE  /\ Nth(I, v, k) \in Nat
           /\ \E i \in I : v[i] = Nth(I, v, k)
           /\ Cardinality(Under(I, v, Nth(I, v, k))) < k
           /\ k <= Cardinality(AtMost(I, v, Nth(I, v, k)))
<1>1. N \in Nat /\ I \subseteq 1..N /\ \A i \in I : v[i] \in Nat
  BY DEF Valued
<1> DEFINE w == [i \in 1..N |-> IF i \in I THEN v[i] ELSE 0]
           U == {x \in Nat : k <= Cardinality(AtMost(I, v, x))}
<1>2. w \in [1..N -> Nat]
  BY <1>1
<1>3. PICK b \in Nat : \A i \in 1..N : w[i] <= b
  BY <1>1, <1>2, BoundExists
<1>4. AtMost(I, v, b) = I
  BY <1>1, <1>3 DEF AtMost
<1>5. U \subseteq Nat /\ U # {}
  BY <1>4
<1>6. PICK x \in U : \A y \in U : x <= y
  BY <1>5, LeastExists
<1>7. x \in Nat /\ k <= Cardinality(AtMost(I, v, x))
  BY <1>6
<1>8. Cardinality(Under(I, v, x)) < k
  <2>1. CASE x = 0
    <3>1. Under(I, v, x) = {}
      <4>1. \A i \in I : ~(v[i] < x)
        BY <1>1, <2>1
      <4> QED
        BY <4>1 DEF Under
    <3> QED
      BY <3>1, FS_EmptySet
  <2>2. CASE x # 0
    <3>1. x - 1 \in Nat /\ ~(x <= x - 1)
      BY <1>7, <2>2
    <3>2. x - 1 \notin U
      BY <1>6, <3>1
    <3>3. ~(k <= Cardinality(AtMost(I, v, x - 1)))
      BY <3>1, <3>2
    <3>4. Under(I, v, x) = AtMost(I, v, x - 1)
      <4>1. \A i \in I : v[i] < x <=> v[i] <= x - 1
        BY <1>1, <1>7, <3>1
      <4> QED
        BY <4>1 DEF Under, AtMost
    <3>5. Cardinality(AtMost(I, v, x - 1)) \in Nat
      BY <1>1, SomeRows DEF AtMost
    <3> QED
      BY <3>3, <3>4, <3>5
  <2> QED
    BY <2>1, <2>2
<1>9. \E i \in I : v[i] = x
  <2>1. Cardinality(Under(I, v, x)) \in Nat /\ Cardinality(AtMost(I, v, x)) \in Nat
    BY <1>1, SomeRows DEF Under, AtMost
  <2>2. Under(I, v, x) # AtMost(I, v, x)
    BY <1>7, <1>8, <2>1
  <2>3. PICK i \in I : v[i] <= x /\ ~(v[i] < x)
    <3> SUFFICES ASSUME \A i \in I : v[i] <= x => v[i] < x PROVE FALSE
      OBVIOUS
    <3>1. \A i \in I : v[i] <= x <=> v[i] < x
      BY <1>1, <1>7
    <3> QED
      BY <2>2, <3>1 DEF Under, AtMost
  <2> QED
    BY <1>1, <1>7, <2>3
<1> HIDE DEF U, w
<1>10. /\ x \in {v[i] : i \in I}
       /\ Cardinality({i \in I : v[i] < x}) < k /\ k <= Cardinality({i \in I : v[i] <= x})
  BY <1>7, <1>8, <1>9 DEF Under, AtMost
<1> DEFINE z == Nth(I, v, k)
<1>11. /\ z \in {v[i] : i \in I}
       /\ Cardinality({i \in I : v[i] < z}) < k /\ k <= Cardinality({i \in I : v[i] <= z})
  BY <1>10 DEF Nth
<1> HIDE DEF z
<1>12. /\ z \in Nat /\ \E i \in I : v[i] = z
       /\ Cardinality(Under(I, v, z)) < k /\ k <= Cardinality(AtMost(I, v, z))
  BY <1>1, <1>11 DEF Under, AtMost
<1> QED
  BY <1>12 DEF z

\* A later value is no less.
LEMMA NthRises ==
    ASSUME NEW I, NEW v, NEW N, Valued(I, v, N),
           NEW k \in Nat, NEW l \in Nat, 1 <= k, k <= l, l <= Cardinality(I)
    PROVE  Nth(I, v, k) <= Nth(I, v, l)
<1> DEFINE a == Nth(I, v, k)
           b == Nth(I, v, l)
<1>1. N \in Nat /\ I \subseteq 1..N /\ \A i \in I : v[i] \in Nat
  BY DEF Valued
<1>2. Cardinality(I) \in Nat /\ k <= Cardinality(I) /\ 1 <= l
  <2>1. I \subseteq I
    OBVIOUS
  <2>2. Cardinality(I) \in Nat
    BY <1>1, <2>1, SomeRows
  <2> QED
    BY <2>2
<1>3. a \in Nat /\ Cardinality(Under(I, v, a)) < k
  BY <1>2, NthIs
<1>4. b \in Nat /\ l <= Cardinality(AtMost(I, v, b))
  BY <1>2, NthIs
<1> HIDE DEF a, b
<1>5. ASSUME b < a PROVE FALSE
  <2>1. AtMost(I, v, b) \subseteq Under(I, v, a) /\ Under(I, v, a) \subseteq I
    <3>1. \A i \in I : v[i] <= b => v[i] < a
      BY <1>1, <1>3, <1>4, <1>5
    <3> QED
      BY <3>1 DEF AtMost, Under
  <2>2. /\ Cardinality(AtMost(I, v, b)) <= Cardinality(Under(I, v, a))
        /\ Cardinality(AtMost(I, v, b)) \in Nat /\ Cardinality(Under(I, v, a)) \in Nat
    <3>1. Under(I, v, a) \subseteq 1..N
      BY <1>1, <2>1
    <3> QED
      BY <1>1, <2>1, <3>1, SomeRows
  <2> QED
    BY <1>3, <1>4, <2>2
<1>6. a <= b
  BY <1>3, <1>4, <1>5
<1> QED
  BY <1>6 DEF a, b

\* What lies between two values, at most half above the one and under the other, is a median.
LEMMA MedianBetween ==
    ASSUME NEW I, NEW v, NEW N, Valued(I, v, N), NEW a \in Nat, NEW b \in Nat, NEW x \in Nat,
           \E i \in I : v[i] = a, \E j \in I : v[j] = b, a <= x, x <= b,
           2 * Cardinality(AtMost(I, v, a)) >= Cardinality(I),
           2 * Cardinality(Under(I, v, b)) <= Cardinality(I)
    PROVE  IsMedian(x, I, v)
<1>1. N \in Nat /\ I \subseteq 1..N /\ \A i \in I : v[i] \in Nat
  BY DEF Valued
<1> DEFINE Low == {i \in I : v[i] <= x}
           High == {i \in I : v[i] >= x}
           A == AtMost(I, v, a)
           B == I \ Under(I, v, b)
<1>2. A \subseteq Low /\ Low \subseteq I /\ Low \subseteq 1..N
  <2>1. ASSUME NEW i \in I, v[i] <= a PROVE v[i] <= x
    <3>1. v[i] \in Nat
      BY <1>1
    <3> DEFINE y == v[i]
    <3>2. y \in Nat /\ y <= a
      BY <2>1, <3>1
    <3> HIDE DEF y
    <3>3. y <= x
      BY <3>2
    <3> QED
      BY <3>3 DEF y
  <2> QED
    BY <1>1, <2>1 DEF AtMost
<1>3. B \subseteq High /\ High \subseteq I /\ High \subseteq 1..N
  <2>1. ASSUME NEW i \in I, ~(v[i] < b) PROVE v[i] >= x
    <3>1. v[i] \in Nat
      BY <1>1
    <3> DEFINE y == v[i]
    <3>2. y \in Nat /\ ~(y < b)
      BY <2>1, <3>1
    <3> HIDE DEF y
    <3>3. y >= x
      BY <3>2
    <3> QED
      BY <3>3 DEF y
  <2> QED
    BY <1>1, <2>1 DEF Under
<1>4. /\ Cardinality(A) <= Cardinality(Low) /\ Cardinality(A) \in Nat /\ Cardinality(Low) \in Nat
      /\ Cardinality(B) <= Cardinality(High) /\ Cardinality(B) \in Nat
      /\ Cardinality(High) \in Nat
  <2> HIDE DEF A, B, Low, High
  <2> QED
    BY <1>1, <1>2, <1>3, SomeRows
<1>5. /\ Cardinality(B) = Cardinality(I) - Cardinality(Under(I, v, b))
      /\ Cardinality(I) \in Nat /\ Cardinality(Under(I, v, b)) \in Nat
  <2>1. Under(I, v, b) \subseteq I
    BY DEF Under
  <2> QED
    BY <1>1, <2>1, SomeRows
<1>6. \E i, j \in I : v[i] <= x /\ x <= v[j]
  BY <1>1
<1>7. 2 * Cardinality(Low) >= Cardinality(I) /\ 2 * Cardinality(High) >= Cardinality(I)
  <2> HIDE DEF B, Low, High
  <2>1. 2 * Cardinality(A) >= Cardinality(I)
    OBVIOUS
  <2> HIDE DEF A
  <2> QED
    BY <1>4, <1>5, <2>1
<1> QED
  BY <1>6, <1>7 DEF IsMedian

\* The middle of some numbers is a median of theirs, however it is rounded.
LEMMA MiddleIsMedian ==
    ASSUME NEW I, NEW v, NEW N, Valued(I, v, N), I # {}, NEW carry \in {0, 1}
    PROVE  Middle(I, v, carry) \in Nat /\ IsMedian(Middle(I, v, carry), I, v)
<1>1. N \in Nat /\ I \subseteq 1..N
  BY DEF Valued
<1> DEFINE n == Cardinality(I)
           mid == n \div 2
<1>2. n \in Nat /\ n # 0
  BY <1>1, SomeRows, FS_EmptySet
<1>3. /\ \A k \in Nat : Cardinality(AtMost(I, v, k)) \in Nat
      /\ \A k \in Nat : Cardinality(Under(I, v, k)) \in Nat
  BY <1>1, SomeRows DEF AtMost, Under
<1>4. CASE n % 2 = 1
  <2>1. mid + 1 \in Nat /\ 1 <= mid + 1 /\ mid + 1 <= n /\ 2 * mid + 1 = n
    BY <1>2, <1>4
  <2> DEFINE x == Nth(I, v, mid + 1)
             k == mid + 1
  <2>2. k \in Nat /\ 1 <= k /\ k <= n /\ 2 * k = n + 1 /\ x = Nth(I, v, k)
    <3>1. mid \in Nat
      BY <1>2
    <3> HIDE DEF mid, n
    <3>2. k \in Nat /\ 1 <= k /\ k <= n /\ 2 * k = n + 1
      BY <1>2, <2>1, <3>1
    <3> QED
      BY <3>2
  <2>3. Middle(I, v, carry) = x
    BY <1>4 DEF Middle
  <2> HIDE DEF x, k, mid
  <2>4. /\ x \in Nat /\ \E i \in I : v[i] = x
        /\ Cardinality(Under(I, v, x)) < k /\ k <= Cardinality(AtMost(I, v, x))
    BY <2>2, NthIs
  <2>5. 2 * Cardinality(AtMost(I, v, x)) >= n /\ 2 * Cardinality(Under(I, v, x)) <= n
    <3> HIDE DEF n
    <3> QED
      BY <1>2, <1>3, <2>2, <2>4
  <2>6. IsMedian(x, I, v)
    BY <2>4, <2>5, MedianBetween
  <2> QED
    BY <2>3, <2>4, <2>6
<1>5. CASE n % 2 # 1
  <2> DEFINE k == mid
             l == mid + 1
             a == Nth(I, v, mid)
             b == Nth(I, v, mid + 1)
             x == (a + b + carry) \div 2
  <2>1. /\ k \in Nat /\ l \in Nat /\ 1 <= k /\ k <= l /\ l <= n /\ 2 * k = n /\ l = k + 1
        /\ a = Nth(I, v, k) /\ b = Nth(I, v, l)
    <3>1. 2 * mid = n /\ mid \in Nat
      BY <1>2, <1>5
    <3> HIDE DEF mid, n
    <3> QED
      BY <1>2, <3>1
  <2>2. Middle(I, v, carry) = x
    BY <1>5 DEF Middle
  <2> HIDE DEF a, b, k, l, mid
  <2>3. k <= n /\ 1 <= l
    <3> HIDE DEF n
    <3> QED
      BY <1>2, <2>1
  <2>4. /\ a \in Nat /\ \E i \in I : v[i] = a
        /\ k <= Cardinality(AtMost(I, v, a))
    BY <2>1, <2>3, NthIs
  <2>5. /\ b \in Nat /\ \E i \in I : v[i] = b
        /\ Cardinality(Under(I, v, b)) < l
    BY <2>1, <2>3, NthIs
  <2>6. a <= b
    BY <2>1, NthRises
  <2>7. x \in Nat /\ a <= x /\ x <= b
    BY <2>4, <2>5, <2>6
  <2> HIDE DEF x
  <2>8. 2 * Cardinality(AtMost(I, v, a)) >= n /\ 2 * Cardinality(Under(I, v, b)) <= n
    <3> HIDE DEF n
    <3> QED
      BY <1>2, <1>3, <2>1, <2>4, <2>5
  <2>9. IsMedian(x, I, v)
    BY <2>4, <2>5, <2>7, <2>8, MedianBetween
  <2> QED
    BY <2>2, <2>7, <2>9
<1> QED
  BY <1>4, <1>5

\* The nearest rank is one: as many as it takes do not exceed it, and no fewer would do.
LEMMA RankIs ==
    ASSUME NEW I, NEW v, NEW N, Valued(I, v, N), I # {}, NEW percent \in {50, 95}
    PROVE  /\ NearestRank(I, v, percent) \in Nat
           /\ IsRank(NearestRank(I, v, percent), I, v, percent)
<1>1. N \in Nat /\ I \subseteq 1..N
  BY DEF Valued
<1> DEFINE n == Cardinality(I)
           k == (percent * n + 99) \div 100
           x == Nth(I, v, k)
<1>2. n \in Nat /\ n # 0
  BY <1>1, SomeRows, FS_EmptySet
<1>3. /\ \A y \in Nat : Cardinality(AtMost(I, v, y)) \in Nat
      /\ \A y \in Nat : Cardinality(Under(I, v, y)) \in Nat
  BY <1>1, SomeRows DEF AtMost, Under
<1>4. /\ k \in Nat /\ 1 <= k /\ k <= n
      /\ 100 * k >= percent * n /\ 100 * (k - 1) < percent * n
  <2> HIDE DEF n
  <2>1. CASE percent = 50
    BY <1>2, <2>1
  <2>2. CASE percent = 95
    BY <1>2, <2>2
  <2> QED
    BY <2>1, <2>2
<1>5. NearestRank(I, v, percent) = x
  BY DEF NearestRank
<1> HIDE DEF x, k
<1>6. /\ x \in Nat /\ \E i \in I : v[i] = x
      /\ Cardinality(Under(I, v, x)) < k /\ k <= Cardinality(AtMost(I, v, x))
  BY <1>4, NthIs DEF x
<1>7. /\ 100 * Cardinality(AtMost(I, v, x)) >= percent * n
      /\ 100 * Cardinality(Under(I, v, x)) < percent * n
  <2>1. percent * n \in Nat
    BY <1>2
  <2> HIDE DEF n
  <2> QED
    BY <1>2, <1>3, <1>4, <1>6, <2>1
<1> QED
  BY <1>5, <1>6, <1>7 DEF IsRank, AtMost, Under

\* The nearest rank of a higher percentage is no less.
LEMMA RanksRise ==
    ASSUME NEW I, NEW v, NEW N, Valued(I, v, N)
    PROVE  NearestRank(I, v, 50) <= NearestRank(I, v, 95)
<1>1. N \in Nat /\ I \subseteq 1..N
  BY DEF Valued
<1>2. CASE I = {}
  BY <1>2 DEF NearestRank
<1>3. CASE I # {}
  <2> DEFINE n == Cardinality(I)
             k == (50 * n + 99) \div 100
             l == (95 * n + 99) \div 100
  <2>1. n \in Nat /\ n # 0
    BY <1>1, <1>3, SomeRows, FS_EmptySet
  <2>2. k \in Nat /\ l \in Nat /\ 1 <= k /\ k <= l /\ l <= n
    <3> HIDE DEF n
    <3> QED
      BY <2>1
  <2>3. /\ NearestRank(I, v, 50) = Nth(I, v, k)
        /\ NearestRank(I, v, 95) = Nth(I, v, l)
    BY <1>3 DEF NearestRank
  <2> HIDE DEF k, l
  <2> QED
    BY <2>2, <2>3, NthRises
<1> QED
  BY <1>2, <1>3

\* What the quotient of a division is.
LEMMA Quotient ==
    ASSUME NEW n \in Nat, NEW d \in Nat, d # 0
    PROVE  n \div d \in Nat /\ (n \div d) * d <= n /\ n < (n \div d) * d + d
  OBVIOUS

\* A share is the nearest number of basis points, and no more than all of them.
LEMMA ShareIs ==
    ASSUME NEW part \in Nat, NEW whole \in Nat, whole # 0, part <= whole, MaxBps \in Nat
    PROVE  Share(part, whole) \in 0..MaxBps /\ IsShare(Share(part, whole), part, whole)
<1> DEFINE p == part * MaxBps
           w == whole * MaxBps
           x == Share(part, whole)
           y == x * whole
<1>1. p \in Nat /\ w \in Nat /\ p <= w
  OBVIOUS
<1>2. 2 * part * MaxBps = 2 * p /\ 2 * whole \in Nat /\ 2 * whole # 0
  OBVIOUS
<1> HIDE DEF p
<1>3. /\ x \in Nat /\ x * (2 * whole) <= 2 * p + whole
      /\ 2 * p + whole < x * (2 * whole) + 2 * whole
  <2> DEFINE e == 2 * p + whole
             d == 2 * whole
  <2>1. e \in Nat /\ d \in Nat /\ d # 0
    BY <1>1
  <2>2. x = e \div d
    BY <1>2 DEF Share
  <2> HIDE DEF x, e, d
  <2>3. x \in Nat /\ x * d <= e /\ e < x * d + d
    BY <2>1, <2>2, Quotient
  <2> QED
    BY <2>3 DEF e, d
<1> HIDE DEF x
<1>4. y \in Nat /\ x * (2 * whole) = 2 * y
  BY <1>3
<1>5. x <= MaxBps
  <2> SUFFICES ASSUME x >= MaxBps + 1 PROVE FALSE
    BY <1>3
  <2>1. y >= (MaxBps + 1) * whole
    BY <1>3
  <2>2. (MaxBps + 1) * whole = w + whole
    OBVIOUS
  <2> HIDE DEF y, w
  <2> QED
    BY <1>1, <1>3, <1>4, <2>1, <2>2
<1>6. 2 * (x * whole - part * MaxBps) \in (-whole)..whole
  <2>1. 2 * (y - p) \in (-whole)..whole
    <3> HIDE DEF y
    <3> QED
      BY <1>1, <1>3, <1>4
  <2> QED
    BY <2>1 DEF p
<1> QED
  BY <1>3, <1>5, <1>6 DEF IsShare, x

\* A row falls short by no more than all of the quoted rate.
LEMMA SlippageIs ==
    ASSUME RefreshAssumption, NEW o, o.delivered \in Nat
    PROVE  Slippage(o) \in 0..MaxBps
<1> DEFINE q == MaxBps \div Quoted
           g == Quoted - o.delivered
<1>1. Quoted \in Nat /\ Quoted # 0 /\ MaxBps \in Nat
  BY DEF RefreshAssumption
<1>2. q \in Nat /\ q * Quoted <= MaxBps
  BY <1>1, Quotient
<1> HIDE DEF q
<1>3. CASE o.delivered >= Quoted
  BY <1>1, <1>3 DEF Slippage
<1>4. CASE ~(o.delivered >= Quoted)
  <2>1. g \in Nat /\ g <= Quoted
    BY <1>1, <1>4
  <2>2. Slippage(o) = g * q
    BY <1>4 DEF Slippage, q
  <2> HIDE DEF g
  <2>3. g * q \in Nat /\ g * q <= Quoted * q /\ Quoted * q = q * Quoted
    BY <1>1, <1>2, <2>1
  <2> QED
    BY <1>1, <1>2, <2>2, <2>3
<1> QED
  BY <1>3, <1>4

-----------------------------------------------------------------------------
(* What the derivations give.                                              *)

\* The rows and samples are typed, and the phases have read no more than there are.
RowsOK ==
    /\ attested \in Seq(Outcome) /\ marked \in 0..Len(attested)
    /\ samples \in Seq(Sample)
    /\ asOf \in [Phase -> Nat]
    /\ asOf["rates"] <= Len(attested) /\ asOf["metrics"] <= Len(attested)
    /\ asOf["signals"] <= Len(samples)

\* What a row and a sample hold.
LEMMA RowFacts ==
    ASSUME RefreshAssumption, RowsOK
    PROVE  /\ Len(attested) \in Nat /\ DOMAIN attested = 1..Len(attested)
           /\ \A i \in 1..Len(attested) : attested[i].delivered \in Nat /\ attested[i].settle \in Nat
           /\ Len(samples) \in Nat /\ DOMAIN samples = 1..Len(samples)
           /\ \A i \in 1..Len(samples) : samples[i].latency \in Nat
<1>1. \A i \in 1..Len(attested) : attested[i] \in Outcome
  BY DEF RowsOK
<1>2. \A i \in 1..Len(samples) : samples[i] \in Sample
  BY DEF RowsOK
<1> QED
  BY <1>1, <1>2 DEF RowsOK, RefreshAssumption

\* The rows that give rows I of corridor c a rate.
PricedOf(I, c) == Priced({i \in I : attested[i].corridor = c})

\* A derived rate is the median of the delivered ones, and there is none without any.
LEMMA RateDerived ==
    ASSUME RefreshAssumption, RowsOK, NEW I, I \subseteq 1..Len(attested), NEW c
    PROVE  \/ PricedOf(I, c) = {} /\ DeriveRate(I, c) = {}
           \/ \E x \in Nat \ {0} : /\ DeriveRate(I, c) = {x}
                                   /\ IsMedian(x, PricedOf(I, c), Rates(PricedOf(I, c)))
<1> DEFINE P == PricedOf(I, c)
           x == Middle(P, Rates(P), 0)
<1>1. P \subseteq 1..Len(attested) /\ \A i \in P : attested[i].delivered \in Nat \ {0}
  <2>1. ASSUME NEW i \in P PROVE i \in 1..Len(attested) /\ attested[i].delivered > 0
    BY DEF PricedOf, Priced
  <2>2. ASSUME NEW i \in P PROVE attested[i].delivered \in Nat \ {0}
    <3>1. attested[i].delivered \in Nat /\ attested[i].delivered > 0
      BY <2>1, RowFacts
    <3> QED
      BY <3>1
  <2> QED
    BY <2>1, <2>2
<1>2. DeriveRate(I, c) = IF P = {} THEN {} ELSE {x}
  BY DEF DeriveRate, PricedOf
<1> HIDE DEF P
<1>3. \A i \in P : Rates(P)[i] \in Nat \ {0}
  BY <1>1 DEF Rates
<1>4. Valued(P, Rates(P), Len(attested))
  BY <1>1, <1>3, RowFacts DEF Valued
<1>5. CASE P = {}
  BY <1>2, <1>5 DEF P
<1>6. CASE P # {}
  <2>1. x \in Nat /\ IsMedian(x, P, Rates(P))
    BY <1>4, <1>6, MiddleIsMedian
  <2> HIDE DEF x
  <2>2. \E i \in P : Rates(P)[i] <= x
    BY <2>1 DEF IsMedian
  <2>3. x # 0
    BY <1>3, <2>1, <2>2
  <2> QED
    BY <1>2, <1>6, <2>1, <2>3 DEF P
<1> QED
  BY <1>5, <1>6

\* The metrics of a pair are measured off its rows, and there are none without any.
LEMMA MetricsDerived ==
    ASSUME RefreshAssumption, RowsOK, NEW I, I \subseteq 1..Len(attested), NEW p
    PROVE  \/ OfPair(I, p) = {} /\ DeriveMetrics(I, p) = {}
           \/ \E m \in Figures : /\ DeriveMetrics(I, p) = {m}
                                 /\ Measures(m, OfPair(I, p))
<1> DEFINE G == OfPair(I, p)
           D == Completed(G)
           P == Priced(D)
           T == Timed(D)
           fill == Share(Cardinality(D), Cardinality(G))
           slip == MiddleOrZero(P, Slippages(P))
           settle == MiddleOrZero(T, Settles(T))
           n == Cardinality(G)
           m == [fill |-> fill, slippage |-> slip, settle |-> settle, n |-> n]
<1>1. G \subseteq 1..Len(attested)
  BY DEF OfPair
<1>2. DeriveMetrics(I, p) = IF G = {} THEN {} ELSE {m}
  BY DEF DeriveMetrics
<1> HIDE DEF G
<1>3. D \subseteq G
  BY DEF Completed
<1> HIDE DEF D
<1>4. P \subseteq D /\ T \subseteq D
  BY DEF Priced, Timed
<1> HIDE DEF P, T
<1>5. CASE G = {}
  BY <1>2, <1>5 DEF G
<1>6. CASE G # {}
  <2>1. n \in Nat /\ n # 0 /\ Cardinality(D) \in Nat /\ Cardinality(D) <= n
    BY <1>1, <1>3, <1>6, RowFacts, SomeRows, FS_EmptySet
  <2>2. MaxBps \in Nat
    BY DEF RefreshAssumption
  <2>3. fill \in 0..MaxBps /\ IsShare(fill, Cardinality(D), n)
    <3> HIDE DEF n
    <3>1. Share(Cardinality(D), n) \in 0..MaxBps
          /\ IsShare(Share(Cardinality(D), n), Cardinality(D), n)
      BY <2>1, <2>2, ShareIs
    <3> QED
      BY <3>1 DEF n
  <2>4. /\ settle \in Nat /\ (T = {} => settle = 0)
        /\ (T = {} \/ IsMedian(settle, T, Settles(T)))
    <3>1. Valued(T, Settles(T), Len(attested))
      BY <1>1, <1>3, <1>4, RowFacts DEF Valued, Settles
    <3>2. CASE T = {}
      BY <3>2 DEF MiddleOrZero
    <3>3. CASE T # {}
      <4>1. settle = Middle(T, Settles(T), 1)
        BY <3>3 DEF MiddleOrZero
      <4> QED
        BY <3>1, <3>3, <4>1, MiddleIsMedian
    <3> QED
      BY <3>2, <3>3
  <2>5. /\ slip \in 0..MaxBps /\ (P = {} => slip = 0)
        /\ (P = {} \/ IsMedian(slip, P, Slippages(P)))
    <3>1. \A i \in P : Slippages(P)[i] \in 0..MaxBps
      BY <1>1, <1>3, <1>4, RowFacts, SlippageIs DEF Slippages
    <3>2. \A i \in P : Slippages(P)[i] \in Nat /\ Slippages(P)[i] <= MaxBps
      BY <2>2, <3>1
    <3>3. Valued(P, Slippages(P), Len(attested))
      BY <1>1, <1>3, <1>4, <3>2, RowFacts DEF Valued
    <3>4. CASE P = {}
      BY <2>2, <3>4 DEF MiddleOrZero
    <3>5. CASE P # {}
      <4>1. slip = Middle(P, Slippages(P), 1)
        BY <3>5 DEF MiddleOrZero
      <4>2. slip \in Nat /\ IsMedian(slip, P, Slippages(P))
        BY <3>3, <3>5, <4>1, MiddleIsMedian
      <4> HIDE DEF slip
      <4>3. \E j \in P : slip <= Slippages(P)[j]
        BY <4>2 DEF IsMedian
      <4>4. slip <= MaxBps
        BY <2>2, <3>2, <4>2, <4>3
      <4> QED
        BY <2>2, <3>5, <4>2, <4>4
    <3> QED
      BY <3>4, <3>5
  <2> HIDE DEF fill, slip, settle, n
  <2>6. m \in Figures
    BY <2>1, <2>3, <2>4, <2>5 DEF Figures
  <2>7. m.fill = fill /\ m.slippage = slip /\ m.settle = settle /\ m.n = n
    OBVIOUS
  <2> HIDE DEF m
  <2>8. Measures(m, G)
    BY <2>3, <2>4, <2>5, <2>7 DEF Measures, D, P, T, n
  <2> QED
    BY <1>2, <1>6, <2>6, <2>8 DEF G
<1> QED
  BY <1>5, <1>6

\* The signals of a domain report its probes, and there are none without any of uptime.
LEMMA SignalsDerived ==
    ASSUME RefreshAssumption, RowsOK, NEW I, I \subseteq 1..Len(samples), NEW a
    PROVE  \/ Probed(I, a, "uptime") = {} /\ DeriveSignals(I, a) = {}
           \/ \E s \in Signals :
                 /\ DeriveSignals(I, a) = {s}
                 /\ Reports(s, Probed(I, a, "uptime"), Reached(Probed(I, a, "quote")))
                 /\ s.p50 <= s.p95
<1> DEFINE U == Probed(I, a, "uptime")
           Y == Reached(Probed(I, a, "quote"))
           up == Share(Cardinality(Reached(U)), Cardinality(U))
           p50 == NearestRank(Y, Latencies(Y), 50)
           p95 == NearestRank(Y, Latencies(Y), 95)
           s == [uptime |-> up, p50 |-> p50, p95 |-> p95]
<1>1. U \subseteq 1..Len(samples) /\ Y \subseteq 1..Len(samples)
  BY DEF Probed, Reached
<1>2. DeriveSignals(I, a) = IF U = {} THEN {} ELSE {s}
  BY DEF DeriveSignals
<1> HIDE DEF U, Y
<1>3. CASE U = {}
  BY <1>2, <1>3 DEF U
<1>4. CASE U # {}
  <2>1. Reached(U) \subseteq U
    BY DEF Reached
  <2>2. /\ Cardinality(U) \in Nat /\ Cardinality(U) # 0
        /\ Cardinality(Reached(U)) \in Nat /\ Cardinality(Reached(U)) <= Cardinality(U)
    BY <1>1, <1>4, <2>1, RowFacts, SomeRows, FS_EmptySet
  <2>3. MaxBps \in Nat
    BY DEF RefreshAssumption
  <2>4. up \in 0..MaxBps /\ IsShare(up, Cardinality(Reached(U)), Cardinality(U))
    BY <2>2, <2>3, ShareIs
  <2>5. Valued(Y, Latencies(Y), Len(samples))
    BY <1>1, RowFacts DEF Valued, Latencies
  <2>6. p50 <= p95
    BY <2>5, RanksRise
  <2>7. /\ p50 \in Nat /\ p95 \in Nat
        /\ IF Y = {} THEN p50 = 0 /\ p95 = 0
           ELSE /\ IsRank(p50, Y, Latencies(Y), 50)
                /\ IsRank(p95, Y, Latencies(Y), 95)
    <3>1. CASE Y = {}
      BY <3>1 DEF NearestRank
    <3>2. CASE Y # {}
      BY <2>5, <3>2, RankIs
    <3> QED
      BY <3>1, <3>2
  <2> HIDE DEF up, p50, p95
  <2>8. s \in Signals
    BY <2>4, <2>7 DEF Signals
  <2>9. s.uptime = up /\ s.p50 = p50 /\ s.p95 = p95
    OBVIOUS
  <2> HIDE DEF s
  <2>10. Reports(s, U, Y)
    BY <2>4, <2>7, <2>9 DEF Reports
  <2> QED
    BY <1>2, <1>4, <2>6, <2>8, <2>9, <2>10 DEF U, Y
<1> QED
  BY <1>3, <1>4

-----------------------------------------------------------------------------
(* The invariant of a tick.                                                *)

\* At most one figure, and of its type.
Held(r, S) == r = {} \/ \E x \in S : r = {x}

\* What the contract holds of each key.
OracleOK ==
    /\ DOMAIN rate = Corridor /\ \A c \in Corridor : Held(rate[c], Nat \ {0})
    /\ DOMAIN metrics = Pair /\ \A p \in Pair : Held(metrics[p], Figures)
    /\ DOMAIN signals = RatedAnchor /\ \A a \in RatedAnchor : Held(signals[a], Signals)

\* What is to be written is one figure of a key of the phase.
Figured(K, S) == \A k \in DOMAIN unwritten : k \in K /\ \E x \in S : unwritten[k] = {x}
TodoOK ==
    /\ stage = "rates" => Figured(Target, Nat \ {0})
    /\ stage = "metrics" => Figured(Pair, Figures)
    /\ stage = "signals" => Figured(ProbeDomain, Signals)

RefreshTyped ==
    /\ RowsOK /\ OracleOK /\ TodoOK
    /\ stage \in {"idle"} \cup Phase \cup {Reading[phase] : phase \in Phase}
    /\ rFaults \in 0..MaxRefreshFaults /\ clean \in BOOLEAN

\* The rows and samples behind the figures of a key, as the phase read them.
RateRows(c) == PricedOf(Recent("rates"), c)
MetricsRows(p) == OfPair(Recent("metrics"), p)

\* A key still to be written: its figures are derived from those rows.
RateDue(c) ==
    /\ stage = "rates" /\ c \in DOMAIN unwritten
    /\ \A x \in unwritten[c] : IsMedian(x, RateRows(c), Rates(RateRows(c)))
MetricsDue(p) ==
    /\ stage = "metrics" /\ p \in DOMAIN unwritten
    /\ \A m \in unwritten[p] : Measures(m, MetricsRows(p))

\* Of a domain, moreover, those with probes that are done sort before it.
Passed(d) ==
    \A e \in ProbeDomain : UptimeRows(e) # {} /\ e \notin DOMAIN unwritten => e < d
SignalsDue(d) ==
    /\ stage = "signals" /\ d \in DOMAIN unwritten
    /\ UptimeRows(d) # {} /\ Passed(d)
    /\ \A s \in unwritten[d] : Reports(s, UptimeRows(d), QuoteRows(d)) /\ s.p50 <= s.p95

\* While nothing failed, what a phase has to do is due, and the rest is current.
RateStands(c) ==
    IF stage = "rates" /\ c \in DOMAIN unwritten THEN RateDue(c) ELSE RateIsCurrent(c)
MetricsStands(p) ==
    IF stage = "metrics" /\ p \in DOMAIN unwritten THEN MetricsDue(p) ELSE MetricsAreCurrent(p)
SignalsStands(d) ==
    IF stage = "signals" /\ d \in DOMAIN unwritten THEN SignalsDue(d) ELSE SignalsAreCurrent(d)
RatesStand == \A c \in Target : RateStands(c)
MetricsStand == \A p \in Pair : MetricsStands(p)
SignalsStand == \A d \in ProbeDomain : SignalsStands(d)
RefreshStands ==
    clean =>
        /\ stage # "read rates"
        /\ RatesStand
        /\ stage \notin {"rates", "read metrics"} => MetricsStand
        /\ stage \notin {"rates", "read metrics", "metrics", "read signals"} => SignalsStand

RefreshInv == RefreshTyped /\ RefreshStands

\* The first rows and samples are what they were.
RowsStay ==
    /\ \A i \in 1..Len(attested) : attested'[i] = attested[i]
    /\ \A i \in 1..Len(samples) : samples'[i] = samples[i]

\* What is said of some rows stays true of them.
LEMMA SayingsStay ==
    ASSUME NEW I, \A i \in I : attested'[i] = attested[i]
    PROVE  /\ Completed(I)' = Completed(I) /\ Priced(I)' = Priced(I) /\ Timed(I)' = Timed(I)
           /\ Rates(I)' = Rates(I) /\ Settles(I)' = Settles(I) /\ Slippages(I)' = Slippages(I)
<1>1. Completed(I)' = Completed(I)
  BY DEF Completed
<1>2. Priced(I)' = Priced(I) /\ Timed(I)' = Timed(I)
  BY DEF Priced, Timed
<1>3. Rates(I)' = Rates(I) /\ Settles(I)' = Settles(I)
  BY DEF Rates, Settles
<1>4. Slippages(I)' = Slippages(I)
  BY DEF Slippages, Slippage
<1> QED
  BY <1>1, <1>2, <1>3, <1>4

\* So does a measure, and what is too slow.
LEMMA MeasuresStay ==
    ASSUME NEW I, \A i \in I : attested'[i] = attested[i]
    PROVE  /\ \A m : Measures(m, I)' <=> Measures(m, I)
           /\ TooSlowFor(I)' <=> TooSlowFor(I)
<1>1. PICK D : D = Completed(I)
  OBVIOUS
<1>2. PICK P : P = Priced(D)
  OBVIOUS
<1>3. PICK T : T = Timed(D)
  OBVIOUS
<1>4. D \subseteq I /\ P \subseteq D /\ T \subseteq D
  BY <1>1, <1>2, <1>3 DEF Completed, Priced, Timed
<1>5. Completed(I)' = D
  BY <1>1, SayingsStay
<1>6. Priced(D)' = P /\ Timed(D)' = T
  BY <1>2, <1>3, <1>4, SayingsStay
<1>7. Slippages(P)' = Slippages(P)
  BY <1>4, SayingsStay
<1>8. Settles(T)' = Settles(T)
  BY <1>4, SayingsStay
<1>9. PICK vs : vs = Settles(T)
  OBVIOUS
<1>10. PICK vp : vp = Slippages(P)
  OBVIOUS
<1> DEFINE Said(m) ==
               /\ m.n = Cardinality(I) /\ IsShare(m.fill, Cardinality(D), m.n)
               /\ IF T = {} THEN m.settle = 0 ELSE IsMedian(m.settle, T, vs)
               /\ IF P = {} THEN m.slippage = 0 ELSE IsMedian(m.slippage, P, vp)
           Late == \E i, j \in T : \E x \in vs[i]..vs[j] : IsMedian(x, T, vs) /\ x > MaxSettle
<1>11. ASSUME NEW m PROVE Measures(m, I)' <=> Measures(m, I)
  <2>1. Measures(m, I) <=> Said(m)
    BY <1>1, <1>2, <1>3, <1>9, <1>10 DEF Measures
  <2>2. Measures(m, I)' <=> Said(m)
    BY <1>5, <1>6, <1>7, <1>8, <1>9, <1>10 DEF Measures
  <2> QED
    BY <2>1, <2>2
<1>12. TooSlowFor(I) <=> Late
  BY <1>1, <1>3, <1>9 DEF TooSlowFor
<1>13. TooSlowFor(I)' <=> Late
  BY <1>5, <1>6, <1>8, <1>9 DEF TooSlowFor
<1> QED
  BY <1>11, <1>12, <1>13

\* The rows behind the rate of a corridor are what they were.
LEMMA RateRowsStay ==
    ASSUME RefreshAssumption, RowsOK, RowsStay, asOf["rates"]' = asOf["rates"], NEW c
    PROVE  /\ RateRows(c)' = RateRows(c)
           /\ Rates(RateRows(c))' = Rates(RateRows(c))
<1>1. PICK I : I = RateRows(c)
  OBVIOUS
<1>2. asOf["rates"] \in Nat /\ asOf["rates"] <= Len(attested) /\ Len(attested) \in Nat
  BY RowFacts DEF RowsOK, Phase
<1>3. \A i \in 1..asOf["rates"] : attested'[i] = attested[i]
  BY <1>2 DEF RowsStay
<1>4. RateRows(c)' = I
  BY <1>1, <1>3 DEF RateRows, PricedOf, Priced, Recent
<1>5. I \subseteq 1..asOf["rates"]
  BY <1>1 DEF RateRows, PricedOf, Priced, Recent
<1>6. Rates(I)' = Rates(I)
  BY <1>3, <1>5, SayingsStay
<1> QED
  BY <1>1, <1>4, <1>6 DEF Rates

\* What RateIsCurrent asks of a held rate, for rows I that give v.
CurrentRate(r, I, v) ==
    I = {} \/ \E old \in r :
        \/ IsMedian(old, I, v)
        \/ \E i, j \in I : \E x \in v[i]..v[j] : IsMedian(x, I, v) /\ ~WithinBand(old, x)

\* RateIsCurrent, in those words.
LEMMA RateCurrency ==
    ASSUME NEW c
    PROVE  RateIsCurrent(c) <=> CurrentRate(rate[c], RateRows(c), Rates(RateRows(c)))
<1> DEFINE I == RateRows(c)
<1>1. Priced({i \in Recent("rates") : attested[i].corridor = c}) = I
  BY DEF RateRows, PricedOf
<1> HIDE DEF I
<1>2. RateIsCurrent(c) <=> CurrentRate(rate[c], I, Rates(I))
  BY <1>1 DEF RateIsCurrent, CurrentRate
<1> QED
  BY <1>2 DEF I

\* Also after a step.
LEMMA RateCurrencyNext ==
    ASSUME NEW c
    PROVE  (RateIsCurrent(c) <=> CurrentRate(rate[c], RateRows(c), Rates(RateRows(c))))'
  BY RateCurrency, PTL

\* A key that a step leaves alone is as current, or as due, as it was.
LEMMA RateStays ==
    ASSUME RefreshAssumption, RowsOK, RowsStay, asOf["rates"]' = asOf["rates"],
           NEW c, rate[c]' = rate[c]
    PROVE  /\ RateIsCurrent(c) => RateIsCurrent(c)'
           /\ RateDue(c) /\ stage' = stage /\ c \in DOMAIN unwritten' /\ unwritten[c]' = unwritten[c]
              => RateDue(c)'
<1>1. PICK I : I = RateRows(c)
  OBVIOUS
<1>2. PICK v : v = Rates(RateRows(c))
  OBVIOUS
<1>3. RateRows(c)' = I /\ Rates(RateRows(c))' = v
  BY <1>1, <1>2, RateRowsStay
<1>4. RateIsCurrent(c)' <=> CurrentRate(rate[c]', I, v)
  <2>1. (RateIsCurrent(c) <=> CurrentRate(rate[c], RateRows(c), Rates(RateRows(c))))'
    BY RateCurrencyNext
  <2> QED
    BY <1>3, <2>1
<1>5. RateIsCurrent(c) <=> CurrentRate(rate[c], I, v)
  BY <1>1, <1>2, RateCurrency
<1>6. RateDue(c) /\ stage' = stage /\ c \in DOMAIN unwritten' /\ unwritten[c]' = unwritten[c] => RateDue(c)'
  BY <1>1, <1>2, <1>3 DEF RateDue
<1> QED
  BY <1>4, <1>5, <1>6

\* What MetricsAreCurrent asks of the held metrics, in those words.
LEMMA MetricsCurrency ==
    ASSUME NEW p
    PROVE  MetricsAreCurrent(p) <=>
               \/ MetricsRows(p) = {} \/ TooSlowFor(MetricsRows(p))
               \/ \E m \in metrics[p] : Measures(m, MetricsRows(p))
<1> DEFINE I == MetricsRows(p)
<1>1. OfPair(Recent("metrics"), p) = I
  BY DEF MetricsRows
<1> HIDE DEF I
<1>2. MetricsAreCurrent(p) <=>
          I = {} \/ TooSlowFor(I) \/ \E m \in metrics[p] : Measures(m, I)
  BY <1>1 DEF MetricsAreCurrent
<1> QED
  BY <1>2 DEF I

\* Also after a step.
LEMMA MetricsCurrencyNext ==
    ASSUME NEW p
    PROVE  (MetricsAreCurrent(p) <=>
               \/ MetricsRows(p) = {} \/ TooSlowFor(MetricsRows(p))
               \/ \E m \in metrics[p] : Measures(m, MetricsRows(p)))'
  BY MetricsCurrency, PTL

\* A pair that a step leaves alone is as current, or as due, as it was.
LEMMA MetricsStay ==
    ASSUME RefreshAssumption, RowsOK, RowsStay, asOf["metrics"]' = asOf["metrics"],
           NEW p, metrics[p]' = metrics[p]
    PROVE  /\ MetricsAreCurrent(p) => MetricsAreCurrent(p)'
           /\ MetricsDue(p) /\ stage' = stage /\ p \in DOMAIN unwritten' /\ unwritten[p]' = unwritten[p]
              => MetricsDue(p)'
<1>1. PICK I : I = MetricsRows(p)
  OBVIOUS
<1>2. asOf["metrics"] \in Nat /\ asOf["metrics"] <= Len(attested) /\ Len(attested) \in Nat
  BY RowFacts DEF RowsOK, Phase
<1>3. \A i \in 1..asOf["metrics"] : attested'[i] = attested[i]
  BY <1>2 DEF RowsStay
<1>4. MetricsRows(p)' = I
  BY <1>1, <1>3 DEF MetricsRows, OfPair, Recent
<1>5. I \subseteq 1..asOf["metrics"]
  BY <1>1 DEF MetricsRows, OfPair, Recent
<1>6. \A i \in I : attested'[i] = attested[i]
  BY <1>3, <1>5
<1>7. \A m : Measures(m, I)' <=> Measures(m, I)
  BY <1>6, MeasuresStay
<1>8. TooSlowFor(I)' <=> TooSlowFor(I)
  BY <1>6, MeasuresStay
<1>9. MetricsAreCurrent(p) <=> I = {} \/ TooSlowFor(I) \/ \E m \in metrics[p] : Measures(m, I)
  BY <1>1, MetricsCurrency
<1>10. MetricsAreCurrent(p)' <=>
           I = {} \/ TooSlowFor(I)' \/ \E m \in metrics[p]' : Measures(m, I)'
  <2>1. (MetricsAreCurrent(p) <=>
             \/ MetricsRows(p) = {} \/ TooSlowFor(MetricsRows(p))
             \/ \E m \in metrics[p] : Measures(m, MetricsRows(p)))'
    BY MetricsCurrencyNext
  <2> QED
    BY <1>4, <2>1
<1>11. MetricsDue(p) <=>
           /\ stage = "metrics" /\ p \in DOMAIN unwritten
           /\ \A m \in unwritten[p] : Measures(m, I)
  BY <1>1 DEF MetricsDue
<1>12. MetricsDue(p)' <=>
           /\ stage' = "metrics" /\ p \in DOMAIN unwritten'
           /\ \A m \in unwritten[p]' : Measures(m, I)'
  BY <1>4 DEF MetricsDue
<1> QED
  BY <1>7, <1>8, <1>9, <1>10, <1>11, <1>12

\* The probes of a domain are what they were, and so is what is said of them.
LEMMA ProbesStay ==
    ASSUME RefreshAssumption, RowsOK, RowsStay, asOf["signals"]' = asOf["signals"], NEW d
    PROVE  /\ UptimeRows(d)' = UptimeRows(d) /\ QuoteRows(d)' = QuoteRows(d)
           /\ \A s : Reports(s, UptimeRows(d), QuoteRows(d))'
                    <=> Reports(s, UptimeRows(d), QuoteRows(d))
<1>1. PICK U : U = UptimeRows(d)
  OBVIOUS
<1>2. PICK Y : Y = QuoteRows(d)
  OBVIOUS
<1>3. asOf["signals"] \in Nat /\ asOf["signals"] <= Len(samples) /\ Len(samples) \in Nat
  BY RowFacts DEF RowsOK, Phase
<1>4. \A i \in 1..asOf["signals"] : samples'[i] = samples[i]
  BY <1>3 DEF RowsStay
<1>5. UptimeRows(d)' = U /\ QuoteRows(d)' = Y
  BY <1>1, <1>2, <1>4 DEF UptimeRows, QuoteRows, Probed, Reached
<1>6. U \subseteq 1..asOf["signals"] /\ Y \subseteq 1..asOf["signals"]
  BY <1>1, <1>2 DEF UptimeRows, QuoteRows, Probed, Reached
<1>7. \A s : Reports(s, U, Y)' <=> Reports(s, U, Y)
  <2>1. Reached(U)' = Reached(U) /\ Latencies(Y)' = Latencies(Y)
    BY <1>4, <1>6 DEF Reached, Latencies
  <2> QED
    BY <2>1 DEF Reports
<1>8. ASSUME NEW s
      PROVE  Reports(s, UptimeRows(d), QuoteRows(d))' <=> Reports(s, U, Y)'
  BY <1>5 DEF Reports
<1> QED
  BY <1>1, <1>2, <1>5, <1>7, <1>8

\* So the last of the domains of an anchor is the same.
LEMMA LastStays ==
    ASSUME RefreshAssumption, RowsOK, RowsStay, asOf["signals"]' = asOf["signals"], NEW d
    PROVE  LastOfAnchor(d)' <=> LastOfAnchor(d)
<1>1. \A e : UptimeRows(e)' = UptimeRows(e)
  BY ProbesStay
<1> QED
  BY <1>1 DEF LastOfAnchor

\* And a domain.
LEMMA SignalsStay ==
    ASSUME RefreshAssumption, RowsOK, RowsStay, asOf["signals"]' = asOf["signals"],
           NEW d, signals[AnchorOf[d]]' = signals[AnchorOf[d]]
    PROVE  SignalsAreCurrent(d) => SignalsAreCurrent(d)'
<1> SUFFICES ASSUME SignalsAreCurrent(d), LastOfAnchor(d)'
             PROVE  \E s \in signals[AnchorOf[d]]' : Reports(s, UptimeRows(d), QuoteRows(d))'
  BY DEF SignalsAreCurrent
<1>1. LastOfAnchor(d)
  BY LastStays
<1>2. PICK s \in signals[AnchorOf[d]] : Reports(s, UptimeRows(d), QuoteRows(d))
  BY <1>1 DEF SignalsAreCurrent
<1>3. Reports(s, UptimeRows(d), QuoteRows(d))'
  BY <1>2, ProbesStay
<1> QED
  BY <1>2, <1>3

\* What is due of a domain stays due while those that are done sort before it.
LEMMA SignalsStayDue ==
    ASSUME RefreshAssumption, RowsOK, RowsStay, asOf["signals"]' = asOf["signals"],
           NEW d, SignalsDue(d), stage' = stage, d \in DOMAIN unwritten',
           unwritten[d]' = unwritten[d], Passed(d)'
    PROVE  SignalsDue(d)'
<1>1. /\ stage = "signals" /\ UptimeRows(d) # {}
      /\ \A s \in unwritten[d] : Reports(s, UptimeRows(d), QuoteRows(d)) /\ s.p50 <= s.p95
  BY DEF SignalsDue
<1>2. UptimeRows(d)' # {}
  BY <1>1, ProbesStay
<1>3. ASSUME NEW s \in unwritten[d]'
      PROVE  Reports(s, UptimeRows(d), QuoteRows(d))' /\ s.p50 <= s.p95
  BY <1>1, <1>3, ProbesStay
<1> QED
  BY <1>1, <1>2, <1>3 DEF SignalsDue

\* What the names of the stages stand for.
LEMMA StageNames ==
    /\ Phase = {"rates", "metrics", "signals"}
    /\ Reading["rates"] = "read rates" /\ Reading["metrics"] = "read metrics"
    /\ Reading["signals"] = "read signals"
    /\ {Reading[phase] : phase \in Phase} = {"read rates", "read metrics", "read signals"}
    /\ After["rates"] = "read metrics" /\ After["metrics"] = "read signals"
    /\ After["signals"] = "idle"
<1>1. /\ Reading["rates"] = "read rates" /\ Reading["metrics"] = "read metrics"
      /\ Reading["signals"] = "read signals"
  BY DEF Reading
<1>2. /\ After["rates"] = "read metrics" /\ After["metrics"] = "read signals"
      /\ After["signals"] = "idle"
  BY <1>1 DEF After
<1>3. Phase = {"rates", "metrics", "signals"}
  BY DEF Phase
<1>4. {Reading[phase] : phase \in Phase} = {"read rates", "read metrics", "read signals"}
  BY <1>1, <1>3
<1> QED
  BY <1>1, <1>2, <1>3, <1>4

\* A step that leaves the contract and the tick alone leaves what stands.
LEMMA StandsStill ==
    ASSUME RefreshAssumption, RefreshInv, RowsStay,
           UNCHANGED <<oracleVars, stage, unwritten, asOf>>, clean' => clean
    PROVE  RefreshStands'
<1> SUFFICES ASSUME clean' PROVE RefreshStands'
  BY DEF RefreshStands
<1>1. RowsOK /\ RefreshStands /\ clean
  BY DEF RefreshInv, RefreshTyped
<1>2. /\ rate' = rate /\ metrics' = metrics /\ signals' = signals
      /\ stage' = stage /\ unwritten' = unwritten /\ asOf' = asOf
  BY DEF oracleVars
<1>3. RatesStand => RatesStand'
  <2>1. ASSUME NEW c \in Target, RateStands(c) PROVE RateStands(c)'
    BY <1>1, <1>2, <2>1, RateStays DEF RateStands
  <2> QED
    BY <2>1 DEF RatesStand
<1>4. MetricsStand => MetricsStand'
  <2>1. ASSUME NEW p \in Pair, MetricsStands(p) PROVE MetricsStands(p)'
    BY <1>1, <1>2, <2>1, MetricsStay DEF MetricsStands
  <2>2. Pair' = Pair
    BY DEF Pair
  <2> QED
    BY <2>1, <2>2 DEF MetricsStand
<1>5. SignalsStand => SignalsStand'
  <2>1. ASSUME NEW d \in ProbeDomain, SignalsStands(d) PROVE SignalsStands(d)'
    <3>1. signals[AnchorOf[d]]' = signals[AnchorOf[d]]
      BY <1>2
    <3>2. Passed(d) => Passed(d)'
      <4>1. \A e : UptimeRows(e)' = UptimeRows(e)
        BY <1>1, <1>2, ProbesStay
      <4> QED
        BY <1>2, <4>1 DEF Passed
    <3>3. CASE SignalsDue(d) /\ stage = "signals" /\ d \in DOMAIN unwritten
      <4>1. SignalsDue(d)'
        BY <1>1, <1>2, <3>2, <3>3, SignalsStayDue DEF SignalsDue
      <4> QED
        BY <1>2, <3>3, <4>1 DEF SignalsStands
    <3>4. CASE SignalsAreCurrent(d) /\ ~(stage = "signals" /\ d \in DOMAIN unwritten)
      BY <1>1, <1>2, <3>1, <3>4, SignalsStay DEF SignalsStands
    <3> QED
      BY <2>1, <3>3, <3>4 DEF SignalsStands
  <2> QED
    BY <2>1 DEF SignalsStand
<1> QED
  BY <1>1, <1>2, <1>3, <1>4, <1>5 DEF RefreshStands

\* What the contract holds, and what is to be written, stay typed with it.
LEMMA TypedStill ==
    ASSUME RefreshInv, UNCHANGED <<oracleVars, stage, unwritten>>
    PROVE  OracleOK' /\ TodoOK'
<1>1. OracleOK /\ TodoOK
  BY DEF RefreshInv, RefreshTyped
<1>2. /\ rate' = rate /\ metrics' = metrics /\ signals' = signals
      /\ stage' = stage /\ unwritten' = unwritten
  BY DEF oracleVars
<1>3. OracleOK'
  BY <1>1, <1>2 DEF OracleOK, Held, Pair, Figures, Signals
<1>4. TodoOK'
  BY <1>1, <1>2 DEF TodoOK, Figured, Pair, Figures, Signals
<1> QED
  BY <1>3, <1>4

\* Nothing is refreshed at first.
LEMMA RefreshStarts == RefreshAssumption /\ RefreshInit => RefreshInv
<1> SUFFICES ASSUME RefreshAssumption, RefreshInit PROVE RefreshInv
  OBVIOUS
<1>1. RowsOK
  BY DEF RowsOK, RefreshInit, Phase
<1>2. OracleOK
  BY DEF OracleOK, Held, RefreshInit
<1>3. TodoOK /\ stage = "idle"
  BY DEF TodoOK, RefreshInit
<1>4. rFaults \in 0..MaxRefreshFaults /\ clean \in BOOLEAN /\ ~clean
  <2>1. rFaults = MaxRefreshFaults /\ MaxRefreshFaults \in Nat
    BY DEF RefreshInit, RefreshAssumption
  <2>2. rFaults \in 0..MaxRefreshFaults
    BY <2>1
  <2>3. clean \in BOOLEAN /\ ~clean
    BY Zenon DEF RefreshInit
  <2> QED
    BY <2>2, <2>3
<1> QED
  BY <1>1, <1>2, <1>3, <1>4 DEF RefreshInv, RefreshTyped, RefreshStands

\* One row more stays beyond what the phases have read.
LEMMA ReconcileKeeps ==
    ASSUME RefreshAssumption, RefreshInv, NEW o \in Outcome, Reconcile(o)
    PROVE  RefreshInv'
<1>1. RowsOK
  BY DEF RefreshInv, RefreshTyped
<1>2. /\ attested' = Append(attested, o) /\ marked' = marked /\ samples' = samples
      /\ UNCHANGED <<oracleVars, stage, unwritten>> /\ asOf' = asOf
      /\ rFaults' = rFaults /\ clean' = clean
  BY DEF Reconcile
<1>3. attested' \in Seq(Outcome) /\ Len(attested') = Len(attested) + 1 /\ Len(attested) \in Nat
  BY <1>1, <1>2, RowFacts DEF RowsOK
<1>4. RowsStay
  BY <1>1, <1>2, RowFacts DEF RowsStay, RowsOK
<1>5. RowsOK'
  <2>1. asOf["rates"] \in Nat /\ asOf["metrics"] \in Nat /\ asOf["signals"] \in Nat
    BY <1>1 DEF RowsOK, Phase
  <2>2. /\ Len(attested) \in Nat /\ Len(samples) \in Nat
        /\ marked \in 0..Len(attested)
        /\ asOf["rates"] <= Len(attested) /\ asOf["metrics"] <= Len(attested)
        /\ asOf["signals"] <= Len(samples)
    BY <1>1, RowFacts DEF RowsOK
  <2>3. /\ asOf["rates"] <= Len(attested') /\ asOf["metrics"] <= Len(attested')
        /\ asOf["signals"] <= Len(samples') /\ marked \in 0..Len(attested')
    BY <1>2, <1>3, <2>1, <2>2
  <2>4. attested' \in Seq(Outcome) /\ samples' \in Seq(Sample) /\ asOf' \in [Phase -> Nat]
    BY <1>1, <1>2, <1>3 DEF RowsOK
  <2> QED
    BY <1>2, <2>3, <2>4 DEF RowsOK, Phase
<1>6. OracleOK' /\ TodoOK'
  BY <1>2, TypedStill
<1>7. RefreshStands'
  <2>1. UNCHANGED <<oracleVars, stage, unwritten, asOf>>
    BY <1>2
  <2> QED
    BY <1>2, <1>4, <2>1, StandsStill
<1> QED
  BY <1>2, <1>5, <1>6, <1>7 DEF RefreshInv, RefreshTyped, Phase, Reading

\* So does one sample.
LEMMA StoreSampleKeeps ==
    ASSUME RefreshAssumption, RefreshInv, NEW s \in Sample, StoreSample(s)
    PROVE  RefreshInv'
<1>1. RowsOK
  BY DEF RefreshInv, RefreshTyped
<1>2. /\ samples' = Append(samples, s) /\ marked' = marked /\ attested' = attested
      /\ UNCHANGED <<oracleVars, stage, unwritten>> /\ asOf' = asOf
      /\ rFaults' = rFaults /\ clean' = clean
  BY DEF StoreSample
<1>3. samples' \in Seq(Sample) /\ Len(samples') = Len(samples) + 1 /\ Len(samples) \in Nat
  BY <1>1, <1>2, RowFacts DEF RowsOK
<1>4. RowsStay
  BY <1>1, <1>2, RowFacts DEF RowsStay, RowsOK
<1>5. RowsOK'
  <2>1. asOf["rates"] \in Nat /\ asOf["metrics"] \in Nat /\ asOf["signals"] \in Nat
    BY <1>1 DEF RowsOK, Phase
  <2>2. /\ Len(attested) \in Nat /\ Len(samples) \in Nat
        /\ marked \in 0..Len(attested)
        /\ asOf["rates"] <= Len(attested) /\ asOf["metrics"] <= Len(attested)
        /\ asOf["signals"] <= Len(samples)
    BY <1>1, RowFacts DEF RowsOK
  <2>3. /\ asOf["rates"] <= Len(attested') /\ asOf["metrics"] <= Len(attested')
        /\ asOf["signals"] <= Len(samples') /\ marked \in 0..Len(attested')
    BY <1>2, <1>3, <2>1, <2>2
  <2>4. attested' \in Seq(Outcome) /\ samples' \in Seq(Sample) /\ asOf' \in [Phase -> Nat]
    BY <1>1, <1>2, <1>3 DEF RowsOK
  <2> QED
    BY <1>2, <2>3, <2>4 DEF RowsOK, Phase
<1>6. OracleOK' /\ TodoOK'
  BY <1>2, TypedStill
<1>7. RefreshStands'
  <2>1. UNCHANGED <<oracleVars, stage, unwritten, asOf>>
    BY <1>2
  <2> QED
    BY <1>2, <1>4, <2>1, StandsStill
<1> QED
  BY <1>2, <1>5, <1>6, <1>7 DEF RefreshInv, RefreshTyped, Phase, Reading

\* A batch that goes through ends what was said of the last refresh, and one that
\* throws leaves it.
LEMMA RunBatchKeeps == ASSUME RefreshAssumption, RefreshInv, RunBatch PROVE RefreshInv'
<1>1. RowsOK /\ clean \in BOOLEAN
  BY DEF RefreshInv, RefreshTyped
<1> DEFINE left == Len(attested) - marked
           size == IF left < BatchSize THEN left ELSE BatchSize
<1>2. /\ attested' = attested /\ samples' = samples /\ asOf' = asOf
      /\ UNCHANGED oracleVars /\ unwritten' = unwritten /\ stage = "idle"
  BY DEF RunBatch
<1>3. PICK sent \in 0..size :
          /\ marked' = marked + sent
          /\ \/ sent = size /\ stage' = Reading["rates"] /\ NoRefreshFault
             \/ sent < size /\ stage' = "idle" /\ (NoRefreshFault \/ RefreshFault)
          /\ clean' = (clean /\ sent < size)
  BY DEF RunBatch
<1>4. marked' \in 0..Len(attested)
  <2>1. /\ Len(attested) \in Nat /\ marked \in Nat /\ left \in Nat /\ marked + left = Len(attested)
        /\ BatchSize \in Nat
    BY <1>1, RowFacts DEF RowsOK, RefreshAssumption
  <2>2. sent \in Nat /\ sent <= left
    <3> HIDE DEF left
    <3> QED
      BY <2>1, <1>3
  <2> HIDE DEF left
  <2> QED
    BY <1>3, <2>1, <2>2
<1>5. RowsOK'
  BY <1>1, <1>2, <1>4 DEF RowsOK, Phase
<1>6. RowsStay
  BY <1>2 DEF RowsStay
<1>7. rFaults' \in 0..MaxRefreshFaults
  BY <1>3 DEF RefreshInv, RefreshTyped, NoRefreshFault, RefreshFault, RefreshAssumption
<1>8. clean' \in BOOLEAN
  BY <1>1, <1>3
<1> HIDE DEF size
<1>9. OracleOK'
  BY <1>2 DEF oracleVars, OracleOK, RefreshInv, RefreshTyped, Held, Pair, Figures, Signals
<1>10. CASE stage' = "idle"
  <2>1. TodoOK'
    BY <1>10 DEF TodoOK
  <2>2. UNCHANGED <<oracleVars, stage, unwritten, asOf>>
    BY <1>2, <1>10
  <2>3. clean' => clean
    BY <1>3
  <2>4. RefreshStands'
    BY <1>6, <2>2, <2>3, StandsStill
  <2> QED
    BY <1>5, <1>7, <1>8, <1>9, <1>10, <2>1, <2>4 DEF RefreshInv, RefreshTyped
<1>11. CASE stage' = "read rates" /\ ~clean'
  <2>1. TodoOK' /\ RefreshStands'
    BY <1>11 DEF TodoOK, RefreshStands
  <2> QED
    BY <1>5, <1>7, <1>8, <1>9, <1>11, <2>1, StageNames DEF RefreshInv, RefreshTyped, Phase, Reading
<1>12. stage' = "idle" \/ (stage' = "read rates" /\ ~clean')
  <2>1. sent = size => ~(sent < size)
    <3>1. sent \in Int
      OBVIOUS
    <3> QED
      BY <3>1
  <2> QED
    BY <1>3, <2>1, StageNames
<1> QED
  BY <1>10, <1>11, <1>12

\* Figures that are written stay current while other phases run.
LEMMA RatesSettled ==
    ASSUME RefreshAssumption, RowsOK, RowsStay, asOf["rates"]' = asOf["rates"], rate' = rate,
           stage = "rates" => DOMAIN unwritten = {}, stage' # "rates", RatesStand
    PROVE  RatesStand'
<1>1. ASSUME NEW c \in Target PROVE RateStands(c)'
  <2>1. RateIsCurrent(c)
    BY DEF RatesStand, RateStands
  <2>2. RateIsCurrent(c)'
    BY <2>1, RateStays
  <2> QED
    BY <2>2 DEF RateStands
<1> QED
  BY <1>1 DEF RatesStand

\* So do written metrics.
LEMMA MetricsSettled ==
    ASSUME RefreshAssumption, RowsOK, RowsStay, asOf["metrics"]' = asOf["metrics"],
           metrics' = metrics,
           stage = "metrics" => DOMAIN unwritten = {}, stage' # "metrics", MetricsStand
    PROVE  MetricsStand'
<1>1. ASSUME NEW p \in Pair PROVE MetricsStands(p)'
  <2>1. MetricsAreCurrent(p)
    BY DEF MetricsStand, MetricsStands
  <2>2. MetricsAreCurrent(p)'
    BY <2>1, MetricsStay
  <2> QED
    BY <2>2 DEF MetricsStands
<1>2. Pair' = Pair
  BY DEF Pair
<1> QED
  BY <1>1, <1>2 DEF MetricsStand

\* And written signals.
LEMMA SignalsSettled ==
    ASSUME RefreshAssumption, RowsOK, RowsStay, asOf["signals"]' = asOf["signals"],
           signals' = signals,
           stage = "signals" => DOMAIN unwritten = {}, stage' # "signals", SignalsStand
    PROVE  SignalsStand'
<1>1. ASSUME NEW d \in ProbeDomain PROVE SignalsStands(d)'
  <2>1. SignalsAreCurrent(d)
    BY DEF SignalsStand, SignalsStands
  <2>2. SignalsAreCurrent(d)'
    BY <2>1, SignalsStay
  <2> QED
    BY <2>2 DEF SignalsStands
<1> QED
  BY <1>1 DEF SignalsStand

\* A fault takes one of those that are left.
LEMMA FaultsLeft ==
    ASSUME RefreshAssumption, RefreshInv, NoRefreshFault \/ RefreshFault
    PROVE  rFaults' \in 0..MaxRefreshFaults
<1>1. MaxRefreshFaults \in Nat /\ rFaults \in 0..MaxRefreshFaults
  BY DEF RefreshAssumption, RefreshInv, RefreshTyped
<1>2. rFaults' = rFaults \/ (rFaults > 0 /\ rFaults' = rFaults - 1)
  BY DEF NoRefreshFault, RefreshFault
<1> QED
  BY <1>1, <1>2

\* Without a new row or sample, all of them stay.
LEMMA RowsUntouched ==
    ASSUME RowsOK, UNCHANGED logVars
    PROVE  /\ RowsStay
           /\ asOf' = asOf => RowsOK'
<1>1. attested' = attested /\ marked' = marked /\ samples' = samples
  BY DEF logVars
<1> QED
  BY <1>1 DEF RowsStay, RowsOK, Phase

\* A phase ends with nothing left to write, so its figures are current.
LEMMA EndPhaseKeeps == ASSUME RefreshAssumption, RefreshInv, EndPhase PROVE RefreshInv'
<1>1. RowsOK /\ clean \in BOOLEAN /\ RefreshStands
  BY DEF RefreshInv, RefreshTyped
<1>2. /\ UNCHANGED logVars /\ rate' = rate /\ metrics' = metrics /\ signals' = signals
      /\ clean' = clean /\ asOf' = asOf /\ NoRefreshFault
      /\ DOMAIN unwritten = {} /\ stage \in Phase /\ stage' = After[stage]
  BY DEF EndPhase, oracleVars, NoRefreshFault
<1>3. RowsStay /\ RowsOK'
  BY <1>1, <1>2, RowsUntouched
<1>4. OracleOK'
  BY <1>2 DEF OracleOK, RefreshInv, RefreshTyped, Held, Pair, Figures, Signals
<1>5. rFaults' \in 0..MaxRefreshFaults /\ clean' \in BOOLEAN
  BY <1>1, <1>2, FaultsLeft
<1>6. \/ stage = "rates" /\ stage' = "read metrics"
      \/ stage = "metrics" /\ stage' = "read signals"
      \/ stage = "signals" /\ stage' = "idle"
  BY <1>2, StageNames
<1>7. TodoOK'
  BY <1>6 DEF TodoOK
<1>8. RefreshStands'
  <2> SUFFICES ASSUME clean' PROVE RefreshStands'
    BY DEF RefreshStands
  <2>1. clean
    BY <1>2
  <2>2. RatesStand'
    BY <1>1, <1>2, <1>3, <1>6, <2>1, RatesSettled DEF RefreshStands
  <2>3. stage \in {"metrics", "signals"} => MetricsStand'
    BY <1>1, <1>2, <1>3, <1>6, <2>1, MetricsSettled DEF RefreshStands
  <2>4. stage = "signals" => SignalsStand'
    BY <1>1, <1>2, <1>3, <1>6, <2>1, SignalsSettled DEF RefreshStands
  <2> QED
    BY <1>6, <2>2, <2>3, <2>4 DEF RefreshStands
<1> QED
  BY <1>3, <1>4, <1>5, <1>6, <1>7, <1>8, StageNames DEF RefreshInv, RefreshTyped, Phase, Reading

\* A tick that ends early was not clean.
LEMMA KillKeeps == ASSUME RefreshAssumption, RefreshInv, Kill PROVE RefreshInv'
<1>1. RowsOK
  BY DEF RefreshInv, RefreshTyped
<1>2. /\ UNCHANGED logVars /\ rate' = rate /\ metrics' = metrics /\ signals' = signals
      /\ clean' = FALSE /\ asOf' = asOf /\ RefreshFault /\ stage' = "idle"
  BY DEF Kill, oracleVars
<1>3. RowsStay /\ RowsOK'
  BY <1>1, <1>2, RowsUntouched
<1>4. OracleOK'
  BY <1>2 DEF OracleOK, RefreshInv, RefreshTyped, Held, Pair, Figures, Signals
<1>5. rFaults' \in 0..MaxRefreshFaults
  BY <1>2, FaultsLeft
<1>6. TodoOK' /\ RefreshStands'
  BY <1>2 DEF TodoOK, RefreshStands
<1> QED
  BY <1>2, <1>3, <1>4, <1>5, <1>6 DEF RefreshInv, RefreshTyped

\* A rate that the admin resets was held, and no refresh is clean after it.
LEMMA ResetRateKeeps ==
    ASSUME RefreshAssumption, RefreshInv, NEW c \in Corridor, ResetRate(c)
    PROVE  RefreshInv'
<1>1. RowsOK /\ OracleOK /\ TodoOK
  BY DEF RefreshInv, RefreshTyped
<1>2. /\ UNCHANGED logVars /\ rate' = [rate EXCEPT ![c] = {}]
      /\ metrics' = metrics /\ signals' = signals
      /\ stage' = stage /\ unwritten' = unwritten /\ rFaults' = rFaults
      /\ clean' = FALSE /\ asOf' = asOf
  BY DEF ResetRate
<1>3. RowsStay /\ RowsOK'
  BY <1>1, <1>2, RowsUntouched
<1>4. OracleOK'
  <2>1. DOMAIN rate' = Corridor /\ \A d \in Corridor : rate'[d] = {} \/ rate'[d] = rate[d]
    BY <1>1, <1>2 DEF OracleOK
  <2> QED
    BY <1>1, <1>2, <2>1 DEF OracleOK, Held, Pair, Figures, Signals
<1>5. TodoOK' /\ RefreshStands'
  BY <1>1, <1>2 DEF TodoOK, Figured, RefreshStands, Pair, Figures, Signals
<1> QED
  BY <1>2, <1>3, <1>4, <1>5 DEF RefreshInv, RefreshTyped, Phase, Reading

\* What is left out of the figures of a phase is the keys without any.
LEMMA PresentIs ==
    ASSUME NEW f
    PROVE  /\ \A k : k \in DOMAIN Present(f) <=> k \in DOMAIN f /\ f[k] # {}
           /\ \A k \in DOMAIN Present(f) : Present(f)[k] = f[k]
  BY DEF Present

\* The rows that a phase reads are the recent ones from then on.
LEMMA NewestIsRecent ==
    ASSUME RefreshAssumption, RowsOK, attested' = attested,
           NEW phase \in Phase, asOf' = [asOf EXCEPT ![phase] = Len(attested)]
    PROVE  Recent(phase)' = Newest /\ Newest \subseteq 1..Len(attested) /\ Newest' = Newest
<1>1. DOMAIN attested = 1..Len(attested)
  BY RowFacts
<1>2. asOf'[phase] = Len(attested)
  BY DEF RowsOK
<1>3. Recent(phase)' = Newest
  BY <1>1, <1>2 DEF Recent, Newest
<1> QED
  BY <1>1, <1>3 DEF Newest

\* What a phase has read of the log.
LEMMA ReadsRows ==
    ASSUME RefreshAssumption, RowsOK, NEW phase \in Phase, UNCHANGED logVars,
           asOf' = [asOf EXCEPT ![phase] = IF phase = "signals" THEN Len(samples) ELSE Len(attested)]
    PROVE  RowsOK'
<1>1. attested' = attested /\ marked' = marked /\ samples' = samples
  BY DEF logVars
<1>2. Len(attested) \in Nat /\ Len(samples) \in Nat
  BY RowFacts
<1>3. asOf' \in [Phase -> Nat]
  BY <1>2 DEF RowsOK
<1>4. /\ asOf'["rates"] \in {asOf["rates"], Len(attested)}
      /\ asOf'["metrics"] \in {asOf["metrics"], Len(attested)}
      /\ asOf'["signals"] \in {asOf["signals"], Len(samples)}
  BY DEF RowsOK, Phase
<1>5. /\ asOf'["rates"] <= Len(attested) /\ asOf'["metrics"] <= Len(attested)
      /\ asOf'["signals"] <= Len(samples)
  BY <1>2, <1>4 DEF RowsOK
<1>6. attested \in Seq(Outcome) /\ marked \in 0..Len(attested) /\ samples \in Seq(Sample)
  BY DEF RowsOK
<1> QED
  BY <1>1, <1>3, <1>5, <1>6 DEF RowsOK

\* The rates to write are typed and due, and those without one are current.
LEMMA RatesRead ==
    ASSUME RefreshAssumption, RefreshInv, Read("rates"), unwritten' = Present(Derived("rates"))
    PROVE  Figured(Target, Nat \ {0})' /\ RatesStand'
<1>1. RowsOK
  BY DEF RefreshInv, RefreshTyped
<1>2. /\ attested' = attested /\ stage' = "rates"
      /\ asOf' = [asOf EXCEPT !["rates"] = Len(attested)]
  BY DEF Read, logVars
<1>3. /\ Recent("rates")' = Newest /\ Newest \subseteq 1..Len(attested) /\ Newest' = Newest
  BY <1>1, <1>2, NewestIsRecent DEF Phase
<1> DEFINE f == [c \in Target |-> DeriveRate(Newest, c)]
<1>4. Derived("rates") = f
  BY DEF Derived
<1>5. /\ \A c : c \in DOMAIN unwritten' <=> c \in Target /\ f[c] # {}
      /\ \A c \in DOMAIN unwritten' : unwritten'[c] = f[c]
  BY <1>4, PresentIs
<1>6. PICK I : I = Newest
  OBVIOUS
<1>7. ASSUME NEW c \in Target
      PROVE  /\ c \in DOMAIN unwritten' => \E x \in Nat \ {0} : unwritten'[c] = {x}
             /\ RateStands(c)'
  <2>1. PICK P : P = PricedOf(I, c)
    OBVIOUS
  <2>2. PICK v : v = Rates(P)
    OBVIOUS
  <2>3. RateRows(c)' = P
    BY <1>2, <1>3, <1>6, <2>1 DEF RateRows, PricedOf, Priced
  <2>4. Rates(P)' = v
    BY <1>2, <2>2 DEF Rates
  <2>5. f[c] = DeriveRate(I, c)
    BY <1>6
  <2> HIDE DEF f
  <2>6. CASE P = {} /\ f[c] = {}
    <3>1. c \notin DOMAIN unwritten'
      BY <1>5, <2>6
    <3>2. (RateIsCurrent(c) <=> CurrentRate(rate[c], RateRows(c), Rates(RateRows(c))))'
      BY RateCurrencyNext
    <3>3. RateIsCurrent(c)'
      BY <2>3, <2>6, <3>2 DEF CurrentRate
    <3> QED
      BY <3>1, <3>3 DEF RateStands
  <2>7. CASE \E x \in Nat \ {0} : f[c] = {x} /\ IsMedian(x, P, v)
    <3>1. PICK x \in Nat \ {0} : f[c] = {x} /\ IsMedian(x, P, v)
      BY <2>7
    <3>2. c \in DOMAIN unwritten' /\ unwritten'[c] = {x}
      BY <1>5, <3>1
    <3>3. RateDue(c)'
      BY <1>2, <2>3, <2>4, <3>1, <3>2 DEF RateDue
    <3> QED
      BY <1>2, <3>2, <3>3 DEF RateStands
  <2> QED
    BY <1>1, <1>3, <1>6, <2>1, <2>2, <2>5, <2>6, <2>7, RateDerived
<1> HIDE DEF f
<1> QED
  BY <1>5, <1>7 DEF Figured, RatesStand

\* The metrics to write are typed and due, and pairs without any are current.
LEMMA MetricsRead ==
    ASSUME RefreshAssumption, RefreshInv, Read("metrics"), unwritten' = Present(Derived("metrics"))
    PROVE  Figured(Pair, Figures)' /\ MetricsStand'
<1>1. RowsOK
  BY DEF RefreshInv, RefreshTyped
<1>2. /\ attested' = attested /\ stage' = "metrics"
      /\ asOf' = [asOf EXCEPT !["metrics"] = Len(attested)]
  BY DEF Read, logVars
<1>3. /\ Recent("metrics")' = Newest /\ Newest \subseteq 1..Len(attested) /\ Newest' = Newest
  BY <1>1, <1>2, NewestIsRecent DEF Phase
<1> DEFINE f == [p \in Pair |-> DeriveMetrics(Newest, p)]
<1>4. Derived("metrics") = f
  BY DEF Derived
<1>5. /\ \A p : p \in DOMAIN unwritten' <=> p \in Pair /\ f[p] # {}
      /\ \A p \in DOMAIN unwritten' : unwritten'[p] = f[p]
  BY <1>4, PresentIs
<1>6. PICK I : I = Newest
  OBVIOUS
<1>7. Pair' = Pair /\ Figures' = Figures
  BY DEF Pair, Figures
<1>8. ASSUME NEW p \in Pair
      PROVE  /\ p \in DOMAIN unwritten' => \E m \in Figures : unwritten'[p] = {m}
             /\ MetricsStands(p)'
  <2>1. PICK G : G = OfPair(I, p)
    OBVIOUS
  <2>2. MetricsRows(p)' = G
    BY <1>2, <1>3, <1>6, <2>1 DEF MetricsRows, OfPair
  <2>3. f[p] = DeriveMetrics(I, p)
    BY <1>6
  <2> HIDE DEF f
  <2>4. CASE G = {} /\ f[p] = {}
    <3>1. p \notin DOMAIN unwritten'
      BY <1>5, <2>4
    <3>2. (MetricsAreCurrent(p) <=>
               \/ MetricsRows(p) = {} \/ TooSlowFor(MetricsRows(p))
               \/ \E m \in metrics[p] : Measures(m, MetricsRows(p)))'
      BY MetricsCurrencyNext
    <3>3. MetricsAreCurrent(p)'
      BY <2>2, <2>4, <3>2
    <3> QED
      BY <3>1, <3>3 DEF MetricsStands
  <2>5. CASE \E m \in Figures : f[p] = {m} /\ Measures(m, G)
    <3>1. PICK m \in Figures : f[p] = {m} /\ Measures(m, G)
      BY <2>5
    <3>2. p \in DOMAIN unwritten' /\ unwritten'[p] = {m}
      BY <1>5, <3>1
    <3>3. Measures(m, G)'
      <4>1. \A i \in G : attested'[i] = attested[i]
        BY <1>2
      <4> QED
        BY <3>1, <4>1, MeasuresStay
    <3>4. MetricsDue(p)'
      BY <1>2, <2>2, <3>2, <3>3 DEF MetricsDue
    <3> QED
      BY <1>2, <3>2, <3>4 DEF MetricsStands
  <2> QED
    BY <1>1, <1>3, <1>6, <2>1, <2>3, <2>4, <2>5, MetricsDerived
<1> HIDE DEF f
<1>9. Figured(Pair, Figures)'
  BY <1>5, <1>7, <1>8 DEF Figured
<1>10. MetricsStand'
  BY <1>7, <1>8 DEF MetricsStand
<1> QED
  BY <1>9, <1>10

\* The signals to write are typed and due, and domains without any are current.
LEMMA SignalsRead ==
    ASSUME RefreshAssumption, RefreshInv, Read("signals"), unwritten' = Present(Derived("signals"))
    PROVE  Figured(ProbeDomain, Signals)' /\ SignalsStand'
<1>1. RowsOK
  BY DEF RefreshInv, RefreshTyped
<1>2. /\ samples' = samples /\ stage' = "signals"
      /\ asOf' = [asOf EXCEPT !["signals"] = Len(samples)]
  BY DEF Read, logVars
<1>3. DOMAIN samples = 1..Len(samples) /\ asOf'["signals"] = Len(samples)
  BY <1>1, <1>2, RowFacts DEF RowsOK, Phase
<1> DEFINE f == [d \in ProbeDomain |-> DeriveSignals(DOMAIN samples, d)]
<1>4. Derived("signals") = f
  BY DEF Derived
<1>5. /\ \A d : d \in DOMAIN unwritten' <=> d \in ProbeDomain /\ f[d] # {}
      /\ \A d \in DOMAIN unwritten' : unwritten'[d] = f[d]
  BY <1>4, PresentIs
<1>6. PICK I : I = DOMAIN samples
  OBVIOUS
<1>7. \A d \in ProbeDomain : f[d] = DeriveSignals(I, d)
  BY <1>6
<1> HIDE DEF f
<1>8. ASSUME NEW d
      PROVE  UptimeRows(d)' = Probed(I, d, "uptime") /\ QuoteRows(d)' = Reached(Probed(I, d, "quote"))
  BY <1>2, <1>3, <1>6 DEF UptimeRows, QuoteRows, Probed, Reached
<1>9. ASSUME NEW d \in ProbeDomain
      PROVE  \/ UptimeRows(d)' = {} /\ d \notin DOMAIN unwritten'
             \/ \E s \in Signals :
                   /\ d \in DOMAIN unwritten' /\ unwritten'[d] = {s}
                   /\ Reports(s, Probed(I, d, "uptime"), Reached(Probed(I, d, "quote")))
                   /\ s.p50 <= s.p95
  <2>1. \/ Probed(I, d, "uptime") = {} /\ f[d] = {}
        \/ \E s \in Signals :
              /\ f[d] = {s}
              /\ Reports(s, Probed(I, d, "uptime"), Reached(Probed(I, d, "quote")))
              /\ s.p50 <= s.p95
    <3>1. f[d] = DeriveSignals(I, d) /\ I \subseteq 1..Len(samples)
      BY <1>3, <1>6, <1>7
    <3> QED
      BY <1>1, <3>1, SignalsDerived
  <2> QED
    BY <1>5, <1>8, <2>1
<1>10. \A d \in DOMAIN unwritten' : UptimeRows(d)' # {}
  <2>1. ASSUME NEW d \in DOMAIN unwritten' PROVE Probed(I, d, "uptime") # {}
    <3>1. d \in ProbeDomain /\ DeriveSignals(I, d) # {}
      BY <1>5, <1>7
    <3> QED
      BY <3>1 DEF DeriveSignals
  <2> QED
    BY <1>8, <2>1
<1>11. \A d : Passed(d)'
  BY <1>9 DEF Passed
<1>12. ASSUME NEW d \in ProbeDomain PROVE SignalsStands(d)'
  <2>1. CASE UptimeRows(d)' = {} /\ d \notin DOMAIN unwritten'
    <3>1. SignalsAreCurrent(d)'
      BY <2>1 DEF SignalsAreCurrent, LastOfAnchor
    <3> QED
      BY <2>1, <3>1 DEF SignalsStands
  <2>2. CASE d \in DOMAIN unwritten'
    <3>1. PICK s \in Signals :
             /\ unwritten'[d] = {s} /\ s.p50 <= s.p95
             /\ Reports(s, Probed(I, d, "uptime"), Reached(Probed(I, d, "quote")))
      BY <1>9, <2>2
    <3>2. PICK U : U = Probed(I, d, "uptime")
      OBVIOUS
    <3>3. PICK Y : Y = Reached(Probed(I, d, "quote"))
      OBVIOUS
    <3>4. UptimeRows(d)' = U /\ QuoteRows(d)' = Y
      BY <1>8, <3>2, <3>3
    <3>5. Reports(s, U, Y)'
      <4>1. Reached(U)' = Reached(U) /\ Latencies(Y)' = Latencies(Y)
        BY <1>2 DEF Reached, Latencies
      <4> QED
        BY <3>1, <3>2, <3>3, <4>1 DEF Reports
    <3>6. SignalsDue(d)'
      BY <1>2, <1>10, <1>11, <2>2, <3>1, <3>4, <3>5 DEF SignalsDue
    <3> QED
      BY <1>2, <2>2, <3>6 DEF SignalsStands
  <2> QED
    BY <1>9, <2>1, <2>2
<1>13. Signals' = Signals
  BY DEF Signals
<1>14. Figured(ProbeDomain, Signals)'
  BY <1>5, <1>9, <1>13 DEF Figured
<1>15. SignalsStand'
  BY <1>12 DEF SignalsStand
<1> QED
  BY <1>14, <1>15

\* A phase that reads the log owes its figures, and the phases before it are settled.
LEMMA ReadKeeps ==
    ASSUME RefreshAssumption, RefreshInv, NEW phase \in Phase, Read(phase)
    PROVE  RefreshInv'
<1>1. RowsOK /\ OracleOK /\ RefreshStands
  BY DEF RefreshInv, RefreshTyped
<1>2. /\ UNCHANGED logVars /\ rate' = rate /\ metrics' = metrics /\ signals' = signals
      /\ stage = Reading[phase] /\ stage' = phase
      /\ asOf' = [asOf EXCEPT ![phase] = IF phase = "signals" THEN Len(samples) ELSE Len(attested)]
      /\ \/ unwritten' = Present(Derived(phase)) /\ NoRefreshFault
            /\ clean' = (clean \/ phase = "rates")
         \/ unwritten' = <<>> /\ RefreshFault /\ clean' = FALSE
  BY DEF Read, oracleVars
<1>3. RowsOK' /\ RowsStay
  BY <1>1, <1>2, ReadsRows, RowsUntouched
<1>4. OracleOK'
  BY <1>1, <1>2 DEF OracleOK, Held, Pair, Figures, Signals
<1>5. rFaults' \in 0..MaxRefreshFaults
  BY <1>2, FaultsLeft
<1>6. clean' \in BOOLEAN
  BY <1>2 DEF RefreshInv, RefreshTyped
<1>7. CASE unwritten' = <<>> /\ clean' = FALSE
  <2>1. DOMAIN unwritten' = {}
    BY <1>7
  <2>2. TodoOK'
    BY <2>1 DEF TodoOK, Figured
  <2>3. RefreshStands'
    BY <1>7 DEF RefreshStands
  <2> QED
    BY <1>2, <1>3, <1>4, <1>5, <1>6, <2>2, <2>3 DEF RefreshInv, RefreshTyped, Phase, Reading
<1>8. CASE unwritten' = Present(Derived(phase)) /\ clean' = (clean \/ phase = "rates")
  <2>1. CASE phase = "rates"
    <3>1. Figured(Target, Nat \ {0})' /\ RatesStand'
      BY <1>8, <2>1, RatesRead
    <3>2. stage' = "rates"
      BY <1>2, <2>1
    <3>3. TodoOK'
      BY <3>1, <3>2 DEF TodoOK, Figured
    <3>4. RefreshStands'
      BY <3>1, <3>2 DEF RefreshStands
    <3> QED
      BY <1>2, <1>3, <1>4, <1>5, <1>6, <3>3, <3>4 DEF RefreshInv, RefreshTyped, Phase, Reading
  <2>2. CASE phase = "metrics"
    <3>1. Figured(Pair, Figures)' /\ MetricsStand'
      BY <1>8, <2>2, MetricsRead
    <3>2. stage = "read metrics" /\ asOf["rates"]' = asOf["rates"]
      BY <1>1, <1>2, <2>2, StageNames DEF RowsOK
    <3>3. clean => RatesStand'
      BY <1>1, <1>2, <1>3, <2>2, <3>2, RatesSettled DEF RefreshStands
    <3>4. TodoOK' /\ RefreshStands'
      BY <1>2, <1>8, <2>2, <3>1, <3>3 DEF TodoOK, RefreshStands, Figured
    <3> QED
      BY <1>2, <1>3, <1>4, <1>5, <1>6, <3>4 DEF RefreshInv, RefreshTyped, Phase, Reading
  <2>3. CASE phase = "signals"
    <3>1. Figured(ProbeDomain, Signals)' /\ SignalsStand'
      BY <1>8, <2>3, SignalsRead
    <3>2. /\ stage = "read signals" /\ asOf["rates"]' = asOf["rates"]
          /\ asOf["metrics"]' = asOf["metrics"]
      BY <1>1, <1>2, <2>3, StageNames DEF RowsOK
    <3>3. clean => RatesStand' /\ MetricsStand'
      BY <1>1, <1>2, <1>3, <2>3, <3>2, RatesSettled, MetricsSettled DEF RefreshStands
    <3>4. TodoOK' /\ RefreshStands'
      BY <1>2, <1>8, <2>3, <3>1, <3>3 DEF TodoOK, RefreshStands, Figured
    <3> QED
      BY <1>2, <1>3, <1>4, <1>5, <1>6, <3>4 DEF RefreshInv, RefreshTyped, Phase, Reading
  <2> QED
    BY <2>1, <2>2, <2>3 DEF Phase
<1> QED
  BY <1>2, <1>7, <1>8

\* A median lies between two of the values.
LEMMA MedianLies ==
    ASSUME NEW x, NEW I, NEW v, IsMedian(x, I, v)
    PROVE  \E i, j \in I : v[i] <= x /\ x <= v[j]
  BY DEF IsMedian

\* A rate is written, or the contract refuses it for its band.
LEMMA RateWritten ==
    ASSUME RefreshAssumption, RefreshInv, RatesStand, NEW k \in DOMAIN unwritten,
           stage = "rates", stage' = "rates", UNCHANGED logVars, asOf' = asOf, unwritten' = Rest(k),
           \/ rate' = [rate EXCEPT ![k] = unwritten[k]]
           \/ rate' = rate /\ ~(\A x \in unwritten[k] : Accepts("rates", k, x))
    PROVE  RatesStand'
<1>1. RowsOK /\ OracleOK /\ Figured(Target, Nat \ {0})
  BY DEF RefreshInv, RefreshTyped, TodoOK
<1>2. RowsStay /\ asOf["rates"]' = asOf["rates"]
  BY <1>1, RowsUntouched
<1>3. /\ DOMAIN rate = Corridor /\ k \in Target /\ k \in Corridor
      /\ DOMAIN rate' = Corridor /\ \A c \in Corridor \ {k} : rate'[c] = rate[c]
  BY <1>1 DEF OracleOK, Figured, RefreshAssumption
<1>4. /\ DOMAIN unwritten' = DOMAIN unwritten \ {k}
      /\ \A c \in DOMAIN unwritten \ {k} : unwritten'[c] = unwritten[c]
  BY DEF Rest
<1>5. ASSUME NEW c \in Target \ {k} PROVE RateStands(c)'
  <2>1. RateStands(c) /\ rate[c]' = rate[c]
    BY <1>3, <1>5 DEF RatesStand, RefreshAssumption
  <2>2. /\ c \in DOMAIN unwritten' <=> c \in DOMAIN unwritten
        /\ c \in DOMAIN unwritten' => unwritten[c]' = unwritten[c]
    BY <1>4
  <2> QED
    BY <1>1, <1>2, <2>1, <2>2, RateStays DEF RateStands
<1>6. RateStands(k)'
  <2>1. PICK x \in Nat \ {0} : unwritten[k] = {x}
    BY <1>1 DEF Figured
  <2>2. PICK I : I = RateRows(k)
    OBVIOUS
  <2>3. PICK v : v = Rates(RateRows(k))
    OBVIOUS
  <2>4. IsMedian(x, I, v)
    BY <1>3, <2>1, <2>2, <2>3 DEF RatesStand, RateStands, RateDue
  <2>5. CurrentRate(rate'[k], I, v)
    <3>1. CASE rate' = [rate EXCEPT ![k] = unwritten[k]]
      <4>1. rate'[k] = {x}
        BY <1>3, <2>1, <3>1
      <4> QED
        BY <2>4, <4>1 DEF CurrentRate
    <3>2. CASE rate' = rate /\ ~(\A y \in unwritten[k] : Accepts("rates", k, y))
      <4>1. PICK old \in rate[k] : ~WithinBand(old, x)
        BY <2>1, <3>2 DEF Accepts
      <4>2. PICK i \in I, j \in I : v[i] <= x /\ x <= v[j]
        BY <2>4, MedianLies
      <4>3. v[i] \in Nat /\ v[j] \in Nat
        <5>1. /\ v = Rates(I) /\ I \subseteq 1..asOf["rates"]
              /\ asOf["rates"] \in Nat /\ asOf["rates"] <= Len(attested)
          BY <1>1, <2>2, <2>3 DEF RateRows, PricedOf, Priced, Recent, RowsOK, Phase
        <5>2. i \in 1..Len(attested) /\ j \in 1..Len(attested)
          BY <1>1, <5>1, RowFacts
        <5> QED
          BY <1>1, <5>1, <5>2, RowFacts DEF Rates
      <4>4. x \in v[i]..v[j]
        BY <4>2, <4>3
      <4> QED
        BY <2>4, <3>2, <4>1, <4>4 DEF CurrentRate
    <3> QED
      BY <3>1, <3>2
  <2>6. RateIsCurrent(k)'
    <3>1. RateRows(k)' = I /\ Rates(RateRows(k))' = v
      BY <1>1, <1>2, <2>2, <2>3, RateRowsStay
    <3>2. (RateIsCurrent(k) <=> CurrentRate(rate[k], RateRows(k), Rates(RateRows(k))))'
      BY RateCurrencyNext
    <3> QED
      BY <2>5, <3>1, <3>2
  <2> QED
    BY <1>4, <2>6 DEF RateStands
<1> QED
  BY <1>5, <1>6 DEF RatesStand

\* Metrics are written, or refused for a settle time that is too long.
LEMMA MetricsWritten ==
    ASSUME RefreshAssumption, RefreshInv, MetricsStand, NEW k \in DOMAIN unwritten,
           stage = "metrics", stage' = "metrics", UNCHANGED logVars, asOf' = asOf,
           unwritten' = Rest(k),
           \/ metrics' = [metrics EXCEPT ![k] = unwritten[k]]
           \/ metrics' = metrics /\ ~(\A x \in unwritten[k] : Accepts("metrics", k, x))
    PROVE  MetricsStand'
<1>1. RowsOK /\ OracleOK /\ Figured(Pair, Figures)
  BY DEF RefreshInv, RefreshTyped, TodoOK
<1>2. RowsStay /\ asOf["metrics"]' = asOf["metrics"]
  BY <1>1, RowsUntouched
<1>3. /\ DOMAIN metrics = Pair /\ k \in Pair
      /\ DOMAIN metrics' = Pair /\ \A p \in Pair \ {k} : metrics'[p] = metrics[p]
  BY <1>1 DEF OracleOK, Figured
<1>4. /\ DOMAIN unwritten' = DOMAIN unwritten \ {k}
      /\ \A p \in DOMAIN unwritten \ {k} : unwritten'[p] = unwritten[p]
  BY DEF Rest
<1>5. ASSUME NEW p \in Pair \ {k} PROVE MetricsStands(p)'
  <2>1. MetricsStands(p) /\ metrics[p]' = metrics[p]
    BY <1>3, <1>5 DEF MetricsStand
  <2>2. /\ p \in DOMAIN unwritten' <=> p \in DOMAIN unwritten
        /\ p \in DOMAIN unwritten' => unwritten[p]' = unwritten[p]
    BY <1>4
  <2> QED
    BY <1>1, <1>2, <2>1, <2>2, MetricsStay DEF MetricsStands
<1>6. MetricsStands(k)'
  <2>1. PICK m \in Figures : unwritten[k] = {m}
    BY <1>1 DEF Figured
  <2>2. PICK G : G = MetricsRows(k)
    OBVIOUS
  <2>3. Measures(m, G)
    <3>1. MetricsDue(k)
      BY <1>3 DEF MetricsStand, MetricsStands
    <3> QED
      BY <2>1, <2>2, <3>1 DEF MetricsDue
  <2>4. MetricsRows(k)' = G
    BY <1>2, <2>2 DEF MetricsRows, OfPair, Recent, logVars
  <2>5. TooSlowFor(G) \/ metrics'[k] = {m}
    <3>1. CASE metrics' = [metrics EXCEPT ![k] = unwritten[k]]
      BY <1>3, <2>1, <3>1
    <3>2. CASE metrics' = metrics /\ ~(\A x \in unwritten[k] : Accepts("metrics", k, x))
      <4>1. ~(m.settle <= MaxSettle) /\ m.settle \in Nat /\ MaxSettle \in Nat
        BY <2>1, <3>2 DEF Accepts, Figures, RefreshAssumption
      <4>2. m.settle # 0 /\ m.settle > MaxSettle
        BY <4>1
      <4>3. PICK T : T = Timed(Completed(G))
        OBVIOUS
      <4>4. IsMedian(m.settle, T, Settles(T))
        BY <2>3, <4>2, <4>3 DEF Measures
      <4>5. PICK i \in T, j \in T : Settles(T)[i] <= m.settle /\ m.settle <= Settles(T)[j]
        BY <4>4, MedianLies
      <4>6. Settles(T)[i] \in Nat /\ Settles(T)[j] \in Nat
        <5>1. T \subseteq 1..asOf["metrics"]
          BY <2>2, <4>3 DEF MetricsRows, OfPair, Recent, Completed, Timed
        <5>2. asOf["metrics"] \in Nat /\ asOf["metrics"] <= Len(attested)
          BY <1>1 DEF RowsOK, Phase
        <5>3. i \in 1..Len(attested) /\ j \in 1..Len(attested)
          BY <1>1, <5>1, <5>2, RowFacts
        <5> QED
          BY <1>1, <5>3, RowFacts DEF Settles
      <4>7. m.settle \in Settles(T)[i]..Settles(T)[j]
        BY <4>1, <4>5, <4>6
      <4> QED
        BY <4>2, <4>3, <4>4, <4>7 DEF TooSlowFor
    <3> QED
      BY <3>1, <3>2
  <2>6. Measures(m, G)' /\ (TooSlowFor(G) => TooSlowFor(G)')
    <3>1. attested' = attested
      BY DEF logVars
    <3> QED
      BY <2>3, <3>1, MeasuresStay
  <2>7. MetricsAreCurrent(k)'
    <3>1. (MetricsAreCurrent(k) <=>
               \/ MetricsRows(k) = {} \/ TooSlowFor(MetricsRows(k))
               \/ \E m_1 \in metrics[k] : Measures(m_1, MetricsRows(k)))'
      BY MetricsCurrencyNext
    <3> QED
      BY <2>4, <2>5, <2>6, <3>1
  <2> QED
    BY <1>4, <2>7 DEF MetricsStands
<1>7. Pair' = Pair
  BY DEF Pair
<1> QED
  BY <1>5, <1>6, <1>7 DEF MetricsStand

\* Signals are written in the order of the domains: the contract refuses none of the
\* derived ones, and none but an earlier domain of the anchor gives way.
LEMMA SignalsWritten ==
    ASSUME RefreshAssumption, RefreshInv, SignalsStand, NEW k \in DOMAIN unwritten,
           \A q \in DOMAIN unwritten : k <= q,
           stage = "signals", stage' = "signals", UNCHANGED logVars, asOf' = asOf,
           unwritten' = Rest(k),
           \/ signals' = [signals EXCEPT ![AnchorOf[k]] = unwritten[k]]
           \/ signals' = signals /\ ~(\A x \in unwritten[k] : Accepts("signals", k, x))
    PROVE  SignalsStand'
<1>1. RowsOK /\ OracleOK /\ Figured(ProbeDomain, Signals)
  BY DEF RefreshInv, RefreshTyped, TodoOK
<1>2. RowsStay /\ asOf["signals"]' = asOf["signals"]
  BY <1>1, RowsUntouched
<1>3. /\ DOMAIN signals = RatedAnchor /\ k \in ProbeDomain /\ AnchorOf[k] \in RatedAnchor
      /\ ProbeDomain \subseteq Nat
  BY <1>1 DEF OracleOK, Figured, RefreshAssumption
<1>4. /\ DOMAIN unwritten' = DOMAIN unwritten \ {k}
      /\ \A d \in DOMAIN unwritten \ {k} : unwritten'[d] = unwritten[d]
  BY DEF Rest
<1>5. SignalsDue(k)
  BY <1>3 DEF SignalsStand, SignalsStands
<1>6. PICK s \in Signals : unwritten[k] = {s}
  BY <1>1 DEF Figured
<1>7. Reports(s, UptimeRows(k), QuoteRows(k)) /\ s.p50 <= s.p95
  BY <1>5, <1>6 DEF SignalsDue
<1>8. signals' = [signals EXCEPT ![AnchorOf[k]] = {s}]
  <2>1. \A x \in unwritten[k] : Accepts("signals", k, x)
    BY <1>6, <1>7 DEF Accepts
  <2> QED
    BY <1>6, <2>1
<1>9. SignalsStands(k)'
  <2>1. s \in signals'[AnchorOf[k]]
    BY <1>3, <1>8
  <2>2. Reports(s, UptimeRows(k), QuoteRows(k))'
    BY <1>1, <1>2, <1>7, ProbesStay
  <2>3. SignalsAreCurrent(k)'
    BY <2>1, <2>2 DEF SignalsAreCurrent
  <2> QED
    BY <1>4, <2>3 DEF SignalsStands
<1>10. ASSUME NEW d \in ProbeDomain \ {k}, d \in DOMAIN unwritten PROVE SignalsStands(d)'
  <2>1. SignalsDue(d)
    BY <1>10 DEF SignalsStand, SignalsStands
  <2>2. k < d
    <3>1. k <= d /\ k # d /\ k \in Nat /\ d \in Nat
      BY <1>3, <1>10
    <3> QED
      BY <3>1
  <2>3. Passed(d)'
    <3>1. ASSUME NEW e \in ProbeDomain, UptimeRows(e)' # {}, e \notin DOMAIN unwritten'
          PROVE  e < d
      <4>1. UptimeRows(e) # {}
        BY <1>1, <1>2, <3>1, ProbesStay
      <4>2. e = k \/ e \notin DOMAIN unwritten
        BY <1>4, <3>1
      <4> QED
        BY <2>1, <2>2, <4>1, <4>2 DEF SignalsDue, Passed
    <3> QED
      BY <3>1 DEF Passed
  <2>4. d \in DOMAIN unwritten' /\ unwritten[d]' = unwritten[d]
    BY <1>4, <1>10
  <2>5. SignalsDue(d)'
    BY <1>1, <1>2, <2>1, <2>3, <2>4, SignalsStayDue
  <2> QED
    BY <2>4, <2>5 DEF SignalsStands
<1>11. ASSUME NEW d \in ProbeDomain \ {k}, d \notin DOMAIN unwritten PROVE SignalsStands(d)'
  <2>1. SignalsAreCurrent(d)
    BY <1>11 DEF SignalsStand, SignalsStands
  <2>2. CASE AnchorOf[d] = AnchorOf[k]
    <3>1. ~LastOfAnchor(d)
      <4>1. SUFFICES ASSUME LastOfAnchor(d) PROVE FALSE
        OBVIOUS
      <4>2. UptimeRows(k) # {} /\ (UptimeRows(d) # {} => d < k)
        BY <1>5, <1>11 DEF SignalsDue, Passed
      <4>3. UptimeRows(d) # {} /\ k <= d
        BY <1>3, <2>2, <4>1, <4>2 DEF LastOfAnchor
      <4>4. d \in Nat /\ k \in Nat
        BY <1>3
      <4> QED
        BY <4>2, <4>3, <4>4
    <3>2. ~LastOfAnchor(d)'
      BY <1>1, <1>2, <3>1, LastStays
    <3>3. SignalsAreCurrent(d)'
      BY <3>2 DEF SignalsAreCurrent
    <3> QED
      BY <1>4, <1>11, <3>3 DEF SignalsStands
  <2>3. CASE AnchorOf[d] # AnchorOf[k]
    <3>1. signals[AnchorOf[d]]' = signals[AnchorOf[d]]
      <4>1. AnchorOf[d] \in RatedAnchor
        BY DEF RefreshAssumption
      <4> QED
        BY <1>3, <1>8, <2>3, <4>1
    <3>2. SignalsAreCurrent(d)'
      BY <1>1, <1>2, <2>1, <3>1, SignalsStay
    <3> QED
      BY <1>4, <1>11, <3>2 DEF SignalsStands
  <2> QED
    BY <2>2, <2>3
<1> QED
  BY <1>9, <1>10, <1>11 DEF SignalsStand

\* A write stores a typed figure under a key of its phase.
LEMMA WriteTypes ==
    ASSUME RefreshAssumption, RefreshInv, NEW phase \in Phase, NEW k \in DOMAIN unwritten,
           Write(phase, k)
    PROVE  RefreshTyped'
<1>1. RowsOK /\ OracleOK /\ TodoOK
  BY DEF RefreshInv, RefreshTyped
<1>2. /\ UNCHANGED logVars /\ asOf' = asOf /\ stage = phase /\ stage' = phase /\ unwritten' = Rest(k)
      /\ StoreFigures(phase, k, unwritten[k]) \/ UNCHANGED oracleVars
      /\ NoRefreshFault \/ RefreshFault
      /\ clean' = clean \/ clean' = FALSE
  BY DEF Write
<1>3. RowsOK'
  BY <1>1, <1>2, RowsUntouched
<1>4. rFaults' \in 0..MaxRefreshFaults
  BY <1>2, FaultsLeft
<1>5. clean' \in BOOLEAN
  BY <1>2 DEF RefreshInv, RefreshTyped
<1>6. /\ DOMAIN unwritten' = DOMAIN unwritten \ {k}
      /\ \A q \in DOMAIN unwritten \ {k} : unwritten'[q] = unwritten[q]
  BY <1>2 DEF Rest
<1>7. TodoOK'
  <2>1. ASSUME NEW K, NEW S, Figured(K, S)
        PROVE  \A q \in DOMAIN unwritten' : q \in K /\ \E x \in S : unwritten'[q] = {x}
    BY <1>6, <2>1 DEF Figured
  <2>2. stage' = stage /\ Pair' = Pair /\ Figures' = Figures /\ Signals' = Signals
    BY <1>2 DEF Pair, Figures, Signals
  <2>3. stage' = "rates" => Figured(Target, Nat \ {0})'
    <3>1. stage' = "rates" => Figured(Target, Nat \ {0})
      BY <1>1, <2>2 DEF TodoOK
    <3>2. Figured(Target, Nat \ {0})
          => \A q \in DOMAIN unwritten' : q \in Target /\ \E x \in Nat \ {0} : unwritten'[q] = {x}
      BY <2>1
    <3> QED
      BY <2>2, <3>1, <3>2 DEF Figured
  <2>4. stage' = "metrics" => Figured(Pair, Figures)'
    <3>1. stage' = "metrics" => Figured(Pair, Figures)
      BY <1>1, <2>2 DEF TodoOK
    <3>2. Figured(Pair, Figures)
          => \A q \in DOMAIN unwritten' : q \in Pair /\ \E x \in Figures : unwritten'[q] = {x}
      BY <2>1
    <3> QED
      BY <2>2, <3>1, <3>2 DEF Figured
  <2>5. stage' = "signals" => Figured(ProbeDomain, Signals)'
    <3>1. stage' = "signals" => Figured(ProbeDomain, Signals)
      BY <1>1, <2>2 DEF TodoOK
    <3>2. Figured(ProbeDomain, Signals)
          => \A q \in DOMAIN unwritten' : q \in ProbeDomain /\ \E x \in Signals : unwritten'[q] = {x}
      BY <2>1
    <3> QED
      BY <2>2, <3>1, <3>2 DEF Figured
  <2> QED
    BY <2>2, <2>3, <2>4, <2>5 DEF TodoOK
<1>8. OracleOK'
  <2>1. Pair' = Pair /\ Figures' = Figures /\ Signals' = Signals
    BY DEF Pair, Figures, Signals
  <2>2. CASE UNCHANGED oracleVars
    BY <1>1, <2>1, <2>2 DEF oracleVars, OracleOK, Held
  <2>3. CASE phase = "rates" /\ StoreFigures(phase, k, unwritten[k])
    <3>1. /\ rate' = [rate EXCEPT ![k] = unwritten[k]] /\ metrics' = metrics /\ signals' = signals
      BY <2>3 DEF StoreFigures
    <3>2. Held(unwritten[k], Nat \ {0})
      BY <1>1, <1>2, <2>3 DEF TodoOK, Figured, Held
    <3>3. DOMAIN rate' = Corridor /\ \A c \in Corridor : rate'[c] = rate[c] \/ rate'[c] = unwritten[k]
      BY <1>1, <3>1 DEF OracleOK
    <3>4. \A c \in Corridor : Held(rate'[c], Nat \ {0})
      BY <1>1, <3>2, <3>3 DEF OracleOK
    <3> QED
      BY <1>1, <2>1, <3>1, <3>3, <3>4 DEF OracleOK, Held
  <2>4. CASE phase = "metrics" /\ StoreFigures(phase, k, unwritten[k])
    <3>1. /\ metrics' = [metrics EXCEPT ![k] = unwritten[k]] /\ rate' = rate /\ signals' = signals
      BY <2>4 DEF StoreFigures
    <3>2. Held(unwritten[k], Figures)
      BY <1>1, <1>2, <2>4 DEF TodoOK, Figured, Held
    <3>3. DOMAIN metrics' = Pair /\ \A p \in Pair : metrics'[p] = metrics[p] \/ metrics'[p] = unwritten[k]
      BY <1>1, <3>1 DEF OracleOK
    <3>4. \A p \in Pair : Held(metrics'[p], Figures)
      BY <1>1, <3>2, <3>3 DEF OracleOK
    <3> QED
      BY <1>1, <2>1, <3>1, <3>3, <3>4 DEF OracleOK, Held
  <2>5. CASE phase = "signals" /\ StoreFigures(phase, k, unwritten[k])
    <3>1. /\ signals' = [signals EXCEPT ![AnchorOf[k]] = unwritten[k]]
          /\ rate' = rate /\ metrics' = metrics
      BY <2>5 DEF StoreFigures
    <3>2. Held(unwritten[k], Signals)
      BY <1>1, <1>2, <2>5 DEF TodoOK, Figured, Held
    <3>3. /\ DOMAIN signals' = RatedAnchor
          /\ \A a \in RatedAnchor : signals'[a] = signals[a] \/ signals'[a] = unwritten[k]
      BY <1>1, <3>1 DEF OracleOK
    <3>4. \A a \in RatedAnchor : Held(signals'[a], Signals)
      BY <1>1, <3>2, <3>3 DEF OracleOK
    <3> QED
      BY <1>1, <2>1, <3>1, <3>3, <3>4 DEF OracleOK, Held
  <2> QED
    BY <1>2, <2>2, <2>3, <2>4, <2>5 DEF Phase
<1> QED
  BY <1>2, <1>3, <1>4, <1>5, <1>7, <1>8 DEF RefreshTyped, Phase, Reading

\* A figure is written, refused or given up.
LEMMA WriteKeeps ==
    ASSUME RefreshAssumption, RefreshInv, NEW phase \in Phase, NEW k \in DOMAIN unwritten,
           Write(phase, k)
    PROVE  RefreshInv'
<1>1. RefreshTyped' /\ RowsOK /\ RefreshStands
  BY WriteTypes DEF RefreshInv, RefreshTyped
<1>2. /\ UNCHANGED logVars /\ asOf' = asOf /\ stage = phase /\ stage' = phase /\ unwritten' = Rest(k)
      /\ \/ StoreFigures(phase, k, unwritten[k]) /\ clean' = clean
         \/ /\ ~(\A x \in unwritten[k] : Accepts(phase, k, x))
            /\ rate' = rate /\ metrics' = metrics /\ signals' = signals /\ clean' = clean
         \/ clean' = FALSE
      /\ phase = "signals" => \A q \in DOMAIN unwritten : k <= q
  BY DEF Write, InTurn, oracleVars
<1>3. RowsStay /\ asOf["rates"]' = asOf["rates"] /\ asOf["metrics"]' = asOf["metrics"]
  BY <1>1, <1>2, RowsUntouched
<1>4. RefreshStands'
  <2> SUFFICES ASSUME clean' PROVE RefreshStands'
    BY DEF RefreshStands
  <2>1. clean
    BY <1>2
  <2>2. CASE phase = "rates"
    <3>1. \/ rate' = [rate EXCEPT ![k] = unwritten[k]]
          \/ rate' = rate /\ ~(\A x \in unwritten[k] : Accepts("rates", k, x))
      BY <1>2, <2>2 DEF StoreFigures
    <3>2. RatesStand
      BY <1>1, <2>1 DEF RefreshStands
    <3>3. stage = "rates" /\ stage' = "rates"
      BY <1>2, <2>2
    <3>4. RatesStand'
      BY <1>2, <3>1, <3>2, <3>3, RateWritten
    <3> QED
      BY <3>3, <3>4 DEF RefreshStands
  <2>3. CASE phase = "metrics"
    <3>1. \/ metrics' = [metrics EXCEPT ![k] = unwritten[k]]
          \/ metrics' = metrics /\ ~(\A x \in unwritten[k] : Accepts("metrics", k, x))
      BY <1>2, <2>3 DEF StoreFigures
    <3>2. rate' = rate
      BY <1>2, <2>3 DEF StoreFigures
    <3>3. stage = "metrics" /\ stage' = "metrics"
      BY <1>2, <2>3
    <3>4. RatesStand /\ MetricsStand
      BY <1>1, <2>1, <3>3 DEF RefreshStands
    <3>5. MetricsStand'
      BY <1>2, <3>1, <3>3, <3>4, MetricsWritten
    <3>6. RatesStand'
      BY <1>1, <1>3, <3>2, <3>3, <3>4, RatesSettled
    <3> QED
      BY <3>3, <3>5, <3>6 DEF RefreshStands
  <2>4. CASE phase = "signals"
    <3>1. \/ signals' = [signals EXCEPT ![AnchorOf[k]] = unwritten[k]]
          \/ signals' = signals /\ ~(\A x \in unwritten[k] : Accepts("signals", k, x))
      BY <1>2, <2>4 DEF StoreFigures
    <3>2. rate' = rate /\ metrics' = metrics
      BY <1>2, <2>4 DEF StoreFigures
    <3>3. stage = "signals" /\ stage' = "signals"
      BY <1>2, <2>4
    <3>4. RatesStand /\ MetricsStand /\ SignalsStand
      BY <1>1, <2>1, <3>3 DEF RefreshStands
    <3>5. SignalsStand'
      BY <1>2, <2>4, <3>1, <3>3, <3>4, SignalsWritten
    <3>6. RatesStand'
      BY <1>1, <1>3, <3>2, <3>3, <3>4, RatesSettled
    <3>7. MetricsStand'
      BY <1>1, <1>3, <3>2, <3>3, <3>4, MetricsSettled
    <3> QED
      BY <3>3, <3>5, <3>6, <3>7 DEF RefreshStands
  <2> QED
    BY <2>2, <2>3, <2>4 DEF Phase
<1> QED
  BY <1>1, <1>4 DEF RefreshInv

\* A step of anything.
LEMMA RefreshStep == RefreshAssumption /\ RefreshInv /\ [RefreshNext]_refreshVars => RefreshInv'
<1> SUFFICES ASSUME RefreshAssumption, RefreshInv, [RefreshNext]_refreshVars PROVE RefreshInv'
  OBVIOUS
<1>1. ASSUME NEW o \in Outcome, Reconcile(o) PROVE RefreshInv'
  BY <1>1, ReconcileKeeps
<1>2. ASSUME NEW s \in Sample, StoreSample(s) PROVE RefreshInv'
  BY <1>2, StoreSampleKeeps
<1>3. CASE RunBatch
  BY <1>3, RunBatchKeeps
<1>4. ASSUME NEW phase \in Phase, Read(phase) PROVE RefreshInv'
  BY <1>4, ReadKeeps
<1>5. ASSUME NEW phase \in Phase, NEW k \in DOMAIN unwritten, Write(phase, k) PROVE RefreshInv'
  BY <1>5, WriteKeeps
<1>6. CASE EndPhase
  BY <1>6, EndPhaseKeeps
<1>7. CASE Kill
  BY <1>7, KillKeeps
<1>8. ASSUME NEW c \in Corridor, ResetRate(c) PROVE RefreshInv'
  BY <1>8, ResetRateKeeps
<1>9. CASE UNCHANGED refreshVars
  <2>1. /\ UNCHANGED logVars /\ UNCHANGED <<oracleVars, stage, unwritten, asOf>>
        /\ UNCHANGED <<oracleVars, stage, unwritten>> /\ asOf' = asOf /\ stage' = stage
        /\ clean' = clean /\ rFaults' = rFaults
    BY <1>9 DEF refreshVars
  <2>2. RowsOK' /\ RowsStay
    BY <2>1, RowsUntouched DEF RefreshInv, RefreshTyped
  <2>3. OracleOK' /\ TodoOK'
    BY <2>1, TypedStill
  <2>4. RefreshStands'
    BY <2>1, <2>2, StandsStill
  <2> QED
    BY <2>1, <2>2, <2>3, <2>4 DEF RefreshInv, RefreshTyped, Phase, Reading
<1> QED
  BY <1>1, <1>2, <1>3, <1>4, <1>5, <1>6, <1>7, <1>8, <1>9 DEF RefreshNext

\* The invariant holds throughout.
LEMMA RefreshInvariance == RefreshSpec => []RefreshInv
<1>1. RefreshInit => RefreshInv
  BY RefreshStarts, RefreshAssumption
<1>2. RefreshInv /\ [RefreshNext]_refreshVars => RefreshInv'
  BY RefreshStep, RefreshAssumption
<1> QED
  BY <1>1, <1>2, PTL DEF RefreshSpec

\* At most one figure is a set of at most one.
LEMMA HeldIsFew ==
    ASSUME NEW r, NEW S, Held(r, S)
    PROVE  r \subseteq S /\ Cardinality(r) <= 1
<1>1. CASE r = {}
  BY <1>1, FS_EmptySet
<1>2. CASE \E x \in S : r = {x}
  <2>1. PICK x \in S : r = {x}
    BY <1>2
  <2> QED
    BY <2>1, FS_Singleton
<1> QED
  BY <1>1, <1>2 DEF Held

\* The rows, the figures and the stage of a refresh (packages/publisher/src/batch.ts)
\* are always of their types.
THEOREM RefreshTypes == RefreshSpec => []RefreshTypeOK
<1>1. RefreshInv => RefreshTypeOK
  BY HeldIsFew DEF RefreshInv, RefreshTyped, RowsOK, OracleOK, RefreshTypeOK
<1> QED
  BY <1>1, RefreshInvariance, PTL

\* Behind a refresh in which nothing failed (batch.ts), the contract holds the median, the
\* shares and the ranks of the newest rows (lib/oracle), a settle time of 0 where no row has
\* one, and of an anchor those of all samples of the last of its domains: whatever came in
\* meanwhile and however many other figures were refused.
THEOREM CleanRefreshIsAlwaysCurrent == RefreshSpec => []CleanRefreshIsCurrent
<1>1. RefreshInv => CleanRefreshIsCurrent
  <2> SUFFICES ASSUME RefreshInv, stage = "idle", clean
               PROVE  /\ \A c \in Target : RateIsCurrent(c)
                      /\ \A p \in Pair : MetricsAreCurrent(p)
                      /\ \A d \in ProbeDomain : SignalsAreCurrent(d)
    BY DEF CleanRefreshIsCurrent
  <2>1. RatesStand /\ MetricsStand /\ SignalsStand
    BY DEF RefreshInv, RefreshStands
  <2> QED
    BY <2>1 DEF RatesStand, RateStands, MetricsStand, MetricsStands, SignalsStand, SignalsStands
<1> QED
  BY <1>1, RefreshInvariance, PTL

===============================================================================
