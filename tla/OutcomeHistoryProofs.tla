------------------------ MODULE OutcomeHistoryProofs ------------------------
(***************************************************************************)
(* Proofs about OutcomeHistory, for every page size, page range and        *)
(* counter width.                                                          *)
(***************************************************************************)
EXTENDS OutcomeHistory, TLAPS, Integers, SequenceTheorems, WellFoundedInduction

\* The inductive invariant: PagesShape alone does not bound a page's length
\* through a roll-over, and OnlyTheCountCanRefuse is not inductive without the
\* bound of the settle sum by the count.
HistoryInv == HistoryTypeOK /\ PagesShape /\ AggregateBounds

\* What WriteHead returns is a page with room, whose length it states; it is
\* the head page, or the never written one after a full head page.
LEMMA WriteHeadHasRoom ==
    ASSUME HistoryTypeOK, PagesShape, NEW a \in Anchor, WriteHead(a).page <= MaxPage
    PROVE  /\ WriteHead(a).page \in PageNumber
           /\ WriteHead(a).len \in 0..(PageSize - 1)
           /\ WriteHead(a).len = Len(pages[a][WriteHead(a).page])
           /\ floor[a] <= WriteHead(a).page
           /\ \/ WriteHead(a) = head[a]
              \/ /\ WriteHead(a) = [page |-> head[a].page + 1, len |-> 0]
                 /\ head[a].len = PageSize
<1> USE HistoryAssumption DEF HistoryTypeOK, PageNumber
<1>1. /\ head[a].page \in 0..MaxPage /\ head[a].len \in 0..PageSize
      /\ floor[a] \in 0..MaxPage /\ floor[a] <= head[a].page
  BY DEF PagesShape
<1>2. CASE head[a].len >= PageSize
  <2>1. WriteHead(a) = [page |-> head[a].page + 1, len |-> 0]
    BY <1>2 DEF WriteHead
  <2>2. head[a].page + 1 \in PageNumber
    BY <1>1, <2>1
  <2>3. pages[a][head[a].page + 1] = <<>>
    BY <1>1, <2>2 DEF PagesShape
  <2>4. WriteHead(a).page = head[a].page + 1 /\ WriteHead(a).len = 0
    BY <2>1
  <2>5. head[a].len = PageSize /\ floor[a] <= head[a].page + 1
    BY <1>1, <1>2
  <2>6. 0 \in 0..(PageSize - 1) /\ 0 = Len(<<>>)
    OBVIOUS
  <2> QED
    BY <2>1, <2>2, <2>3, <2>4, <2>5, <2>6
<1>3. CASE head[a].len < PageSize
  <2>1. WriteHead(a) = head[a]
    BY <1>1, <1>3 DEF WriteHead
  <2> QED
    BY <1>1, <1>3, <2>1 DEF PagesShape
<1> QED
  BY <1>1, <1>2, <1>3

\* A deployed contract, with every entry at its default, satisfies the invariant.
LEMMA InitHistoryInv == Init => HistoryInv
<1> SUFFICES ASSUME HistoryInit PROVE HistoryInv
  BY DEF Init
<1> USE HistoryAssumption DEF HistoryInit, PageNumber
<1>1. HistoryTypeOK
  BY DEF HistoryTypeOK, ZeroAggregate
<1>2. PagesShape
  <2> SUFFICES ASSUME NEW a \in Anchor
               PROVE  /\ floor[a] <= head[a].page
                      /\ head[a].len = Len(pages[a][head[a].page])
                      /\ head[a].len = 0 => head[a].page = floor[a]
                      /\ \A p \in PageNumber : p \notin floor[a]..(head[a].page - 1)
                      /\ \A p \in PageNumber : pages[a][p] = <<>>
    BY DEF PagesShape
  <2>1. 0 \in PageNumber /\ head[a] = [page |-> 0, len |-> 0] /\ floor[a] = 0
    OBVIOUS
  <2>2. \A p \in PageNumber : pages[a][p] = <<>>
    OBVIOUS
  <2> QED
    BY <2>1, <2>2
<1>3. AggregateBounds
  BY DEF AggregateBounds, ZeroAggregate
<1> QED
  BY <1>1, <1>2, <1>3 DEF HistoryInv

-----------------------------------------------------------------------------
(* Aggregates.                                                             *)

\* Adding one more settle time below the cap keeps the sum below count times
\* cap.
LEMMA SumStaysBounded ==
    ASSUME NEW m \in Nat, NEW t \in Nat, NEW s \in Nat, NEW x \in 0..m, s <= t * m
    PROVE  s + x <= (t + 1) * m
<1>1. (t + 1) * m = t * m + m /\ t * m \in Nat
  OBVIOUS
<1> QED
  BY <1>1

\* Multiplication by a natural is monotone.
LEMMA TimesMonotone ==
    ASSUME NEW m \in Nat, NEW i \in Nat, NEW j \in Nat, i <= j
    PROVE  i * m <= j * m
<1>1. PICK d \in Nat : j = i + d
  <2>1. j - i \in Nat /\ j = i + (j - i)
    OBVIOUS
  <2> QED
    BY <2>1
<1>2. j * m = i * m + d * m /\ d * m \in Nat /\ i * m \in Nat
  BY <1>1
<1> QED
  BY <1>2

\* In an aggregate within its bounds, a settle time below the cap always fits:
\* the u64 sum gives up after the u32 count does.
THEOREM OnlyTheCountCanRefuseHolds ==
    HistoryInv => OnlyTheCountCanRefuse
<1> SUFFICES ASSUME HistoryInv,
                    NEW a \in Anchor, NEW c \in Corridor, NEW settle \in 0..MaxSettle,
                    NEW success \in BOOLEAN,
                    aggregate[a][c].total < MaxTotal
             PROVE  CanRecord(aggregate[a][c], settle, success)
  BY DEF OnlyTheCountCanRefuse
<1> DEFINE agg == aggregate[a][c]
<1> USE HistoryAssumption
<1>1. /\ agg.total \in Nat /\ agg.successes \in Nat /\ agg.settleSum \in Nat
      /\ agg.successes <= agg.total /\ agg.settleSum <= agg.total * MaxSettle
  BY DEF HistoryInv, HistoryTypeOK, AggregateBounds
<1>2. agg.settleSum + settle <= (agg.total + 1) * MaxSettle
  BY <1>1, SumStaysBounded
<1>3. (agg.total + 1) * MaxSettle <= MaxTotal * MaxSettle
  BY <1>1, TimesMonotone
<1>4. (agg.total + 1) * MaxSettle \in Nat /\ MaxTotal * MaxSettle \in Nat
  BY <1>1
<1>5. agg.settleSum + settle <= MaxSum
  BY <1>1, <1>2, <1>3, <1>4
<1> QED
  BY <1>1, <1>5 DEF CanRecord

-----------------------------------------------------------------------------
(* The steps.                                                              *)

\* A submission keeps the invariant.
LEMMA SubmitKeepsInv ==
    ASSUME HistoryInv,
           NEW p \in Publisher, NEW a \in Anchor, NEW c \in Corridor, NEW h \in Hash,
           NEW settle \in 0..(MaxSettle + 1), NEW success \in BOOLEAN,
           SubmitOutcome(p, a, c, h, settle, success)
    PROVE  HistoryInv'
<1> DEFINE at == WriteHead(a)
           o == [hash |-> h, settle |-> settle, success |-> success]
           agg == aggregate[a][c]
<1> USE HistoryAssumption DEF HistoryInv
<1>1. /\ pages' = [pages EXCEPT ![a][at.page] = Append(@, o)]
      /\ head' = [head EXCEPT ![a] = [page |-> at.page, len |-> at.len + 1]]
      /\ aggregate' = [aggregate EXCEPT ![a][c] = Recorded(@, settle, success)]
      /\ floor' = floor
      /\ at.page <= MaxPage
      /\ CanRecord(agg, settle, success)
  BY DEF SubmitOutcome
<1>2. settle \in 0..MaxSettle /\ o \in Outcome
  BY DEF SubmitOutcome, ValidOutcome, Outcome
<1>3. /\ at.page \in PageNumber /\ at.len \in 0..(PageSize - 1)
      /\ at.len = Len(pages[a][at.page])
      /\ floor[a] <= at.page
      /\ \/ at = head[a]
         \/ /\ at = [page |-> head[a].page + 1, len |-> 0]
            /\ head[a].len = PageSize
  BY <1>1, WriteHeadHasRoom
<1>4. /\ agg.total \in 0..MaxTotal /\ agg.successes \in 0..MaxTotal
      /\ agg.settleSum \in 0..MaxSum
      /\ agg.successes <= agg.total /\ agg.settleSum <= agg.total * MaxSettle
  BY DEF HistoryTypeOK, AggregateBounds
<1>5. /\ Recorded(agg, settle, success) \in
            [total : 0..MaxTotal, successes : 0..MaxTotal, settleSum : 0..MaxSum]
      /\ Recorded(agg, settle, success).successes <= Recorded(agg, settle, success).total
  <2>1. agg.total + 1 \in 0..MaxTotal /\ agg.settleSum + settle \in 0..MaxSum
    <3>1. agg.total < MaxTotal /\ agg.settleSum + settle <= MaxSum
      BY <1>1, Zenon DEF CanRecord
    <3> QED
      BY <1>2, <1>4, <3>1
  <2> DEFINE one == IF success THEN 1 ELSE 0
  <2>2. (success /\ one = 1) \/ one = 0
    <3>1. CASE success
      BY <3>1
    <3>2. CASE ~success
      BY <3>2
    <3> QED
      BY <3>1, <3>2
  <2>3. (one = 1 /\ agg.successes < MaxTotal) \/ one = 0
    BY <1>1, <2>2, Zenon DEF CanRecord
  <2> HIDE DEF one
  <2>4. /\ agg.successes + one \in 0..MaxTotal
        /\ agg.successes + one <= agg.total + 1
    BY <1>4, <2>3
  <2>5. Recorded(agg, settle, success) =
          [total |-> agg.total + 1, successes |-> agg.successes + one,
           settleSum |-> agg.settleSum + settle]
    BY DEF Recorded, one
  <2> QED
    BY <2>1, <2>4, <2>5
<1>6. Recorded(agg, settle, success).settleSum
        <= Recorded(agg, settle, success).total * MaxSettle
  <2>1. agg.settleSum + settle <= (agg.total + 1) * MaxSettle
    BY <1>2, <1>4, SumStaysBounded
  <2> QED
    BY <2>1 DEF Recorded
<1>7. HistoryTypeOK'
  <2>1. head' \in [Anchor -> [page : PageNumber, len : 0..PageSize]]
    <3> DEFINE Heads == [page : PageNumber, len : 0..PageSize]
               h2 == [page |-> at.page, len |-> at.len + 1]
    <3>1. \A n \in 0..(PageSize - 1) : n + 1 \in 0..PageSize
      OBVIOUS
    <3>2. h2 \in Heads
      BY <1>3, <3>1
    <3>3. head \in [Anchor -> Heads] /\ head' = [head EXCEPT ![a] = h2]
      BY <1>1 DEF HistoryTypeOK
    <3> HIDE DEF Heads, h2
    <3>4. head' \in [Anchor -> Heads]
      BY <3>2, <3>3
    <3> QED BY <3>4 DEF Heads
  <2>2. pages' \in [Anchor -> [PageNumber -> Seq(Outcome)]]
    <3>1. pages \in [Anchor -> [PageNumber -> Seq(Outcome)]]
      BY DEF HistoryTypeOK
    <3>2. pages[a][at.page] \in Seq(Outcome)
      BY <1>3, <3>1
    <3>3. Append(pages[a][at.page], o) \in Seq(Outcome)
      BY <1>2, <3>2
    <3> QED BY <1>1, <1>3, <3>1, <3>3
  <2>3. aggregate' \in [Anchor -> [Corridor ->
            [total : 0..MaxTotal, successes : 0..MaxTotal, settleSum : 0..MaxSum]]]
    BY <1>1, <1>5 DEF HistoryTypeOK
  <2> QED
    BY <1>1, <2>1, <2>2, <2>3 DEF HistoryTypeOK
<1>8. PagesShape'
  <2> SUFFICES ASSUME NEW b \in Anchor
               PROVE  /\ floor'[b] <= head'[b].page
                      /\ head'[b].len = Len(pages'[b][head'[b].page])
                      /\ head'[b].len = 0 => head'[b].page = floor'[b]
                      /\ \A q \in PageNumber :
                          /\ q \in floor'[b]..(head'[b].page - 1)
                               => Len(pages'[b][q]) = PageSize
                          /\ q > head'[b].page => pages'[b][q] = <<>>
    BY DEF PagesShape
  <2>1. CASE b # a
    <3>1. head'[b] = head[b] /\ pages'[b] = pages[b] /\ floor'[b] = floor[b]
      BY <1>1, <2>1 DEF HistoryTypeOK
    <3> QED
      BY <3>1 DEF PagesShape
  <2>2. CASE b = a
    <3>1. /\ head'[a] = [page |-> at.page, len |-> at.len + 1]
          /\ floor'[a] = floor[a]
          /\ pages'[a][at.page] = Append(pages[a][at.page], o)
          /\ \A q \in PageNumber : q # at.page => pages'[a][q] = pages[a][q]
      BY <1>1, <1>3 DEF HistoryTypeOK
    <3>2. pages[a][at.page] \in Seq(Outcome)
      BY <1>3 DEF HistoryTypeOK
    <3>3. Len(pages'[a][at.page]) = at.len + 1
      BY <1>3, <3>1, <3>2
    <3>4. ASSUME NEW q \in PageNumber
          PROVE  /\ q \in floor[a]..(at.page - 1) => Len(pages'[a][q]) = PageSize
                 /\ q > at.page => pages'[a][q] = <<>>
      <4>1. /\ head[a].page \in Nat /\ floor[a] \in Nat /\ at.page \in Nat /\ q \in Nat
        <5>1. head[a].page \in PageNumber /\ floor[a] \in PageNumber /\ at.page \in PageNumber
          BY <1>3 DEF HistoryTypeOK
        <5> QED
          BY <5>1 DEF PageNumber
      <4>6. /\ head[a].len = Len(pages[a][head[a].page])
            /\ q \in floor[a]..(head[a].page - 1) => Len(pages[a][q]) = PageSize
            /\ q > head[a].page => pages[a][q] = <<>>
        BY DEF PagesShape
      <4>2. \/ at.page = head[a].page
            \/ at.page = head[a].page + 1 /\ head[a].len = PageSize
        BY <1>3
      <4>3. q # at.page => pages'[a][q] = pages[a][q]
        BY <3>1
      <4>4. ASSUME q \in floor[a]..(at.page - 1)
            PROVE  Len(pages[a][q]) = PageSize /\ q # at.page
        <5>1. q # at.page
          BY <4>1, <4>4
        <5>2. CASE at.page = head[a].page
          BY <4>4, <4>6, <5>1, <5>2
        <5>3. CASE at.page = head[a].page + 1 /\ head[a].len = PageSize
          <6>1. q = head[a].page \/ q \in floor[a]..(head[a].page - 1)
            BY <4>1, <4>4, <5>3
          <6> QED BY <4>6, <5>1, <5>3, <6>1
        <5> QED BY <4>2, <5>2, <5>3
      <4>5. ASSUME q > at.page
            PROVE  pages[a][q] = <<>> /\ q # at.page
        BY <4>1, <4>2, <4>5, <4>6
      <4> QED
        BY <4>3, <4>4, <4>5
    <3>5. head'[a].page = at.page /\ head'[a].len = at.len + 1
      BY <3>1
    <3>6. floor'[a] <= at.page /\ at.len + 1 # 0
      BY <1>3, <3>1
    <3> HIDE DEF at
    <3> QED
      BY <2>2, <3>1, <3>3, <3>4, <3>5, <3>6
  <2> QED
    BY <2>1, <2>2
<1>9. AggregateBounds'
  <2> SUFFICES ASSUME NEW b \in Anchor, NEW d \in Corridor
               PROVE  /\ aggregate'[b][d].successes <= aggregate'[b][d].total
                      /\ aggregate'[b][d].settleSum <= aggregate'[b][d].total * MaxSettle
    BY DEF AggregateBounds
  <2>1. CASE b = a /\ d = c
    <3>1. aggregate'[b][d] = Recorded(agg, settle, success)
      BY <1>1, <2>1 DEF HistoryTypeOK
    <3> QED
      BY <1>5, <1>6, <3>1
  <2>2. CASE ~(b = a /\ d = c)
    <3>1. aggregate'[b][d] = aggregate[b][d]
      BY <1>1, <2>2 DEF HistoryTypeOK
    <3> QED
      BY <3>1 DEF AggregateBounds
  <2> QED
    BY <2>1, <2>2
<1> QED
  BY <1>7, <1>8, <1>9

\* So does a history reset: it may open only a page that was never written.
LEMMA ResetKeepsInv ==
    ASSUME HistoryInv, NEW a \in Anchor, ResetOutcomeHistory(a)
    PROVE  HistoryInv'
<1> DEFINE fresh == head[a].page + 1
<1> USE HistoryAssumption DEF HistoryInv, PageNumber
<1>1. /\ fresh \in PageNumber
      /\ head' = [head EXCEPT ![a] = [page |-> fresh, len |-> 0]]
      /\ floor' = [floor EXCEPT ![a] = fresh]
      /\ pages' = pages /\ aggregate' = aggregate
  BY DEF ResetOutcomeHistory, FreshPage, HistoryTypeOK
<1>2. HistoryTypeOK'
  <2>1. [page |-> fresh, len |-> 0] \in [page : PageNumber, len : 0..PageSize]
    BY <1>1
  <2>2. head' \in [Anchor -> [page : PageNumber, len : 0..PageSize]]
    BY <1>1, <2>1 DEF HistoryTypeOK
  <2>3. floor' \in [Anchor -> PageNumber]
    BY <1>1 DEF HistoryTypeOK
  <2> QED BY <1>1, <2>2, <2>3 DEF HistoryTypeOK
<1>3. PagesShape'
  <2> SUFFICES ASSUME NEW b \in Anchor
               PROVE  /\ floor'[b] <= head'[b].page
                      /\ head'[b].len = Len(pages'[b][head'[b].page])
                      /\ head'[b].len = 0 => head'[b].page = floor'[b]
                      /\ \A q \in PageNumber :
                          /\ q \in floor'[b]..(head'[b].page - 1)
                               => Len(pages'[b][q]) = PageSize
                          /\ q > head'[b].page => pages'[b][q] = <<>>
    BY DEF PagesShape
  <2>1. CASE b # a
    <3>1. head'[b] = head[b] /\ pages'[b] = pages[b] /\ floor'[b] = floor[b]
      BY <1>1, <2>1 DEF HistoryTypeOK
    <3> QED
      BY <3>1 DEF PagesShape
  <2>2. CASE b = a
    <3>1. head'[a] = [page |-> fresh, len |-> 0] /\ floor'[a] = fresh /\ pages'[a] = pages[a]
      BY <1>1 DEF HistoryTypeOK
    <3>2. head[a].page \in Nat
      BY DEF HistoryTypeOK
    <3>3. \A q \in PageNumber : q > head[a].page => pages[a][q] = <<>>
      BY DEF PagesShape
    <3>4. pages[a][fresh] = <<>>
      BY <1>1, <3>2, <3>3
    <3>5. \A q \in PageNumber : q > fresh => pages[a][q] = <<>>
      BY <3>2, <3>3
    <3>6. \A q \in PageNumber : q \notin fresh..(fresh - 1)
      BY <3>2
    <3> QED
      BY <2>2, <3>1, <3>2, <3>4, <3>5, <3>6
  <2> QED
    BY <2>1, <2>2
<1>4. AggregateBounds'
  BY <1>1 DEF AggregateBounds
<1> QED
  BY <1>2, <1>3, <1>4

\* And an aggregate reset.
LEMMA ResetAggregateKeepsInv ==
    ASSUME HistoryInv, NEW a \in Anchor, NEW c \in Corridor, ResetCorridorAggregate(a, c)
    PROVE  HistoryInv'
<1> USE HistoryAssumption DEF HistoryInv
<1>1. /\ aggregate' = [aggregate EXCEPT ![a][c] = ZeroAggregate]
      /\ head' = head /\ floor' = floor /\ pages' = pages
  BY DEF ResetCorridorAggregate
<1>2. HistoryTypeOK'
  BY <1>1 DEF HistoryTypeOK, ZeroAggregate
<1>3. PagesShape'
  BY <1>1 DEF PagesShape
<1>4. AggregateBounds'
  <2> SUFFICES ASSUME NEW b \in Anchor, NEW d \in Corridor
               PROVE  /\ aggregate'[b][d].successes <= aggregate'[b][d].total
                      /\ aggregate'[b][d].settleSum <= aggregate'[b][d].total * MaxSettle
    BY DEF AggregateBounds
  <2>1. CASE b = a /\ d = c
    <3>1. aggregate'[b][d] = ZeroAggregate
      BY <1>1, <2>1 DEF HistoryTypeOK
    <3> QED
      BY <3>1 DEF ZeroAggregate
  <2>2. CASE ~(b = a /\ d = c)
    <3>1. aggregate'[b][d] = aggregate[b][d]
      BY <1>1, <2>2 DEF HistoryTypeOK
    <3> QED
      BY <3>1 DEF AggregateBounds
  <2> QED
    BY <2>1, <2>2
<1> QED
  BY <1>2, <1>3, <1>4

\* No call of the contract, whichever entry point and caller, breaks the invariant.
LEMMA NextKeepsInv == HistoryInv /\ [Next]_vars => HistoryInv'
<1> SUFFICES ASSUME HistoryInv, [Next]_vars PROVE HistoryInv'
  OBVIOUS
<1>1. CASE UNCHANGED historyVars
  BY <1>1 DEF historyVars, HistoryInv, HistoryTypeOK, PagesShape, AggregateBounds
<1>2. CASE HistoryNext
  BY <1>2, SubmitKeepsInv, ResetKeepsInv, ResetAggregateKeepsInv DEF HistoryNext
<1> QED
  BY <1>1, <1>2 DEF Next, vars

-----------------------------------------------------------------------------
(* The results.                                                            *)

\* The inductive invariant of the outcome storage: types, page shape and
\* aggregate bounds hold together in every reachable state.
THEOREM HistoryInvariant == Spec => []HistoryInv
<1> QED
  BY InitHistoryInv, NextKeepsInv, PTL DEF Spec

\* The bookkeeping that makes a write O(1) is right in every reachable state.
THEOREM PagesShapeHolds == Spec => []PagesShape
<1>1. HistoryInv => PagesShape
  BY DEF HistoryInv
<1> QED
  BY <1>1, HistoryInvariant, PTL

\* The settle sum never refuses a submission, whatever the u32 and u64 widths,
\* as long as MaxTotal * MaxSettle fits (2^32 * 10^6 < 2^64).
THEOREM SumNeverRefuses == Spec => []OnlyTheCountCanRefuse
<1> QED
  BY OnlyTheCountCanRefuseHolds, HistoryInvariant, PTL

\* The invariant read off for one anchor: its head, floor and pages.
LEMMA AnchorFacts ==
    ASSUME HistoryInv, NEW b \in Anchor
    PROVE  /\ head[b].page \in Nat /\ floor[b] \in Nat /\ floor[b] <= head[b].page
           /\ \A q \in PageNumber : pages[b][q] \in Seq(Outcome)
           /\ \A q \in PageNumber : Len(pages[b][q]) \in Nat
<1> USE HistoryAssumption DEF HistoryInv
<1>1. head[b].page \in PageNumber /\ floor[b] \in PageNumber
  BY DEF HistoryTypeOK
<1>2. \A q \in PageNumber : pages[b][q] \in Seq(Outcome)
  BY DEF HistoryTypeOK
<1>3. \A q \in PageNumber : Len(pages[b][q]) \in Nat
  BY <1>2
<1> QED
  BY <1>1, <1>2, <1>3 DEF PagesShape, PageNumber

\* No call of the contract rewrites, drops or moves a stored outcome.
LEMMA StepsGrow == HistoryInv /\ [Next]_vars => \A a \in Anchor : Grows(a)
<1> USE HistoryAssumption DEF HistoryInv, PageNumber
<1>1. ASSUME HistoryInv, [Next]_vars
      PROVE  \A a \in Anchor : Grows(a)
  <2>1. CASE UNCHANGED historyVars
    <3> SUFFICES ASSUME NEW b \in Anchor PROVE Grows(b)
      OBVIOUS
    <3>1. /\ head[b].page \in Nat /\ floor[b] \in Nat
          /\ \A p \in PageNumber : Len(pages[b][p]) \in Nat
      BY <1>1, AnchorFacts
    <3> QED
      BY <2>1, <3>1 DEF Grows, historyVars
  <2>2. ASSUME NEW p \in Publisher, NEW a \in Anchor, NEW c \in Corridor, NEW h \in Hash,
               NEW settle \in 0..(MaxSettle + 1), NEW success \in BOOLEAN,
               SubmitOutcome(p, a, c, h, settle, success)
        PROVE  \A b \in Anchor : Grows(b)
    <3> DEFINE at == WriteHead(a)
               o == [hash |-> h, settle |-> settle, success |-> success]
    <3>1. /\ pages' = [pages EXCEPT ![a][at.page] = Append(@, o)]
          /\ head' = [head EXCEPT ![a] = [page |-> at.page, len |-> at.len + 1]]
          /\ floor' = floor
          /\ at.page <= MaxPage
          /\ o \in Outcome
      BY <2>2 DEF SubmitOutcome, ValidOutcome, Outcome
    <3>2. /\ at.page \in PageNumber
          /\ at.page = head[a].page \/ at.page = head[a].page + 1
      BY <1>1, <3>1, WriteHeadHasRoom
    <3> SUFFICES ASSUME NEW b \in Anchor PROVE Grows(b)
      OBVIOUS
    <3>3. /\ head[b].page \in Nat /\ floor[b] \in Nat
          /\ \A q \in PageNumber : pages[b][q] \in Seq(Outcome)
      BY <1>1, AnchorFacts
    <3>4. head[b].page <= head'[b].page /\ floor[b] <= floor'[b]
      <4>1. head'[b].page = head[b].page \/ (b = a /\ head'[b].page = at.page)
        BY <1>1, <3>1 DEF HistoryTypeOK
      <4>2. floor'[b] = floor[b]
        BY <3>1
      <4>3. b = a => head[b].page <= at.page
        BY <3>2, <3>3
      <4> HIDE DEF at
      <4> QED
        BY <3>3, <4>1, <4>2, <4>3
    <3>5. ASSUME NEW q \in PageNumber
          PROVE  /\ Len(pages[b][q]) <= Len(pages'[b][q])
                 /\ \A i \in 1..Len(pages[b][q]) : pages'[b][q][i] = pages[b][q][i]
                 /\ q < head[b].page => pages'[b][q] = pages[b][q]
      <4>1. CASE b = a /\ q = at.page
        <5>1. pages'[b][q] = Append(pages[b][q], o)
          BY <1>1, <3>1, <4>1 DEF HistoryTypeOK
        <5>2. ~(q < head[b].page)
          BY <3>2, <3>3, <4>1
        <5>3. pages[b][q] \in Seq(Outcome) /\ o \in Outcome
          BY <3>1, <3>3
        <5> HIDE DEF o
        <5>4. /\ Len(pages[b][q]) <= Len(pages'[b][q])
              /\ \A i \in 1..Len(pages[b][q]) : pages'[b][q][i] = pages[b][q][i]
          BY <5>1, <5>3
        <5> QED
          BY <5>2, <5>4
      <4>2. CASE ~(b = a /\ q = at.page)
        <5>1. pages'[b][q] = pages[b][q]
          BY <1>1, <3>1, <4>2 DEF HistoryTypeOK
        <5> QED
          BY <3>3, <5>1
      <4> QED
        BY <4>1, <4>2
    <3> QED
      BY <3>4, <3>5 DEF Grows
  <2>3. ASSUME NEW a \in Anchor, ResetOutcomeHistory(a)
        PROVE  \A b \in Anchor : Grows(b)
    <3> SUFFICES ASSUME NEW b \in Anchor PROVE Grows(b)
      OBVIOUS
    <3>1. /\ head' = [head EXCEPT ![a] = [page |-> head[a].page + 1, len |-> 0]]
          /\ floor' = [floor EXCEPT ![a] = head[a].page + 1]
          /\ pages' = pages
      BY <2>3 DEF ResetOutcomeHistory, FreshPage
    <3>2. /\ head[b].page \in Nat /\ floor[b] \in Nat /\ floor[b] <= head[b].page
          /\ \A p \in PageNumber : Len(pages[b][p]) \in Nat
      BY <1>1, AnchorFacts
    <3>3. head[b].page <= head'[b].page /\ floor[b] <= floor'[b]
      <4>1. \/ head'[b] = head[b] /\ floor'[b] = floor[b]
            \/ head'[b].page = head[b].page + 1 /\ floor'[b] = head[b].page + 1
        BY <1>1, <3>1 DEF HistoryTypeOK
      <4> QED
        BY <3>2, <4>1
    <3> QED
      BY <3>1, <3>2, <3>3 DEF Grows
  <2>4. ASSUME NEW a \in Anchor, NEW c \in Corridor, ResetCorridorAggregate(a, c)
        PROVE  \A b \in Anchor : Grows(b)
    <3> SUFFICES ASSUME NEW b \in Anchor PROVE Grows(b)
      OBVIOUS
    <3>1. /\ head[b].page \in Nat /\ floor[b] \in Nat
          /\ \A p \in PageNumber : Len(pages[b][p]) \in Nat
      BY <1>1, AnchorFacts
    <3> QED
      BY <2>4, <3>1 DEF Grows, ResetCorridorAggregate
  <2> QED
    BY <1>1, <2>1, <2>2, <2>3, <2>4 DEF Next, HistoryNext, vars
<1> QED
  BY <1>1

\* Append-only pages: a reader's cached page below the head never goes stale.
THEOREM HistoryOnlyGrowsHolds == Spec => HistoryOnlyGrows
<1>1. HistoryInv /\ [Next]_vars => [\A a \in Anchor : Grows(a)]_vars
  BY StepsGrow
<1> QED
  BY <1>1, HistoryInvariant, PTL DEF Spec, HistoryOnlyGrows

\* No operation of the history touches the registries.
LEMMA HistoryLeavesRegistry == HistoryNext \/ UNCHANGED vars => UNCHANGED registryVars
<1>1. ASSUME NEW p \in Publisher, NEW a \in Anchor, NEW c \in Corridor, NEW h \in Hash,
             NEW settle \in 0..(MaxSettle + 1), NEW success \in BOOLEAN,
             SubmitOutcome(p, a, c, h, settle, success)
      PROVE  UNCHANGED registryVars
  BY <1>1 DEF SubmitOutcome
<1>2. ASSUME NEW a \in Anchor, ResetOutcomeHistory(a)
      PROVE  UNCHANGED registryVars
  BY <1>2 DEF ResetOutcomeHistory
<1>3. ASSUME NEW a \in Anchor, NEW c \in Corridor, ResetCorridorAggregate(a, c)
      PROVE  UNCHANGED registryVars
  BY <1>3 DEF ResetCorridorAggregate
<1>4. UNCHANGED vars => UNCHANGED registryVars
  BY DEF vars
<1> QED
  BY <1>1, <1>2, <1>3, <1>4 DEF HistoryNext

\* A scope belongs to a whitelisted publisher, through every sequence of
\* additions, scopings and revocations.
THEOREM OnlyWhitelistedAreScopedHolds == Spec => []OnlyWhitelistedAreScoped
<1>1. Init => OnlyWhitelistedAreScoped
  BY DEF Init, RegistryInit, OnlyWhitelistedAreScoped
<1>2. OnlyWhitelistedAreScoped /\ [Next]_vars => OnlyWhitelistedAreScoped'
  <2> SUFFICES ASSUME OnlyWhitelistedAreScoped, [Next]_vars
               PROVE  OnlyWhitelistedAreScoped'
    OBVIOUS
  <2> USE DEF OnlyWhitelistedAreScoped
  <2>1. CASE UNCHANGED registryVars
    BY <2>1 DEF registryVars, publisherVars
  <2>2. ASSUME NEW p \in Publisher, RevokePublisher(p) \/ ClearPublisherScope(p)
        PROVE  OnlyWhitelistedAreScoped'
    <3>1. DOMAIN scope' = DOMAIN scope \ {p}
      BY <2>2 DEF RevokePublisher, ClearPublisherScope, Unscoped
    <3>2. publisherFlags \ {p} \subseteq publisherFlags'
      BY <2>2 DEF RevokePublisher, ClearPublisherScope
    <3> QED
      BY <3>1, <3>2
  <2>3. ASSUME NEW p \in Publisher, NEW cs \in SUBSET Corridor, SetPublisherScope(p, cs)
        PROVE  OnlyWhitelistedAreScoped'
    <3>1. DOMAIN scope' = DOMAIN scope \cup {p}
      BY <2>3 DEF SetPublisherScope, Scoped
    <3> QED
      BY <2>3, <3>1 DEF SetPublisherScope
  <2>4. CASE HistoryNext
    BY <2>1, <2>4, HistoryLeavesRegistry
  <2>5. CASE RegistryNext
    <3>1. ASSUME NEW a \in Anchor, RegisterAnchor(a) PROVE OnlyWhitelistedAreScoped'
      BY <3>1 DEF RegisterAnchor, publisherVars
    <3>2. ASSUME NEW c \in Corridor, RegisterCorridor(c) PROVE OnlyWhitelistedAreScoped'
      BY <3>2 DEF RegisterCorridor, publisherVars
    <3>3. ASSUME NEW p \in Publisher, AddPublisher(p) PROVE OnlyWhitelistedAreScoped'
      BY <3>3 DEF AddPublisher
    <3> QED
      BY <2>2, <2>3, <2>5, <3>1, <3>2, <3>3 DEF RegistryNext
  <2> QED
    BY <2>1, <2>4, <2>5 DEF Next, vars
<1> QED
  BY <1>1, <1>2, PTL DEF Spec

-----------------------------------------------------------------------------
(* The paged history implements the abstract log of OutcomeLog, for every  *)
(* page size and page range.                                               *)

\* Division by a positive number of a quotient times it plus a remainder.
LEMMA DivModUnique ==
    ASSUME NEW m \in Nat \ {0}, NEW k \in Nat, NEW r \in 0..(m - 1)
    PROVE  (k * m + r) \div m = k /\ (k * m + r) % m = r
<1> DEFINE x == k * m + r
           q == x \div m
           s == x % m
<1>1. x \in Nat
  OBVIOUS
<1>2. q \in Int /\ s \in 0..(m - 1) /\ x = m * q + s
  BY <1>1
<1>3. q \in Nat
  BY <1>1
<1> HIDE DEF q, s
<1>4. ~(k < q)
  <2> SUFFICES ASSUME k + 1 <= q PROVE FALSE
    BY <1>3
  <2>1. (k + 1) * m <= q * m
    BY <1>3, TimesMonotone
  <2>2. (k + 1) * m = k * m + m /\ m * q = q * m /\ k * m \in Nat /\ q * m \in Nat
    BY <1>3
  <2> QED
    BY <1>2, <2>1, <2>2
<1>5. ~(q < k)
  <2> SUFFICES ASSUME q + 1 <= k PROVE FALSE
    BY <1>3
  <2>1. (q + 1) * m <= k * m
    BY <1>3, TimesMonotone
  <2>2. (q + 1) * m = q * m + m /\ m * q = q * m /\ k * m \in Nat /\ q * m \in Nat
    BY <1>3
  <2> QED
    BY <1>2, <2>1, <2>2
<1>6. q = k
  BY <1>3, <1>4, <1>5
<1>7. s = r
  <2>1. m * q = k * m /\ k * m \in Nat
    BY <1>6
  <2> QED
    BY <1>2, <2>1
<1> QED
  BY <1>6, <1>7 DEF q, s

\* An index of k full blocks and r more falls into block k when it is past
\* them, into an earlier one otherwise.
LEMMA BlockOf ==
    ASSUME NEW m \in Nat \ {0}, NEW k \in Nat, NEW r \in 0..m, NEW i \in 1..(k * m + r)
    PROVE  LET q == (i - 1) \div m
               s == (i - 1) % m
           IN  /\ q \in 0..k /\ s \in 0..(m - 1)
               /\ q = k => s + 1 <= r
<1> DEFINE q == (i - 1) \div m
           s == (i - 1) % m
<1>1. k * m \in Nat /\ i - 1 \in Nat
  OBVIOUS
<1>2. q \in Nat /\ s \in 0..(m - 1) /\ i - 1 = m * q + s
  BY <1>1
<1> HIDE DEF q, s
<1>3. ~(k < q)
  <2> SUFFICES ASSUME k + 1 <= q PROVE FALSE
    BY <1>2
  <2>1. (k + 1) * m <= q * m
    BY <1>2, TimesMonotone
  <2>2. (k + 1) * m = k * m + m /\ m * q = q * m /\ q * m \in Nat
    BY <1>2
  <2> QED
    BY <1>1, <1>2, <2>1, <2>2
<1>4. ASSUME q = k PROVE s + 1 <= r
  <2>1. m * q = k * m
    BY <1>4
  <2> QED
    BY <1>1, <1>2, <2>1
<1> QED
  BY <1>2, <1>3, <1>4 DEF q, s

-----------------------------------------------------------------------------
(* The live log.                                                           *)

\* Every index of the live log falls into a written entry of a readable page.
LEMMA LiveEntryInBounds ==
    ASSUME HistoryInv, NEW a \in Anchor, NEW i \in 1..LiveSize(a)
    PROVE  LET p == floor[a] + (i - 1) \div PageSize
               j == ((i - 1) % PageSize) + 1
           IN  p \in PageNumber /\ j \in 1..Len(pages[a][p])
<1> DEFINE k == head[a].page - floor[a]
           r == head[a].len
           q == (i - 1) \div PageSize
           s == (i - 1) % PageSize
<1> USE HistoryAssumption
<1>1. /\ head[a].page \in 0..MaxPage /\ floor[a] \in Nat /\ floor[a] <= head[a].page
      /\ r \in 0..PageSize /\ r = Len(pages[a][head[a].page])
  BY DEF HistoryInv, HistoryTypeOK, PagesShape, PageNumber
<1>2. k \in Nat /\ head[a].page = floor[a] + k
  BY <1>1
<1>3. i \in 1..(k * PageSize + r)
  BY DEF LiveSize
<1> HIDE DEF k, r
<1>4. q \in 0..k /\ s \in 0..(PageSize - 1) /\ (q = k => s + 1 <= r)
  BY <1>1, <1>2, <1>3, BlockOf DEF r
<1> HIDE DEF q, s
<1>5. floor[a] + q \in PageNumber
  <2>1. floor[a] + q <= head[a].page /\ floor[a] + q \in Nat
    BY <1>1, <1>2, <1>4
  <2> QED BY <1>1, <2>1 DEF PageNumber
<1>6. s + 1 \in 1..Len(pages[a][floor[a] + q])
  <2>1. CASE q = k
    <3>1. floor[a] + q = head[a].page /\ s + 1 <= r /\ s + 1 \in Nat \ {0}
      BY <1>2, <1>4, <2>1
    <3> QED BY <1>1, <3>1
  <2>2. CASE q # k
    <3>1. floor[a] + q \in floor[a]..(head[a].page - 1)
      BY <1>1, <1>2, <1>4, <2>2
    <3>2. Len(pages[a][floor[a] + q]) = PageSize
      BY <1>5, <3>1 DEF HistoryInv, PagesShape
    <3> QED
      BY <1>4, <3>2
  <2> QED
    BY <2>1, <2>2
<1> QED
  BY <1>5, <1>6 DEF q, s

\* The live entries of an anchor, read across its pages, form a sequence of outcomes.
LEMMA LiveLogIsSeq ==
    ASSUME HistoryInv, NEW a \in Anchor
    PROVE  /\ LiveSize(a) \in Nat
           /\ LiveLog(a) \in Seq(Outcome)
           /\ Len(LiveLog(a)) = LiveSize(a)
           /\ \A i \in 1..LiveSize(a) : LiveLog(a)[i] = LiveEntry(a, i)
<1> USE HistoryAssumption
<1>1. LiveSize(a) \in Nat
  <2>1. head[a].page - floor[a] \in Nat /\ head[a].len \in Nat
    BY DEF HistoryInv, HistoryTypeOK, PagesShape, PageNumber
  <2> QED
    BY <2>1 DEF LiveSize
<1>2. ASSUME NEW i \in 1..LiveSize(a) PROVE LiveEntry(a, i) \in Outcome
  <2> DEFINE p == floor[a] + (i - 1) \div PageSize
             j == ((i - 1) % PageSize) + 1
  <2>1. p \in PageNumber /\ j \in 1..Len(pages[a][p])
    BY LiveEntryInBounds
  <2>2. LiveEntry(a, i) = pages[a][p][j]
    BY DEF LiveEntry
  <2> HIDE DEF p, j
  <2>3. pages[a][p] \in Seq(Outcome)
    BY <2>1, AnchorFacts
  <2> QED
    BY <2>1, <2>2, <2>3
<1> HIDE DEF LiveSize
<1>3. LiveLog(a) \in [1..LiveSize(a) -> Outcome]
  BY <1>2 DEF LiveLog
<1>4. LiveLog(a) \in Seq(Outcome) /\ Len(LiveLog(a)) = LiveSize(a)
  BY <1>1, <1>3
<1> QED
  BY <1>1, <1>4 DEF LiveLog

\* While the floor stays, so does every live entry, at its index.
LEMMA LiveEntriesStay ==
    ASSUME HistoryInv, [Next]_vars, NEW a \in Anchor, floor'[a] = floor[a],
           NEW i \in 1..LiveSize(a)
    PROVE  LiveEntry(a, i)' = LiveEntry(a, i)
<1> DEFINE p == floor[a] + (i - 1) \div PageSize
           j == ((i - 1) % PageSize) + 1
<1>1. p \in PageNumber /\ j \in 1..Len(pages[a][p])
  BY LiveEntryInBounds
<1>2. LiveEntry(a, i) = pages[a][p][j] /\ LiveEntry(a, i)' = pages'[a][p][j]
  BY DEF LiveEntry
<1> HIDE DEF p, j
<1>3. Grows(a)
  BY StepsGrow
<1>4. pages'[a][p][j] = pages[a][p][j]
  BY <1>1, <1>3 DEF Grows
<1> QED
  BY <1>2, <1>4

\* A step that touches neither floor nor head of an anchor leaves its live log.
LEMMA LiveLogStays ==
    ASSUME HistoryInv, [Next]_vars, NEW a \in Anchor, floor'[a] = floor[a], head'[a] = head[a]
    PROVE  LiveLog(a)' = LiveLog(a)
<1>1. LiveSize(a)' = LiveSize(a)
  BY DEF LiveSize
<1>2. \A i \in 1..LiveSize(a) : LiveEntry(a, i)' = LiveEntry(a, i)
  BY LiveEntriesStay
<1>3. LiveLog(a)' = [i \in 1..LiveSize(a)' |-> LiveEntry(a, i)']
  BY DEF LiveLog
<1> HIDE DEF LiveSize, LiveEntry
<1> QED
  BY <1>1, <1>2, <1>3 DEF LiveLog

\* A submission appends its outcome to the live log of its anchor.
LEMMA SubmitAppends ==
    ASSUME HistoryInv, [Next]_vars,
           NEW p \in Publisher, NEW a \in Anchor, NEW c \in Corridor, NEW h \in Hash,
           NEW settle \in 0..(MaxSettle + 1), NEW success \in BOOLEAN,
           SubmitOutcome(p, a, c, h, settle, success)
    PROVE  LET o == [hash |-> h, settle |-> settle, success |-> success]
           IN  o \in Outcome /\ LiveLog(a)' = Append(LiveLog(a), o)
<1> DEFINE at == WriteHead(a)
           o == [hash |-> h, settle |-> settle, success |-> success]
           k == at.page - floor[a]
<1> USE HistoryAssumption
<1>0. PICK n \in Nat : n = LiveSize(a)
  BY LiveLogIsSeq
<1>1. /\ pages' = [pages EXCEPT ![a][at.page] = Append(@, o)]
      /\ head' = [head EXCEPT ![a] = [page |-> at.page, len |-> at.len + 1]]
      /\ floor' = floor
      /\ at.page <= MaxPage
  BY DEF SubmitOutcome
<1>2. o \in Outcome
  BY DEF SubmitOutcome, ValidOutcome, Outcome
<1>3. /\ at.page \in PageNumber /\ at.len \in 0..(PageSize - 1)
      /\ at.len = Len(pages[a][at.page])
      /\ floor[a] <= at.page
      /\ \/ at = head[a]
         \/ /\ at = [page |-> head[a].page + 1, len |-> 0]
            /\ head[a].len = PageSize
  BY <1>1, WriteHeadHasRoom DEF HistoryInv
<1>4. /\ head[a].page \in Nat /\ floor[a] \in Nat /\ floor[a] <= head[a].page
      /\ at.page \in Nat /\ k \in Nat /\ at.page = floor[a] + k
  BY <1>3, AnchorFacts DEF PageNumber
<1>5. n = k * PageSize + at.len
  <2>1. CASE at = head[a]
    BY <1>0, <2>1 DEF LiveSize
  <2>2. CASE at = [page |-> head[a].page + 1, len |-> 0] /\ head[a].len = PageSize
    <3> DEFINE d == head[a].page - floor[a]
    <3>1. d \in Nat /\ k = d + 1 /\ at.len = 0
      BY <1>4, <2>2
    <3>2. n = d * PageSize + PageSize
      BY <1>0, <2>2 DEF LiveSize
    <3> HIDE DEF d, k
    <3>3. (d + 1) * PageSize = d * PageSize + PageSize /\ d * PageSize \in Nat
      BY <3>1
    <3> QED
      BY <3>1, <3>2, <3>3
  <2> QED
    BY <1>3, <2>1, <2>2
<1>6. LiveSize(a)' = n + 1
  <2>1. head'[a] = [page |-> at.page, len |-> at.len + 1] /\ floor'[a] = floor[a]
    BY <1>1 DEF HistoryInv, HistoryTypeOK
  <2>2. LiveSize(a)' = k * PageSize + (at.len + 1)
    BY <2>1 DEF LiveSize
  <2>3. k * PageSize \in Nat /\ at.len \in Nat
    BY <1>3, <1>4
  <2> QED
    BY <1>5, <2>2, <2>3
<1>7. LiveEntry(a, n + 1)' = o
  <2>1. n \div PageSize = k /\ n % PageSize = at.len
    BY <1>3, <1>4, <1>5, DivModUnique
  <2>3. floor'[a] = floor[a]
    BY <1>1
  <2>4. LiveEntry(a, n + 1)' = pages'[a][floor[a] + n \div PageSize][(n % PageSize) + 1]
    <3>1. (n + 1) - 1 = n
      OBVIOUS
    <3>2. LiveEntry(a, n + 1)'
            = pages'[a][floor'[a] + ((n + 1) - 1) \div PageSize]
                    [(((n + 1) - 1) % PageSize) + 1]
      BY DEF LiveEntry
    <3> QED
      BY <2>3, <3>1, <3>2
  <2>5. LiveEntry(a, n + 1)' = pages'[a][at.page][at.len + 1]
    BY <1>4, <2>1, <2>4
  <2>6. pages'[a][at.page] = Append(pages[a][at.page], o)
    BY <1>1, <1>3 DEF HistoryInv, HistoryTypeOK
  <2>7. pages[a][at.page] \in Seq(Outcome)
    BY <1>3, AnchorFacts
  <2> HIDE DEF o
  <2>8. Append(pages[a][at.page], o)[Len(pages[a][at.page]) + 1] = o
    BY <1>2, <2>7
  <2> QED
    BY <1>3, <2>5, <2>6, <2>8
<1>8. \A i \in 1..n : LiveEntry(a, i)' = LiveEntry(a, i)
  BY <1>0, <1>1, LiveEntriesStay
<1>9. /\ n \in Nat /\ LiveLog(a) \in Seq(Outcome) /\ Len(LiveLog(a)) = n
      /\ \A i \in 1..n : LiveLog(a)[i] = LiveEntry(a, i)
  BY <1>0, LiveLogIsSeq
<1>10. LiveLog(a)' = [i \in 1..LiveSize(a)' |-> LiveEntry(a, i)']
  BY DEF LiveLog
<1> HIDE DEF o
<1>11. LiveLog(a)' = [i \in 1..(n + 1) |-> IF i \in 1..n THEN LiveLog(a)[i] ELSE o]
  <2>1. ASSUME NEW i \in 1..(n + 1)
        PROVE  LiveEntry(a, i)' = IF i \in 1..n THEN LiveLog(a)[i] ELSE o
    <3>1. CASE i \in 1..n
      BY <1>8, <1>9, <3>1
    <3>2. CASE i \notin 1..n
      <4>1. i = n + 1
        BY <1>9, <3>2
      <4> QED
        BY <1>7, <3>2, <4>1
    <3> QED
      BY <3>1, <3>2
  <2> QED
    BY <1>6, <1>10, <2>1
<1> DEFINE new == [i \in 1..(n + 1) |-> IF i \in 1..n THEN LiveLog(a)[i] ELSE o]
<1>12. new \in Seq(Outcome) /\ Len(new) = n + 1
  <2>1. \A i \in 1..n : LiveLog(a)[i] \in Outcome
    BY <1>9
  <2> QED
    BY <1>2, <2>1
<1>13. Append(LiveLog(a), o) = new
  <2>1. /\ Append(LiveLog(a), o) \in Seq(Outcome)
        /\ Len(Append(LiveLog(a), o)) = n + 1
        /\ \A i \in 1..n : Append(LiveLog(a), o)[i] = LiveLog(a)[i]
        /\ Append(LiveLog(a), o)[n + 1] = o
    BY <1>2, <1>9, AppendProperties
  <2>2. ASSUME NEW i \in 1..(n + 1) PROVE Append(LiveLog(a), o)[i] = new[i]
    <3>1. CASE i \in 1..n
      BY <2>1, <3>1
    <3>2. CASE i = n + 1
      <4>1. i \notin 1..n /\ new[i] = o
        BY <3>2
      <4> HIDE DEF new
      <4> QED
        BY <2>1, <3>2, <4>1
    <3>3. i \in 1..n \/ i = n + 1
      OBVIOUS
    <3> QED
      BY <3>1, <3>2, <3>3, Zenon
  <2> HIDE DEF new
  <2> QED
    BY <1>12, <2>1, <2>2, SeqEqual
<1> QED
  BY <1>2, <1>11, <1>13 DEF o

-----------------------------------------------------------------------------
(* The refinement.                                                         *)

\* Initially every live log is empty.
LEMMA InitRefines == Init => Log!LogInit
<1> SUFFICES ASSUME Init, NEW a \in Anchor PROVE LiveLog(a) = <<>>
  BY DEF Log!LogInit
<1>1. head[a] = [page |-> 0, len |-> 0] /\ floor[a] = 0
  BY DEF Init, HistoryInit
<1>2. LiveSize(a) = 0
  BY <1>1, HistoryAssumption DEF LiveSize
<1> QED
  BY <1>2 DEF LiveLog

\* A submission is the abstract submission of its outcome.
LEMMA SubmitRefines ==
    ASSUME HistoryInv, [Next]_vars,
           NEW p \in Publisher, NEW a \in Anchor, NEW c \in Corridor, NEW h \in Hash,
           NEW settle \in 0..(MaxSettle + 1), NEW success \in BOOLEAN,
           SubmitOutcome(p, a, c, h, settle, success)
    PROVE  LET o == [hash |-> h, settle |-> settle, success |-> success]
           IN  o \in Outcome /\ Log!Submit(a, o)
<1> DEFINE o == [hash |-> h, settle |-> settle, success |-> success]
<1>1. o \in Outcome /\ LiveLog(a)' = Append(LiveLog(a), o)
  BY SubmitAppends
<1>2. ASSUME NEW b \in Anchor, b # a PROVE LiveLog(b)' = LiveLog(b)
  <2>1. head'[b] = head[b] /\ floor'[b] = floor[b]
    BY <1>2 DEF SubmitOutcome, HistoryInv, HistoryTypeOK
  <2> QED
    BY <2>1, LiveLogStays
<1> HIDE DEF o
<1> QED
  BY <1>1, <1>2 DEF Log!Submit, o

\* A history reset hides the log of its anchor.
LEMMA ResetRefines ==
    ASSUME HistoryInv, [Next]_vars, NEW a \in Anchor, ResetOutcomeHistory(a)
    PROVE  Log!Hide(a)
<1>1. LiveLog(a)' = <<>>
  <2>1. /\ head'[a] = [page |-> head[a].page + 1, len |-> 0]
        /\ floor'[a] = head[a].page + 1
        /\ head[a].page \in Nat
    BY AnchorFacts DEF ResetOutcomeHistory, FreshPage, HistoryInv, HistoryTypeOK
  <2>2. LiveSize(a)' = 0
    BY <2>1, HistoryAssumption DEF LiveSize
  <2> QED
    BY <2>2 DEF LiveLog
<1>2. ASSUME NEW b \in Anchor, b # a PROVE LiveLog(b)' = LiveLog(b)
  <2>1. head'[b] = head[b] /\ floor'[b] = floor[b]
    BY <1>2 DEF ResetOutcomeHistory, HistoryInv, HistoryTypeOK
  <2> QED
    BY <2>1, LiveLogStays
<1> QED
  BY <1>1, <1>2 DEF Log!Hide

\* Every call of the contract is an append, a hiding or a stutter of the abstract log.
LEMMA NextRefines ==
    HistoryInv /\ [Next]_vars => [Log!LogNext]_([a \in Anchor |-> LiveLog(a)])
<1> DEFINE live == [a \in Anchor |-> LiveLog(a)]
<1> SUFFICES ASSUME HistoryInv, [Next]_vars PROVE Log!LogNext \/ live' = live
  OBVIOUS
<1>1. ASSUME UNCHANGED <<head, floor>> PROVE live' = live
  <2>1. \A a \in Anchor : LiveLog(a)' = LiveLog(a)
    BY <1>1, LiveLogStays
  <2> QED
    BY <2>1
<1>2. CASE UNCHANGED historyVars
  BY <1>1, <1>2 DEF historyVars
<1>3. ASSUME NEW p \in Publisher, NEW a \in Anchor, NEW c \in Corridor, NEW h \in Hash,
             NEW settle \in 0..(MaxSettle + 1), NEW success \in BOOLEAN,
             SubmitOutcome(p, a, c, h, settle, success)
      PROVE  Log!LogNext
  <2>1. \E o \in Outcome : Log!Submit(a, o)
    BY <1>3, SubmitRefines
  <2> QED BY <2>1 DEF Log!LogNext
<1>4. ASSUME NEW a \in Anchor, ResetOutcomeHistory(a) PROVE Log!LogNext
  BY <1>4, ResetRefines DEF Log!LogNext
<1>5. ASSUME NEW a \in Anchor, NEW c \in Corridor, ResetCorridorAggregate(a, c)
      PROVE  live' = live
  BY <1>1, <1>5 DEF ResetCorridorAggregate
<1> QED
  BY <1>2, <1>3, <1>4, <1>5 DEF Next, HistoryNext, vars

\* The paged history implements the log that grows at its end and is hidden as
\* a whole, whatever the page size and however resets and roll-overs fall.
THEOREM HistoryRefinesLog == Spec => RefinesLog
<1> QED
  BY InitRefines, NextRefines, HistoryInvariant, PTL DEF Spec, RefinesLog, Log!LogSpec

\* Each call is the step of the log its name says: a submission appends its outcome to
\* the log of its anchor, a reset hides that log, and neither touches another
\* (history.rs append and reset_outcome_history).
THEOREM OperationsAlwaysMatchLog == Spec => OperationsMatchLog
<1> DEFINE Matches ==
        /\ \A p \in Publisher, a \in Anchor, c \in Corridor, h \in Hash,
              settle \in 0..MaxSettle, success \in BOOLEAN :
               SubmitOutcome(p, a, c, h, settle, success) =>
                   Log!Submit(a, [hash |-> h, settle |-> settle, success |-> success])
        /\ \A a \in Anchor : ResetOutcomeHistory(a) => Log!Hide(a)
<1>1. ASSUME HistoryInv, [Next]_vars PROVE Matches
  <2>1. ASSUME NEW p \in Publisher, NEW a \in Anchor, NEW c \in Corridor, NEW h \in Hash,
               NEW settle \in 0..MaxSettle, NEW success \in BOOLEAN,
               SubmitOutcome(p, a, c, h, settle, success)
        PROVE  Log!Submit(a, [hash |-> h, settle |-> settle, success |-> success])
    <3>1. settle \in 0..(MaxSettle + 1)
      BY HistoryAssumption
    <3> QED
      BY <1>1, <2>1, <3>1, SubmitRefines
  <2>2. \A a \in Anchor : ResetOutcomeHistory(a) => Log!Hide(a)
    BY <1>1, ResetRefines
  <2> QED
    BY <2>1, <2>2
<1> QED
  BY <1>1, HistoryInvariant, PTL DEF Spec, OperationsMatchLog

-----------------------------------------------------------------------------
(* Induction up to a number, by way of the set of the numbers a fact holds *)
(* of.  It is what the two loops of the contract are proved with.          *)

\* A set that holds 0 and the successor of every member holds every number.
LEMMA SetInduction ==
    ASSUME NEW T, 0 \in T, \A n \in Nat : n \in T => n + 1 \in T
    PROVE  \A n \in Nat : n \in T
<1> DEFINE R == OpToRel(<, Nat)
           Out == Nat \ T
<1> SUFFICES ASSUME Out # {} PROVE FALSE
  OBVIOUS
<1>1. IsWellFoundedOn(R, Nat)
  BY NatLessThanWellFounded
<1>2. \A x, y \in Nat : x < y => <<x, y>> \in R
  BY DEF OpToRel
<1> HIDE DEF R
<1>3. PICK i \in Out : \A j \in Out : ~(<<j, i>> \in R)
  BY <1>1, WFMin
<1>4. i \in Nat /\ i # 0
  OBVIOUS
<1>5. i - 1 \in Nat /\ i - 1 < i /\ (i - 1) + 1 = i
  BY <1>4
<1>6. i - 1 \notin Out
  BY <1>2, <1>3, <1>4, <1>5
<1> QED
  BY <1>4, <1>5, <1>6

-----------------------------------------------------------------------------
(* The lists of the registries.                                            *)

\* A list without repetition stays one when a member it lacks is appended.
LEMMA AppendListed ==
    ASSUME NEW S, NEW list \in Seq(S), NEW members, Listed(list, members),
           NEW e \in S, e \notin members
    PROVE  Append(list, e) \in Seq(S) /\ Listed(Append(list, e), members \cup {e})
<1> DEFINE n == Len(list)
           new == Append(list, e)
<1>1. /\ n \in Nat /\ new \in Seq(S) /\ Len(new) = n + 1
      /\ \A i \in 1..n : new[i] = list[i]
      /\ new[n + 1] = e
  BY AppendProperties
<1>2. \A i, j \in 1..n : list[i] = list[j] => i = j
  BY DEF Listed
<1>3. {list[i] : i \in 1..n} = members
  BY DEF Listed
<1>4. \A i \in 1..n : list[i] # e
  BY <1>3
<1> HIDE DEF n, new
<1>5. ASSUME NEW i \in 1..(n + 1), NEW j \in 1..(n + 1), new[i] = new[j] PROVE i = j
  <2>1. (i \in 1..n \/ i = n + 1) /\ (j \in 1..n \/ j = n + 1)
    BY <1>1
  <2> QED
    BY <1>1, <1>2, <1>4, <1>5, <2>1
<1>6. {new[i] : i \in 1..(n + 1)} = members \cup {e}
  <2>1. \A i \in 1..(n + 1) : i \in 1..n \/ i = n + 1
    BY <1>1
  <2>2. \A i \in 1..n : i \in 1..(n + 1)
    BY <1>1
  <2>3. n + 1 \in 1..(n + 1)
    BY <1>1
  <2>4. ASSUME NEW x \in members PROVE \E i \in 1..(n + 1) : x = new[i]
    <3>1. PICK i \in 1..n : x = list[i]
      BY <1>3
    <3> QED
      BY <1>1, <2>2, <3>1
  <2>5. \A i \in 1..(n + 1) : new[i] \in members \cup {e}
    BY <1>1, <1>3, <2>1
  <2> QED
    BY <1>1, <2>3, <2>4, <2>5
<1> QED
  BY <1>1, <1>5, <1>6 DEF Listed, new

\* What the loop of revoke has kept of a list after each of its first n entries.
Keeps(f, list, p, n) ==
    f = [i \in 0..n |-> IF i = 0 THEN <<>>
                        ELSE IF list[i] = p THEN f[i - 1]
                        ELSE Append(f[i - 1], list[i])]

\* The loop can be run over any number of entries.
LEMMA KeptExists ==
    ASSUME NEW list, NEW p PROVE \A n \in Nat : \E f : Keeps(f, list, p, n)
<1> DEFINE T == {n \in Nat : \E f : Keeps(f, list, p, n)}
<1>1. 0 \in T
  <2> DEFINE f == [i \in 0..0 |-> <<>>]
  <2>1. Keeps(f, list, p, 0)
    BY DEF Keeps
  <2> QED
    BY <2>1
<1>2. ASSUME NEW n \in Nat, n \in T PROVE n + 1 \in T
  <2>1. PICK f : Keeps(f, list, p, n)
    BY <1>2
  <2> DEFINE g == [i \in 0..(n + 1) |->
                    IF i = n + 1
                    THEN IF list[n + 1] = p THEN f[n] ELSE Append(f[n], list[n + 1])
                    ELSE f[i]]
  <2>2. \A i \in 0..n : f[i] = IF i = 0 THEN <<>>
                               ELSE IF list[i] = p THEN f[i - 1]
                               ELSE Append(f[i - 1], list[i])
    BY <2>1, Zenon DEF Keeps
  <2>0. \A i \in 0..n : g[i] = f[i]
    <3>1. \A i \in 0..n : i \in 0..(n + 1) /\ i # n + 1
      OBVIOUS
    <3> QED
      BY <3>1, Zenon
  <2>3. g[n + 1] = IF list[n + 1] = p THEN f[n] ELSE Append(f[n], list[n + 1])
    OBVIOUS
  <2>4. ASSUME NEW i \in 0..(n + 1)
        PROVE  g[i] = IF i = 0 THEN <<>>
                      ELSE IF list[i] = p THEN g[i - 1]
                      ELSE Append(g[i - 1], list[i])
    <3> HIDE DEF g
    <3>1. CASE i = n + 1
      <4>1. n \in 0..n /\ i - 1 = n /\ i # 0
        BY <3>1
      <4> QED
        BY <2>0, <2>3, <3>1, <4>1
    <3>2. CASE i = 0
      <4>1. i \in 0..n
        BY <3>2
      <4>2. g[i] = f[i] /\ f[i] = <<>>
        BY <2>0, <2>2, <3>2, <4>1
      <4> QED
        BY <3>2, <4>2
    <3>3. CASE i \in 1..n
      <4>1. i \in 0..n /\ i - 1 \in 0..n
        BY <3>3
      <4>2. g[i] = f[i] /\ g[i - 1] = f[i - 1]
        BY <2>0, <4>1
      <4> QED
        BY <2>2, <3>3, <4>1, <4>2
    <3> QED
      BY <3>1, <3>2, <3>3
  <2>5. g = [i \in 0..(n + 1) |-> g[i]]
    OBVIOUS
  <2> HIDE DEF g
  <2>6. Keeps(g, list, p, n + 1)
    BY <2>4, <2>5 DEF Keeps
  <2> QED
    BY <2>6
<1> HIDE DEF T
<1>3. \A n \in Nat : n \in T
  BY <1>1, <1>2, SetInduction
<1> QED
  BY <1>3 DEF T

\* It keeps every entry but p, once and in its place.
LEMMA KeptIsListed ==
    ASSUME NEW list \in Seq(Publisher), NEW members, Listed(list, members), NEW p, NEW f,
           Keeps(f, list, p, Len(list))
    PROVE  f[Len(list)] \in Seq(Publisher) /\ Listed(f[Len(list)], members \ {p})
<1> DEFINE Before(n) == {list[i] : i \in 1..n}
           T == {n \in Nat : n <= Len(list) =>
                    f[n] \in Seq(Publisher) /\ Listed(f[n], Before(n) \ {p})}
<1>0. Len(list) \in Nat /\ \A i \in 1..Len(list) : list[i] \in Publisher
  OBVIOUS
<1>1. 0 \in T
  <2>1. f[0] = <<>>
    BY <1>0 DEF Keeps
  <2>2. Before(0) \ {p} = {}
    OBVIOUS
  <2>3. Listed(<<>>, {})
    BY DEF Listed
  <2> HIDE DEF Before
  <2>4. f[0] \in Seq(Publisher) /\ Listed(f[0], Before(0) \ {p})
    <3>1. <<>> \in Seq(Publisher)
      OBVIOUS
    <3> QED
      BY <2>1, <2>2, <2>3, <3>1, Zenon
  <2> QED
    BY <2>4
<1>2. ASSUME NEW n \in Nat, n \in T PROVE n + 1 \in T
  <2> SUFFICES ASSUME n + 1 <= Len(list)
               PROVE  f[n + 1] \in Seq(Publisher) /\ Listed(f[n + 1], Before(n + 1) \ {p})
    OBVIOUS
  <2>1. n + 1 \in 1..Len(list) /\ n <= Len(list)
    BY <1>0
  <2>2. f[n] \in Seq(Publisher) /\ Listed(f[n], Before(n) \ {p})
    BY <1>0, <1>2, <2>1
  <2>3. f[n + 1] = IF list[n + 1] = p THEN f[n] ELSE Append(f[n], list[n + 1])
    <3>1. n + 1 \in 0..Len(list) /\ n + 1 # 0 /\ (n + 1) - 1 = n
      BY <2>1
    <3> QED
      BY <3>1 DEF Keeps
  <2>4. Before(n + 1) = Before(n) \cup {list[n + 1]}
    <3>1. \A i \in 1..(n + 1) : i \in 1..n \/ i = n + 1
      OBVIOUS
    <3>2. n + 1 \in 1..(n + 1) /\ \A i \in 1..n : i \in 1..(n + 1)
      OBVIOUS
    <3> QED
      BY <3>1, <3>2
  <2>5. list[n + 1] \notin Before(n)
    <3> SUFFICES ASSUME NEW i \in 1..n, list[i] = list[n + 1] PROVE FALSE
      OBVIOUS
    <3>1. i \in 1..Len(list) /\ i # n + 1
      BY <1>0, <2>1
    <3> QED
      BY <2>1, <3>1 DEF Listed
  <2> HIDE DEF Before
  <2>6. CASE list[n + 1] = p
    <3>1. Before(n + 1) \ {p} = Before(n) \ {p}
      BY <2>4, <2>6
    <3> QED
      BY <2>2, <2>3, <2>6, <3>1
  <2>7. CASE list[n + 1] # p
    <3>1. Before(n + 1) \ {p} = (Before(n) \ {p}) \cup {list[n + 1]}
      BY <2>4, <2>7
    <3>2. list[n + 1] \in Publisher /\ list[n + 1] \notin Before(n) \ {p}
      BY <1>0, <2>1, <2>5
    <3>3. f[n + 1] = Append(f[n], list[n + 1])
      BY <2>3, <2>7
    <3> QED
      BY <2>2, <3>1, <3>2, <3>3, AppendListed
  <2> QED
    BY <2>6, <2>7
<1>3. Before(Len(list)) = members
  BY DEF Listed
<1> HIDE DEF T
<1>4. Len(list) \in T
  BY <1>0, <1>1, <1>2, SetInduction
<1> USE DEF T
<1> HIDE DEF Before
<1> QED
  BY <1>0, <1>3, <1>4

\* So the rebuilt list of the publishers has all of them but the revoked one.
LEMMA ListedWithoutIsListed ==
    ASSUME publisherList \in Seq(Publisher), Listed(publisherList, publisherFlags), NEW p
    PROVE  /\ ListedWithout(p) \in Seq(Publisher)
           /\ Listed(ListedWithout(p), publisherFlags \ {p})
<1> DEFINE n == Len(publisherList)
           f == CHOOSE kept : Keeps(kept, publisherList, p, n)
<1>1. ListedWithout(p) = f[n]
  BY DEF ListedWithout, Keeps
<1>2. \E kept : Keeps(kept, publisherList, p, n)
  <2>1. n \in Nat
    OBVIOUS
  <2> QED
    BY <2>1, KeptExists
<1>3. Keeps(f, publisherList, p, n)
  BY <1>2
<1> HIDE DEF f
<1>4. f[n] \in Seq(Publisher) /\ Listed(f[n], publisherFlags \ {p})
  BY <1>3, KeptIsListed
<1> QED
  BY <1>1, <1>4

\* The lists hold members of the right kind and mirror the flags.
RegistryInv ==
    /\ anchorList \in Seq(Anchor) /\ corridorList \in Seq(Corridor)
    /\ publisherList \in Seq(Publisher)
    /\ ListsMirrorFlags

\* In every reachable state each list view and the flags behind it name the same members,
\* without repetition (anchors.rs, corridors.rs, publishers.rs).
THEOREM ListsAlwaysMirrorFlags == Spec => []ListsMirrorFlags
<1>1. Init => RegistryInv
  <2> SUFFICES ASSUME RegistryInit PROVE RegistryInv
    BY DEF Init
  <2>1. Listed(<<>>, {})
    BY DEF Listed
  <2> QED
    BY <2>1 DEF RegistryInit, RegistryInv, ListsMirrorFlags
<1>2. RegistryInv /\ [Next]_vars => RegistryInv'
  <2> SUFFICES ASSUME RegistryInv, [Next]_vars PROVE RegistryInv'
    OBVIOUS
  <2>0. /\ anchorList \in Seq(Anchor) /\ corridorList \in Seq(Corridor)
        /\ publisherList \in Seq(Publisher)
        /\ Listed(anchorList, anchorTags) /\ Listed(corridorList, corridorTags)
        /\ Listed(publisherList, publisherFlags)
    BY DEF RegistryInv, ListsMirrorFlags
  <2>1. CASE UNCHANGED <<anchorVars, corridorVars, publisherFlags, publisherList>>
    BY <2>1, <2>0 DEF RegistryInv, ListsMirrorFlags, anchorVars, corridorVars
  <2>2. ASSUME NEW a \in Anchor, RegisterAnchor(a) PROVE RegistryInv'
    <3>1. anchorList' \in Seq(Anchor) /\ Listed(anchorList', anchorTags')
      BY <2>0, <2>2, AppendListed DEF RegisterAnchor
    <3> QED
      BY <2>0, <2>2, <3>1
      DEF RegisterAnchor, RegistryInv, ListsMirrorFlags, corridorVars, publisherVars
  <2>3. ASSUME NEW c \in Corridor, RegisterCorridor(c) PROVE RegistryInv'
    <3>1. corridorList' \in Seq(Corridor) /\ Listed(corridorList', corridorTags')
      BY <2>0, <2>3, AppendListed DEF RegisterCorridor
    <3> QED
      BY <2>0, <2>3, <3>1
      DEF RegisterCorridor, RegistryInv, ListsMirrorFlags, anchorVars, publisherVars
  <2>4. ASSUME NEW p \in Publisher, AddPublisher(p) PROVE RegistryInv'
    <3>1. publisherList' \in Seq(Publisher) /\ Listed(publisherList', publisherFlags')
      BY <2>0, <2>4, AppendListed DEF AddPublisher
    <3> QED
      BY <2>0, <2>4, <3>1
      DEF AddPublisher, RegistryInv, ListsMirrorFlags, anchorVars, corridorVars
  <2>5. ASSUME NEW p \in Publisher, RevokePublisher(p) PROVE RegistryInv'
    <3>1. publisherList' \in Seq(Publisher) /\ Listed(publisherList', publisherFlags')
      BY <2>0, <2>5, ListedWithoutIsListed DEF RevokePublisher
    <3> QED
      BY <2>0, <2>5, <3>1
      DEF RevokePublisher, RegistryInv, ListsMirrorFlags, anchorVars, corridorVars
  <2>6. CASE HistoryNext \/ UNCHANGED vars
    <3>1. UNCHANGED registryVars
      BY <2>6, HistoryLeavesRegistry
    <3> QED
      BY <2>1, <3>1 DEF registryVars, publisherVars
  <2>7. CASE RegistryNext
    <3>1. ASSUME NEW p \in Publisher, NEW cs, SetPublisherScope(p, cs)
          PROVE  UNCHANGED <<anchorVars, corridorVars, publisherFlags, publisherList>>
      BY <3>1 DEF SetPublisherScope
    <3>2. ASSUME NEW p \in Publisher, ClearPublisherScope(p)
          PROVE  UNCHANGED <<anchorVars, corridorVars, publisherFlags, publisherList>>
      BY <3>2 DEF ClearPublisherScope
    <3> QED
      BY <2>1, <2>2, <2>3, <2>4, <2>5, <2>7, <3>1, <3>2 DEF RegistryNext
  <2> QED
    BY <2>6, <2>7 DEF Next
<1>3. RegistryInv => ListsMirrorFlags
  BY DEF RegistryInv
<1> QED
  BY <1>1, <1>2, <1>3, PTL DEF Spec

-----------------------------------------------------------------------------
(* The reader.  By induction on the page, what the walk returns from page  *)
(* p down are the newest live entries up to the end of that page.          *)

\* How many live entries there are up to the end of page p.
LiveUpTo(a, p) == (p - floor[a]) * PageSize + Len(pages[a][p])

\* A sequence s is the newest r of them, newest first.
IsNewest(s, a, p, r) ==
    /\ s \in Seq(Outcome)
    /\ Len(s) = IF r < LiveUpTo(a, p) THEN r ELSE LiveUpTo(a, p)
    /\ \A i \in 1..Len(s) : s[i] = LiveEntry(a, LiveUpTo(a, p) + 1 - i)

\* What the walk returns from page p, when below is what it returns from the page before.
ReadPage(a, p, below) == [r \in 0..MaxRecent |->
    LET got == PageTail(pages[a][p], r)
    IN  IF Len(got) = r \/ AtFloor(a, p) THEN got ELSE got \o below[r - Len(got)]]

\* The walk from each of the first n + 1 pages.
Reads(f, a, n) == f = [p \in 0..n |-> ReadPage(a, p, f[p - 1])]

\* The walk can be taken from any page: at page 0 it looks no further.
LEMMA ReadExists ==
    ASSUME HistoryInv, NEW a \in Anchor PROVE \A n \in Nat : \E f : Reads(f, a, n)
<1> DEFINE T == {n \in Nat : \E f : Reads(f, a, n)}
<1>1. 0 \in T
  <2> DEFINE f == [p \in 0..0 |-> ReadPage(a, 0, <<>>)]
  <2>1. \A below : ReadPage(a, 0, below) = ReadPage(a, 0, <<>>)
    <3>1. AtFloor(a, 0)
      BY AnchorFacts DEF AtFloor
    <3> QED
      BY <3>1 DEF ReadPage
  <2>2. f = [p \in 0..0 |-> ReadPage(a, p, f[p - 1])]
    <3>1. \A p \in 0..0 : p = 0
      OBVIOUS
    <3> QED
      BY <2>1, <3>1
  <2> HIDE DEF f
  <2>3. Reads(f, a, 0)
    BY <2>2 DEF Reads
  <2> QED
    BY <2>3
<1>2. ASSUME NEW n \in Nat, n \in T PROVE n + 1 \in T
  <2>1. PICK f : Reads(f, a, n)
    BY <1>2
  <2> DEFINE g == [p \in 0..(n + 1) |-> IF p = n + 1 THEN ReadPage(a, n + 1, f[n]) ELSE f[p]]
  <2>2. \A p \in 0..n : f[p] = ReadPage(a, p, f[p - 1])
    BY <2>1, Zenon DEF Reads
  <2>3. \A p \in 0..n : g[p] = f[p]
    <3>1. \A p \in 0..n : p \in 0..(n + 1) /\ p # n + 1
      OBVIOUS
    <3> QED
      BY <3>1, Zenon
  <2>4. g[n + 1] = ReadPage(a, n + 1, f[n])
    OBVIOUS
  <2>5. g = [p \in 0..(n + 1) |-> g[p]]
    OBVIOUS
  <2> HIDE DEF g
  <2>6. ASSUME NEW p \in 0..(n + 1) PROVE g[p] = ReadPage(a, p, g[p - 1])
    <3>1. CASE p = n + 1
      <4>1. n \in 0..n /\ p - 1 = n
        BY <3>1
      <4> QED
        BY <2>3, <2>4, <3>1, <4>1
    <3>2. CASE p \in 1..n
      <4>1. p \in 0..n /\ p - 1 \in 0..n
        BY <3>2
      <4> QED
        BY <2>2, <2>3, <4>1
    <3>3. CASE p = 0
      <4>1. 0 \in 0..n /\ AtFloor(a, 0)
        BY AnchorFacts DEF AtFloor
      <4>2. ReadPage(a, 0, f[0 - 1]) = ReadPage(a, 0, g[0 - 1])
        BY <4>1 DEF ReadPage
      <4> QED
        BY <2>2, <2>3, <3>3, <4>1, <4>2
    <3> QED
      BY <3>1, <3>2, <3>3
  <2>7. Reads(g, a, n + 1)
    BY <2>5, <2>6 DEF Reads
  <2> QED
    BY <2>7
<1> HIDE DEF T
<1>3. \A n \in Nat : n \in T
  BY <1>1, <1>2, SetInduction
<1> QED
  BY <1>3 DEF T

\* The facts about a readable page that the walk needs: its size, and that the pages
\* before it are full.
LEMMA ReadablePage ==
    ASSUME HistoryInv, NEW a \in Anchor, NEW p \in floor[a]..head[a].page
    PROVE  /\ p \in PageNumber /\ p \in Nat /\ floor[a] \in Nat
           /\ pages[a][p] \in Seq(Outcome) /\ Len(pages[a][p]) \in 0..PageSize
           /\ LiveUpTo(a, p) \in Nat /\ Len(pages[a][p]) <= LiveUpTo(a, p)
           /\ p = floor[a] => LiveUpTo(a, p) = Len(pages[a][p])
           /\ p # floor[a] => /\ p - 1 \in floor[a]..head[a].page
                              /\ LiveUpTo(a, p) = LiveUpTo(a, p - 1) + Len(pages[a][p])
<1> USE HistoryAssumption
<1>1. /\ head[a].page \in 0..MaxPage /\ floor[a] \in Nat /\ floor[a] <= head[a].page
      /\ head[a].len \in 0..PageSize /\ head[a].len = Len(pages[a][head[a].page])
  BY DEF HistoryInv, HistoryTypeOK, PagesShape, PageNumber
<1>2. p \in PageNumber /\ p \in Nat
  BY <1>1 DEF PageNumber
<1>3. \A q \in PageNumber : q \in floor[a]..(head[a].page - 1) => Len(pages[a][q]) = PageSize
  BY DEF HistoryInv, PagesShape
<1>4. pages[a][p] \in Seq(Outcome) /\ Len(pages[a][p]) \in 0..PageSize
  <2>1. pages[a][p] \in Seq(Outcome)
    BY <1>2, AnchorFacts
  <2>2. p = head[a].page \/ p \in floor[a]..(head[a].page - 1)
    BY <1>1
  <2> QED
    BY <1>1, <1>2, <1>3, <2>1, <2>2
<1> DEFINE k == p - floor[a]
           n == Len(pages[a][p])
<1>5. k \in Nat /\ p = floor[a] + k /\ n \in Nat /\ LiveUpTo(a, p) = k * PageSize + n
  BY <1>1, <1>2, <1>4 DEF LiveUpTo
<1>6. k * PageSize \in Nat
  BY <1>5
<1>7. ASSUME p # floor[a]
      PROVE  /\ p - 1 \in floor[a]..head[a].page
             /\ LiveUpTo(a, p) = LiveUpTo(a, p - 1) + n
  <2>1. /\ p - 1 \in floor[a]..(head[a].page - 1) /\ p - 1 \in PageNumber
        /\ (p - 1) - floor[a] = k - 1 /\ k - 1 \in Nat
    BY <1>1, <1>2, <1>7 DEF PageNumber
  <2>2. LiveUpTo(a, p - 1) = (k - 1) * PageSize + PageSize
    BY <1>3, <2>1 DEF LiveUpTo
  <2>5. k \in Nat
    BY <1>5
  <2> HIDE DEF k, n
  <2>3. (k - 1) * PageSize + PageSize = k * PageSize
    <3>1. PICK j \in Nat : j = k - 1
      BY <2>1
    <3>2. k = j + 1
      BY <2>5, <3>1
    <3>3. (j + 1) * PageSize = j * PageSize + PageSize
      OBVIOUS
    <3> QED
      BY <3>1, <3>2, <3>3
  <2>4. LiveUpTo(a, p) = LiveUpTo(a, p - 1) + n
    BY <1>5, <2>2, <2>3
  <2> QED
    BY <1>1, <2>1, <2>4
<1>8. p = floor[a] => k * PageSize = 0
  <2>1. p = floor[a] => k = 0
    BY <1>1
  <2> HIDE DEF k
  <2> QED
    BY <2>1
<1> HIDE DEF k
<1>9. LiveUpTo(a, p) \in Nat /\ n <= LiveUpTo(a, p) /\ (p = floor[a] => LiveUpTo(a, p) = n)
  <2> HIDE DEF n
  <2> QED
    BY <1>5, <1>6, <1>8
<1> QED
  BY <1>1, <1>2, <1>4, <1>7, <1>9

\* Counted from the end of its page, an entry is the live entry counted from there.
LEMMA EntryOfPage ==
    ASSUME HistoryInv, NEW a \in Anchor, NEW p \in floor[a]..head[a].page,
           NEW i \in 1..Len(pages[a][p])
    PROVE  LiveEntry(a, LiveUpTo(a, p) + 1 - i) = pages[a][p][Len(pages[a][p]) + 1 - i]
<1> USE HistoryAssumption
<1> DEFINE n == Len(pages[a][p])
           k == p - floor[a]
           s == n - i
<1>1. /\ p \in Nat /\ floor[a] \in Nat /\ n \in 0..PageSize
      /\ LiveUpTo(a, p) = k * PageSize + n /\ floor[a] <= p
  BY ReadablePage DEF LiveUpTo
<1>2. k \in Nat /\ p = floor[a] + k
  BY <1>1
<1>3. s \in 0..(PageSize - 1) /\ n = s + i /\ i \in Nat
  BY <1>1
<1> HIDE DEF n, k, s
<1>4. (k * PageSize + s) \div PageSize = k /\ (k * PageSize + s) % PageSize = s
  BY <1>2, <1>3, DivModUnique
<1>5. (LiveUpTo(a, p) + 1 - i) - 1 = k * PageSize + s
  <2>1. k * PageSize \in Nat
    BY <1>2
  <2> QED
    BY <1>1, <1>3, <2>1
<1>6. LiveEntry(a, LiveUpTo(a, p) + 1 - i) = pages[a][p][s + 1]
  BY <1>2, <1>4, <1>5 DEF LiveEntry
<1>7. s + 1 = n + 1 - i
  BY <1>3
<1> QED
  BY <1>6, <1>7 DEF n

\* A page read alone, as far as it goes, yields the newest live entries up to its end.
LEMMA TailOfPage ==
    ASSUME HistoryInv, NEW a \in Anchor, NEW p \in floor[a]..head[a].page, NEW r \in Nat
    PROVE  /\ PageTail(pages[a][p], r) \in Seq(Outcome)
           /\ Len(PageTail(pages[a][p], r)) =
                IF r < Len(pages[a][p]) THEN r ELSE Len(pages[a][p])
           /\ \A i \in 1..Len(PageTail(pages[a][p], r)) :
                PageTail(pages[a][p], r)[i] = LiveEntry(a, LiveUpTo(a, p) + 1 - i)
<1> DEFINE n == Len(pages[a][p])
           take == IF r < n THEN r ELSE n
           tail == PageTail(pages[a][p], r)
<1>1. pages[a][p] \in Seq(Outcome) /\ n \in Nat
  BY ReadablePage
<1>2. take \in Nat /\ take <= n
  BY <1>1
<1>3. tail = [i \in 1..take |-> pages[a][p][n + 1 - i]]
  BY DEF PageTail
<1>4. \A i \in 1..n : n + 1 - i \in 1..n /\ pages[a][p][n + 1 - i] \in Outcome
  BY <1>1
<1>5. \A i \in 1..n : LiveEntry(a, LiveUpTo(a, p) + 1 - i) = pages[a][p][n + 1 - i]
  BY EntryOfPage
<1> HIDE DEF take, n, tail
<1>6. \A i \in 1..take : i \in 1..n
  BY <1>1, <1>2
<1>7. tail \in Seq(Outcome) /\ Len(tail) = take
  <2>1. tail \in [1..take -> Outcome]
    BY <1>3, <1>4, <1>6
  <2> QED
    BY <1>2, <2>1
<1>8. \A i \in 1..Len(tail) : tail[i] = LiveEntry(a, LiveUpTo(a, p) + 1 - i)
  BY <1>3, <1>5, <1>6, <1>7
<1> QED
  BY <1>7, <1>8 DEF take, tail, n

\* Where the walk stops in a page, what it got is all of the answer.
LEMMA LastPageIsNewest ==
    ASSUME HistoryInv, NEW a \in Anchor, NEW p \in floor[a]..head[a].page, NEW r \in Nat,
           p = floor[a] \/ r <= Len(pages[a][p])
    PROVE  IsNewest(PageTail(pages[a][p], r), a, p, r)
<1> DEFINE n == Len(pages[a][p])
           total == LiveUpTo(a, p)
           tail == PageTail(pages[a][p], r)
<1>1. /\ n \in Nat /\ total \in Nat /\ n <= total /\ (p = floor[a] => total = n)
  BY ReadablePage
<1>2. /\ tail \in Seq(Outcome) /\ Len(tail) = IF r < n THEN r ELSE n
      /\ \A i \in 1..Len(tail) : tail[i] = LiveEntry(a, total + 1 - i)
  BY TailOfPage
<1> HIDE DEF n, total, tail
<1>3. (IF r < n THEN r ELSE n) = IF r < total THEN r ELSE total
  BY <1>1 DEF n
<1>4. IsNewest(tail, a, p, r)
  BY <1>2, <1>3 DEF IsNewest, total
<1> QED
  BY <1>4 DEF tail

\* Where it goes on, the answer of the page before completes it.
LEMMA GoesOnNewest ==
    ASSUME HistoryInv, NEW a \in Anchor, NEW p \in floor[a]..head[a].page, NEW r \in Nat,
           p # floor[a], Len(pages[a][p]) < r,
           NEW rest, IsNewest(rest, a, p - 1, r - Len(pages[a][p]))
    PROVE  IsNewest(PageTail(pages[a][p], r) \o rest, a, p, r)
<1> DEFINE n == Len(pages[a][p])
           total == LiveUpTo(a, p)
           before == LiveUpTo(a, p - 1)
           tail == PageTail(pages[a][p], r)
           all == tail \o rest
<1>1. /\ n \in Nat /\ total \in Nat /\ p - 1 \in floor[a]..head[a].page
      /\ total = before + n
  BY ReadablePage
<1>2. before \in Nat
  BY <1>1, ReadablePage
<1>3. /\ tail \in Seq(Outcome) /\ Len(tail) = n
      /\ \A i \in 1..n : tail[i] = LiveEntry(a, total + 1 - i)
  <2>1. /\ tail \in Seq(Outcome) /\ Len(tail) = IF r < n THEN r ELSE n
        /\ \A i \in 1..Len(tail) : tail[i] = LiveEntry(a, total + 1 - i)
    BY TailOfPage
  <2>2. (IF r < n THEN r ELSE n) = n
    BY <1>1
  <2> HIDE DEF n, tail, total
  <2> QED
    BY <2>1, <2>2
<1>4. /\ rest \in Seq(Outcome) /\ Len(rest) = IF r - n < before THEN r - n ELSE before
      /\ \A i \in 1..Len(rest) : rest[i] = LiveEntry(a, before + 1 - i)
  BY DEF IsNewest
<1> HIDE DEF n, total, before, tail
<1>5. Len(rest) \in Nat
  BY <1>4
<1>6. /\ all \in Seq(Outcome) /\ Len(all) = n + Len(rest)
      /\ \A i \in 1..(n + Len(rest)) : all[i] = IF i <= n THEN tail[i] ELSE rest[i - n]
  BY <1>3, <1>4, ConcatProperties
<1>7. n + Len(rest) = IF r < total THEN r ELSE total
  BY <1>1, <1>2, <1>4
<1>8. ASSUME NEW i \in 1..(n + Len(rest)) PROVE all[i] = LiveEntry(a, total + 1 - i)
  <2>1. CASE i <= n
    <3>1. i \in 1..n
      BY <1>1, <2>1
    <3> QED
      BY <1>3, <1>6, <2>1, <3>1
  <2>2. CASE ~(i <= n)
    <3>1. i - n \in 1..Len(rest) /\ before + 1 - (i - n) = total + 1 - i
      BY <1>1, <1>2, <1>5, <2>2
    <3> QED
      BY <1>4, <1>6, <2>2, <3>1
  <2> QED
    BY <2>1, <2>2
<1> HIDE DEF all
<1>9. IsNewest(all, a, p, r)
  BY <1>6, <1>7, <1>8 DEF IsNewest, total
<1> QED
  BY <1>9 DEF all, tail

\* From every readable page, the walk returns the newest entries up to its end.
LEMMA ReadIsNewest ==
    ASSUME HistoryInv, NEW a \in Anchor, NEW f, Reads(f, a, MaxPage)
    PROVE  \A p \in floor[a]..head[a].page, r \in 0..MaxRecent : IsNewest(f[p][r], a, p, r)
<1> DEFINE Right(p) == \A r \in 0..MaxRecent : IsNewest(f[p][r], a, p, r)
           T == {k \in Nat : floor[a] + k <= head[a].page => Right(floor[a] + k)}
<1> USE HistoryAssumption
<1>1. floor[a] \in Nat /\ head[a].page \in 0..MaxPage
  BY AnchorFacts DEF HistoryInv, HistoryTypeOK, PageNumber
<1>0. \A r \in 0..MaxRecent : r \in Nat
  OBVIOUS
<1>2. ASSUME NEW p \in floor[a]..head[a].page, NEW r \in 0..MaxRecent
      PROVE  LET got == PageTail(pages[a][p], r)
             IN  f[p][r] = IF Len(got) = r \/ AtFloor(a, p) THEN got
                           ELSE got \o f[p - 1][r - Len(got)]
  <2>1. p \in 0..MaxPage
    BY <1>1
  <2>2. f[p] = ReadPage(a, p, f[p - 1])
    BY <2>1, Zenon DEF Reads
  <2> QED
    BY <2>2 DEF ReadPage
<1>3. ASSUME NEW p \in floor[a]..head[a].page, NEW r \in 0..MaxRecent,
             p = floor[a] \/ r <= Len(pages[a][p])
      PROVE  IsNewest(f[p][r], a, p, r)
  <2> DEFINE got == PageTail(pages[a][p], r)
  <2>1. IsNewest(got, a, p, r)
    BY <1>0, <1>3, LastPageIsNewest
  <2>2. Len(got) = IF r < Len(pages[a][p]) THEN r ELSE Len(pages[a][p])
    BY <1>0, TailOfPage
  <2>3. Len(got) = r \/ AtFloor(a, p)
    <3>1. Len(pages[a][p]) \in Nat
      BY ReadablePage
    <3>2. CASE p = floor[a]
      BY <1>1, <3>2 DEF AtFloor
    <3>3. CASE r <= Len(pages[a][p])
      <4> HIDE DEF got
      <4> QED
        BY <2>2, <3>1, <3>3
    <3> QED
      BY <1>3, <3>2, <3>3
  <2>4. f[p][r] = got
    BY <1>2, <2>3
  <2> QED
    BY <2>1, <2>4
<1>4. 0 \in T
  <2>1. ASSUME floor[a] <= head[a].page PROVE Right(floor[a])
    <3>1. floor[a] \in floor[a]..head[a].page
      BY <1>1, <2>1
    <3> QED
      BY <1>3, <3>1
  <2>2. floor[a] + 0 = floor[a]
    BY <1>1
  <2> HIDE DEF Right
  <2> QED
    BY <2>1, <2>2
<1>5. ASSUME NEW k \in Nat, k \in T PROVE k + 1 \in T
  <2> DEFINE p == floor[a] + (k + 1)
  <2> SUFFICES ASSUME p <= head[a].page, NEW r \in 0..MaxRecent
               PROVE  IsNewest(f[p][r], a, p, r)
    OBVIOUS
  <2>1. /\ p \in floor[a]..head[a].page /\ p # floor[a] /\ p - 1 = floor[a] + k
        /\ floor[a] + k <= head[a].page /\ ~(p <= floor[a])
    BY <1>1
  <2>2. Right(p - 1)
    BY <1>5, <2>1
  <2> HIDE DEF p
  <2> DEFINE n == Len(pages[a][p])
  <2>3. n \in Nat
    BY <2>1, ReadablePage
  <2>4. CASE r <= n
    BY <1>3, <2>1, <2>4
  <2>5. CASE n < r
    <3> DEFINE got == PageTail(pages[a][p], r)
    <3>1. Len(got) = IF r < n THEN r ELSE n
      BY <1>0, <2>1, TailOfPage
    <3> HIDE DEF got, n
    <3>2. Len(got) = n /\ Len(got) # r
      BY <2>3, <2>5, <3>1
    <3>3. ~AtFloor(a, p)
      BY <2>1 DEF AtFloor
    <3>4. f[p][r] = got \o f[p - 1][r - n]
      BY <1>2, <2>1, <3>2, <3>3 DEF got
    <3>5. r - n \in 0..MaxRecent
      BY <2>3, <2>5
    <3>6. IsNewest(f[p - 1][r - n], a, p - 1, r - n)
      BY <2>2, <3>5
    <3>7. IsNewest(got \o f[p - 1][r - n], a, p, r)
      BY <1>0, <2>1, <2>5, <3>6, GoesOnNewest DEF got, n
    <3> QED
      BY <3>4, <3>7
  <2> QED
    BY <2>3, <2>4, <2>5
<1> HIDE DEF T
<1>6. \A k \in Nat : k \in T
  BY <1>4, <1>5, SetInduction
<1> USE DEF T
<1>7. ASSUME NEW p \in floor[a]..head[a].page PROVE Right(p)
  <2>1. p - floor[a] \in Nat /\ floor[a] + (p - floor[a]) = p /\ p <= head[a].page
    BY <1>1
  <2>2. p - floor[a] \in T
    BY <1>6, <2>1
  <2> HIDE DEF Right
  <2> QED
    BY <2>1, <2>2
<1> QED
  BY <1>7

\* With the early return for an empty live page, the reader returns the newest n live
\* outcomes, whatever the page size and however often the history was reset
\* (history.rs recent_outcomes).
THEOREM RecentIsAlwaysNewestLive == Spec => []RecentIsNewestLive
<1>1. ASSUME HistoryInv, NEW a \in Anchor, NEW n \in 0..MaxRecent
      PROVE  RecentOutcomes(a, n) = Log!Newest(a, n)
  <2> DEFINE f == CHOOSE read : Reads(read, a, MaxPage)
             total == LiveSize(a)
             count == IF n < total THEN n ELSE total
  <2> USE HistoryAssumption
  <2>1. RecentOutcomes(a, n) =
            IF n = 0 \/ (head[a].len = 0 /\ AtFloor(a, head[a].page))
            THEN <<>> ELSE f[head[a].page][n]
    BY DEF RecentOutcomes, Reads, ReadPage, PageNumber
  <2>2. /\ floor[a] \in Nat /\ head[a].page \in floor[a]..head[a].page
        /\ head[a].page \in 0..MaxPage /\ head[a].len = Len(pages[a][head[a].page])
        /\ total = LiveUpTo(a, head[a].page) /\ total \in Nat
    <3>1. /\ head[a].page \in 0..MaxPage /\ floor[a] <= head[a].page /\ floor[a] \in Nat
          /\ head[a].len = Len(pages[a][head[a].page])
      BY <1>1, AnchorFacts DEF HistoryInv, HistoryTypeOK, PagesShape, PageNumber
    <3> QED
      BY <1>1, <3>1, LiveLogIsSeq DEF LiveSize, LiveUpTo
  <2>3. Log!Newest(a, n) = [i \in 1..count |-> LiveEntry(a, total + 1 - i)]
    <3>1. /\ Len(LiveLog(a)) = total
          /\ \A i \in 1..total : LiveLog(a)[i] = LiveEntry(a, i)
      BY <1>1, LiveLogIsSeq
    <3>2. Log!Newest(a, n) = [i \in 1..count |-> LiveLog(a)[total + 1 - i]]
      BY <3>1 DEF Log!Newest
    <3>3. total \in Nat
      BY <2>2
    <3> HIDE DEF total
    <3>4. \A i \in 1..count : total + 1 - i \in 1..total
      BY <3>3
    <3> QED
      BY <3>1, <3>2, <3>4
  <2>4. CASE n = 0 \/ (head[a].len = 0 /\ AtFloor(a, head[a].page))
    <3>1. n = 0 \/ total = 0
      <4>1. AtFloor(a, head[a].page) => head[a].page = floor[a]
        BY <2>2 DEF AtFloor
      <4>2. head[a].page = floor[a] => total = Len(pages[a][head[a].page])
        BY <1>1, <2>2, ReadablePage
      <4> QED
        BY <2>2, <2>4, <4>1, <4>2
    <3>2. count = 0
      <4>1. total \in Nat
        BY <2>2
      <4> HIDE DEF total
      <4> QED
        BY <3>1, <4>1
    <3>3. Log!Newest(a, n) = <<>>
      BY <2>3, <3>2
    <3> QED
      BY <2>1, <2>4, <3>3
  <2>5. CASE ~(n = 0 \/ (head[a].len = 0 /\ AtFloor(a, head[a].page)))
    <3> DEFINE s == f[head[a].page][n]
    <3>1. \E read : Reads(read, a, MaxPage)
      BY <1>1, ReadExists, HistoryAssumption
    <3>2. Reads(f, a, MaxPage)
      BY <3>1
    <3> HIDE DEF f
    <3>3. IsNewest(s, a, head[a].page, n)
      BY <1>1, <2>2, <3>2, ReadIsNewest
    <3>4. /\ s \in Seq(Outcome) /\ Len(s) = count
          /\ \A i \in 1..Len(s) : s[i] = LiveEntry(a, total + 1 - i)
      BY <2>2, <3>3 DEF IsNewest
    <3>5. RecentOutcomes(a, n) = s
      BY <2>1, <2>5
    <3> HIDE DEF s, count, total
    <3>6. s = [i \in 1..Len(s) |-> s[i]]
      BY <3>4
    <3>7. s = [i \in 1..count |-> LiveEntry(a, total + 1 - i)]
      BY <3>4, <3>6
    <3> QED
      BY <2>3, <3>5, <3>7
  <2> QED
    BY <2>4, <2>5
<1>2. HistoryInv => RecentIsNewestLive
  BY <1>1 DEF RecentIsNewestLive
<1> QED
  BY <1>2, HistoryInvariant, PTL
=============================================================================
