--------------------------- MODULE OutcomeHistory ---------------------------
(***************************************************************************)
(* Settlement outcomes in the reputation contract: the paged history of    *)
(* contracts/reputation/src/{outcome,history}.rs and the rolling           *)
(* aggregates of aggregate.rs, on top of the registries that gate them.    *)
(*                                                                         *)
(* An anchor's history is a row of pages of at most PageSize entries.      *)
(* OutcomeHead points at the page being filled; reset_outcome_history      *)
(* deletes nothing, it opens a fresh page and raises OutcomeFloor to it.   *)
(* A missing entry reads as its default: head (0, 0), floor 0, an empty    *)
(* page, an all-zero aggregate.                                            *)
(***************************************************************************)
EXTENDS Registry

CONSTANTS
    Hash,       \* outcome hashes
    BadHash,    \* the ones that are empty or longer than 64 characters
    PageSize,   \* PAGE_SIZE, 25 in the code
    MaxPage,    \* highest page number, u32::MAX: page + 1 traps beyond it
    MaxTotal,   \* u32::MAX, where checked_add on the counters gives up
    MaxSum,     \* u64::MAX, where checked_add on the settle sum gives up
    MaxSettle,  \* MAX_SETTLE_SECONDS, 1 000 000 in the code
    MaxRecent   \* the cap of recent_outcomes, 100 in the code

ASSUME HistoryAssumption ==
    /\ BadHash \subseteq Hash
    /\ PageSize \in Nat \ {0}
    /\ MaxPage \in Nat
    /\ MaxTotal \in Nat
    /\ MaxSum \in Nat
    /\ MaxSettle \in Nat
    /\ MaxRecent \in Nat
    /\ MaxTotal * MaxSettle <= MaxSum

VARIABLES
    head,       \* OutcomeHead: the current page and its length
    floor,      \* OutcomeFloor: the first page that may be read
    pages,      \* OutcomePage
    aggregate   \* CorridorAggregate

historyVars == <<head, floor, pages, aggregate>>
vars == <<registryVars, historyVars>>

PageNumber == 0..MaxPage
Outcome == [hash : Hash \ BadHash, settle : 0..MaxSettle, success : BOOLEAN]
ZeroAggregate == [total |-> 0, successes |-> 0, settleSum |-> 0]

HistoryTypeOK ==
    /\ head \in [Anchor -> [page : PageNumber, len : 0..PageSize]]
    /\ floor \in [Anchor -> PageNumber]
    /\ pages \in [Anchor -> [PageNumber -> Seq(Outcome)]]
    /\ aggregate \in [Anchor -> [Corridor ->
           [total : 0..MaxTotal, successes : 0..MaxTotal, settleSum : 0..MaxSum]]]

TypeOK == RegistryTypeOK /\ HistoryTypeOK

HistoryInit ==
    /\ head = [a \in Anchor |-> [page |-> 0, len |-> 0]]
    /\ floor = [a \in Anchor |-> 0]
    /\ pages = [a \in Anchor |-> [p \in PageNumber |-> <<>>]]
    /\ aggregate = [a \in Anchor |-> [c \in Corridor |-> ZeroAggregate]]

Init == RegistryInit /\ HistoryInit

-----------------------------------------------------------------------------
(* Operations.                                                             *)

\* A wrong roll-over, back to the first page.
WriteHeadRing(a) ==
    IF head[a].len >= PageSize
    THEN [page |-> 0, len |-> 0]
    ELSE head[a]

\* Where the next outcome goes: a full page rolls over to the next one.
WriteHead(a) ==
    IF head[a].len >= PageSize
    THEN [page |-> head[a].page + 1, len |-> 0]
    ELSE head[a]

\* aggregate::record with the entry it read; the caller's guard is CanRecord.
Recorded(agg, settle, success) ==
    [total     |-> agg.total + 1,
     successes |-> agg.successes + (IF success THEN 1 ELSE 0),
     settleSum |-> agg.settleSum + settle]

\* The three checked_add calls: one that fails rolls the submission back.
CanRecord(agg, settle, success) ==
    /\ agg.total < MaxTotal
    /\ success => agg.successes < MaxTotal
    /\ agg.settleSum + settle <= MaxSum

\* The OutOfRange refusals.
ValidOutcome(h, settle) == settle <= MaxSettle /\ h \notin BadHash

SubmitOutcome(p, a, c, h, settle, success) ==
    LET at == WriteHead(a)
    IN  /\ MayWrite(p, c)
        /\ a \in anchorTags
        /\ ValidOutcome(h, settle)
        /\ at.page <= MaxPage
        /\ CanRecord(aggregate[a][c], settle, success)
        /\ pages' = [pages EXCEPT ![a][at.page] =
               Append(@, [hash |-> h, settle |-> settle, success |-> success])]
        /\ head' = [head EXCEPT ![a] = [page |-> at.page, len |-> at.len + 1]]
        /\ aggregate' = [aggregate EXCEPT ![a][c] = Recorded(@, settle, success)]
        /\ UNCHANGED <<registryVars, floor>>

\* The page a reset opens, and a reset that reopens the current one.
SamePage(a) == head[a].page
FreshPage(a) == head[a].page + 1

\* The anchor need not be registered.
ResetOutcomeHistory(a) ==
    LET fresh == FreshPage(a)
    IN  /\ fresh <= MaxPage
        /\ head' = [head EXCEPT ![a] = [page |-> fresh, len |-> 0]]
        /\ floor' = [floor EXCEPT ![a] = fresh]
        /\ UNCHANGED <<registryVars, pages, aggregate>>

ResetCorridorAggregate(a, c) ==
    /\ aggregate' = [aggregate EXCEPT ![a][c] = ZeroAggregate]
    /\ UNCHANGED <<registryVars, head, floor, pages>>

HistoryNext ==
    \/ \E p \in Publisher, a \in Anchor, c \in Corridor, h \in Hash,
          settle \in 0..(MaxSettle + 1), success \in BOOLEAN :
           SubmitOutcome(p, a, c, h, settle, success)
    \/ \E a \in Anchor : ResetOutcomeHistory(a)
    \/ \E a \in Anchor, c \in Corridor : ResetCorridorAggregate(a, c)

Next ==
    \/ RegistryNext /\ UNCHANGED historyVars
    \/ HistoryNext

Spec == Init /\ [][Next]_vars

-----------------------------------------------------------------------------
(* The reader.                                                             *)

\* The last r entries of a page, newest first.
PageTail(page, r) ==
    LET take == IF r < Len(page) THEN r ELSE Len(page)
    IN  [i \in 1..take |-> page[Len(page) + 1 - i]]

\* Where the walk stops, and a walk that ignores the floor.
AtFirstPage(a, p) == p = 0
AtFloor(a, p) == p <= floor[a]

\* history::recent_outcomes: from the current page down to the floor.
RecentOutcomes(a, n) ==
    LET read[p \in PageNumber] == [r \in 0..MaxRecent |->
            LET got == PageTail(pages[a][p], r)
            IN  IF Len(got) = r \/ AtFloor(a, p)
                THEN got
                ELSE got \o read[p - 1][r - Len(got)]]
    IN  IF n = 0 \/ (head[a].len = 0 /\ AtFloor(a, head[a].page))
        THEN <<>>
        ELSE read[head[a].page][n]

-----------------------------------------------------------------------------
(* Properties.                                                             *)

\* Where the live entries are: pages floor..page, every one full but the last.
LiveSize(a) == (head[a].page - floor[a]) * PageSize + head[a].len
LiveEntry(a, i) ==
    pages[a][floor[a] + (i - 1) \div PageSize][((i - 1) % PageSize) + 1]
LiveLog(a) == [i \in 1..LiveSize(a) |-> LiveEntry(a, i)]

Log == INSTANCE OutcomeLog WITH log <- [a \in Anchor |-> LiveLog(a)]

\* The pages implement a log that only grows at its end and that a reset hides
\* as a whole: whatever the roll-overs and resets, no outcome is lost from the
\* live history, none of a hidden one comes back, and none changes place.
RefinesLog == Log!LogSpec

\* Which abstract step each operation is: a submission appends the very outcome
\* it was given to the live log of its own anchor and of no other, a history
\* reset hides that log alone.
OperationsMatchLog ==
    [][/\ \A p \in Publisher, a \in Anchor, c \in Corridor, h \in Hash,
             settle \in 0..MaxSettle, success \in BOOLEAN :
              SubmitOutcome(p, a, c, h, settle, success) =>
                  Log!Submit(a, [hash |-> h, settle |-> settle, success |-> success])
       /\ \A a \in Anchor : ResetOutcomeHistory(a) => Log!Hide(a)]_vars

\* The page bookkeeping behind O(1) writes: the head's length is the length of
\* its page, the pages from the floor to the head are full, those above it were
\* never written, and an empty head page is the floor (so the early return of
\* recent_outcomes never hides an outcome).
PagesShape ==
    \A a \in Anchor :
        /\ floor[a] <= head[a].page
        /\ head[a].len = Len(pages[a][head[a].page])
        /\ head[a].len = 0 => head[a].page = floor[a]
        /\ \A p \in PageNumber :
            /\ p \in floor[a]..(head[a].page - 1) => Len(pages[a][p]) = PageSize
            /\ p > head[a].page => pages[a][p] = <<>>

\* recent_outcomes, which walks pages downwards from the head, returns exactly
\* the newest n live outcomes, newest first, at every fill level and on both
\* sides of a reset.
RecentIsNewestLive ==
    \A a \in Anchor, n \in 0..MaxRecent : RecentOutcomes(a, n) = Log!Newest(a, n)

\* The aggregates as fractions: never more successes than outcomes, and an
\* average settle time that a single outcome could have had.
AggregateBounds ==
    \A a \in Anchor, c \in Corridor :
        LET agg == aggregate[a][c]
        IN  agg.successes <= agg.total /\ agg.settleSum <= agg.total * MaxSettle

\* The audit's M-4 fix: since each settle time is bounded, the settle sum can
\* never be what jams a pair.  Only the u32 count can refuse a submission.
OnlyTheCountCanRefuse ==
    \A a \in Anchor, c \in Corridor, settle \in 0..MaxSettle, success \in BOOLEAN :
        aggregate[a][c].total < MaxTotal => CanRecord(aggregate[a][c], settle, success)

\* What a page said it keeps saying: no step rewrites or drops an entry, a page
\* below the head is final, and neither head nor floor moves back.
Grows(a) ==
    /\ head[a].page <= head'[a].page /\ floor[a] <= floor'[a]
    /\ \A p \in PageNumber :
        /\ Len(pages[a][p]) <= Len(pages'[a][p])
        /\ \A i \in 1..Len(pages[a][p]) : pages'[a][p][i] = pages[a][p][i]
        /\ p < head[a].page => pages'[a][p] = pages[a][p]
HistoryOnlyGrows == [][\A a \in Anchor : Grows(a)]_vars
=============================================================================
