----------------------------- MODULE WithdrawFlow -----------------------------
(***************************************************************************)
(* A withdrawal in the browser: the drawer that executes it, the payment   *)
(* it submits, and the page that tracks and reports the outcome            *)
(* (components/offramp/{ExecuteDrawer,KycIframe}.tsx,                      *)
(* app/offramp/page.tsx, hooks/useWithdrawStatus.ts,                       *)
(* lib/stellar/horizon.ts).                                                *)
(*                                                                         *)
(* A flow is one call of handleExecute.  It goes on from await to await    *)
(* whatever the user does to the drawer meanwhile: closing the drawer      *)
(* hides it and leaves its state, step included, as it is.  A page that is *)
(* left is unmounted: its flows run on to their next abortable request.    *)
(***************************************************************************)
EXTENDS Naturals, FiniteSets

CONSTANTS
    Rate,        \* rates in the table
    Kind,        \* the protocol of each rate's anchor
    MaxFlows,    \* bound on calls of handleExecute
    MaxVisits    \* bound on visits of the page

VARIABLES
    open,        \* selectedRate, Closed when the drawer is
    step,        \* the drawer's step
    button,      \* what the drawer offers in step 'error'
    dialog,      \* showConfirmDialog
    consent,     \* showConsent
    accepted,    \* the wallet has accepted the terms
    visit,       \* the flows begun since the page was mounted
    flow,        \* where each flow is
    rate,        \* the rate each flow was begun for
    quoted,      \* flows with a firm quote
    expired,     \* quoteExpiredRef
    watched,     \* flows whose quote is watched for expiry
    seq,         \* the account's sequence number
    built,       \* the sequence number of each flow's payment, 0 before it is built
    waiting,     \* payments with the network whose answer was lost
    landed,      \* payments in the ledger
    before,      \* the payments in the ledger when each payment was built
    settled,     \* transactions the anchor has brought to a terminal state
    lapsed,      \* transactions whose SEP-10 token has expired
    tracking,    \* the transaction the page polls
    seen,        \* a poll has answered with a terminal state
    signing,     \* outcomes the wallet is asked to sign
    context,     \* outcomeContext: the transaction it was signed for
    appended,    \* appendedRef
    address,     \* the transaction in the URL whose token the session holds
    reports,     \* outcomes posted: signed for one transaction, with the state of another
    visits       \* visits still to be made

drawer == <<open, step, button, dialog, consent, accepted>>
flows == <<visit, flow, rate, quoted, expired, watched>>
network == <<seq, built, waiting, landed, before>>
page == <<tracking, seen, signing, context, appended, address, reports>>
anchor == <<settled, lapsed>>
vars == <<drawer, flows, network, anchor, page, visits>>

Closed == "closed"
None == 0
Flow == 1..MaxFlows

ASSUME WithdrawAssumption ==
    /\ Closed \notin Rate
    /\ Kind \in [Rate -> {"firm", "indicative", "form"}]
    /\ MaxFlows \in Nat /\ MaxVisits \in Nat

Step == {"idle", "authenticating", "quoting", "initiating", "kyc", "form", "building",
         "signing", "done", "error"}

\* Where a flow waits: the awaits of handleExecute, in order.
Await == {"auth", "quote", "initiate", "kyc", "record", "payment", "signature", "answer"}

TypeOK ==
    /\ open \in Rate \cup {Closed} /\ step \in Step
    /\ button \in {"none", "retry", "start_over", "close"}
    /\ dialog \in BOOLEAN /\ consent \in BOOLEAN /\ accepted \in BOOLEAN
    /\ visit \subseteq Flow
    /\ flow \in [Flow -> Await \cup {"unused", "over"}]
    /\ rate \in [Flow -> Rate \cup {Closed}]
    /\ quoted \subseteq Flow /\ expired \in BOOLEAN /\ watched \subseteq Flow
    /\ seq \in Nat /\ built \in [Flow -> Nat]
    /\ waiting \subseteq Flow /\ landed \subseteq Flow
    /\ before \in [Flow -> SUBSET Flow]
    /\ settled \subseteq Flow /\ lapsed \subseteq Flow
    /\ tracking \in Flow \cup {None} /\ seen \in BOOLEAN
    /\ signing \subseteq Flow /\ context \in Flow \cup {None} /\ appended \in BOOLEAN
    /\ address \in Flow \cup {None}
    /\ reports \subseteq [of : Flow, tx : Flow]
    /\ visits \in 0..MaxVisits

Init ==
    /\ open = Closed /\ step = "idle" /\ button = "none"
    /\ dialog = FALSE /\ consent = FALSE /\ accepted \in BOOLEAN
    /\ visit = {}
    /\ flow = [f \in Flow |-> "unused"]
    /\ rate = [f \in Flow |-> Closed]
    /\ quoted = {} /\ expired = FALSE /\ watched = {}
    /\ seq = 0 /\ built = [f \in Flow |-> 0]
    /\ waiting = {} /\ landed = {} /\ before = [f \in Flow |-> {}]
    /\ settled = {} /\ lapsed = {}
    /\ tracking = None /\ seen = FALSE /\ signing = {} /\ context = None
    /\ appended = FALSE /\ address = None /\ reports = {}
    /\ visits = MaxVisits

Running == step \notin {"idle", "done", "error", "form"}
InFlight(f) == flow[f] \in Await
Shown == open # Closed

\* A setter of the drawer, called by flow f: without effect once it is unmounted.
Show(f, s) == step' = IF f \in visit THEN s ELSE step
Goes(f, to) == flow' = [flow EXCEPT ![f] = to]

-----------------------------------------------------------------------------
(* The user and the drawer.                                                *)

\* The drawer opens as it was left, whichever rate it is opened for; StepAfresh would
\* bring it back to its start.
StepAfresh == IF Running THEN step ELSE "idle"
StepKept == step

HandleSelectAnchor(r) ==
    /\ ~Shown
    /\ open' = r
    /\ step' = StepKept
    /\ UNCHANGED <<button, dialog, consent, accepted, flows, network, anchor,
                   page, visits>>

\* handleExecute up to its first await.
Start(f) ==
    /\ Shown
    /\ \A g \in Flow : flow[g] = "unused" <=> g >= f
    /\ Goes(f, "auth")
    /\ rate' = [rate EXCEPT ![f] = open]
    /\ visit' = visit \cup {f}
    /\ step' = "authenticating" /\ button' = "none"
    /\ expired' = FALSE /\ watched' = {}
    /\ UNCHANGED quoted

\* Start and Retry, which either dialog covers.
Offered ==
    /\ ~consent /\ ~dialog
    /\ step = "idle" \/ (step = "error" /\ button = "retry")

HandleExecute(f) ==
    /\ Shown /\ Offered
    /\ accepted
    /\ Start(f)
    /\ UNCHANGED <<open, dialog, consent, accepted, network, anchor, page, visits>>

AskConsent ==
    /\ Shown /\ Offered
    /\ ~accepted
    /\ consent' = TRUE
    /\ UNCHANGED <<open, step, button, dialog, accepted, flows, network, anchor, page, visits>>

HandleConsentAccept(f) ==
    /\ consent
    /\ consent' = FALSE /\ accepted' = TRUE
    /\ \/ Start(f)
       \/ ~Shown /\ UNCHANGED <<step, button, flows>>
    /\ UNCHANGED <<open, dialog, network, anchor, page, visits>>

ConsentDecline ==
    /\ consent
    /\ consent' = FALSE
    /\ UNCHANGED <<open, step, button, dialog, accepted, flows, network, anchor, page, visits>>

HandleStartOver ==
    /\ Shown /\ ~consent /\ ~dialog
    /\ step = "error" /\ button = "start_over"
    /\ step' = "idle" /\ button' = "none"
    /\ UNCHANGED <<open, dialog, consent, accepted, flows, network, anchor, page, visits>>

\* Backdrop, Escape, the header's cross, and the buttons that call onClose.
OnClose ==
    /\ Shown /\ ~Running
    /\ open' = Closed
    /\ UNCHANGED <<step, button, dialog, consent, accepted, flows, network, anchor,
                   page, visits>>

\* The swipe is the one gesture a running flow answers to.
HandleSwipeEnd ==
    /\ Shown /\ Running
    /\ dialog' = TRUE
    /\ UNCHANGED <<open, step, button, consent, accepted, flows, network, anchor, page, visits>>

HandleCancelClose ==
    /\ dialog
    /\ dialog' = FALSE
    /\ UNCHANGED <<open, step, button, consent, accepted, flows, network, anchor, page, visits>>

\* Only a flow that waits for KYC has anything to reject; any other runs on.
\* AlwaysIdle is a close that resets the drawer whatever runs.
AlwaysIdle(kyc) == "idle"
StepOnClose(kyc) == IF kyc # {} THEN "idle" ELSE step

HandleConfirmClose ==
    /\ dialog
    /\ dialog' = FALSE
    /\ open' = Closed
    /\ LET kyc == {f \in visit : flow[f] = "kyc"} IN
       /\ flow' = [f \in Flow |-> IF f \in kyc THEN "over" ELSE flow[f]]
       /\ step' = StepOnClose(kyc)
    /\ UNCHANGED <<button, consent, accepted, visit, rate, quoted, expired, watched,
                   network, anchor, page, visits>>

-----------------------------------------------------------------------------
(* A flow, from await to await.                                            *)

\* The catch block: a refused prompt goes back to 'idle', any other failure shows
\* what isRetryableExecuteError allows.
Cancelled(f) ==
    /\ Goes(f, "over")
    /\ Show(f, "idle")
    /\ UNCHANGED button

Failed(f, offers) ==
    /\ Goes(f, "over")
    /\ Show(f, "error")
    /\ button' \in IF f \in visit THEN offers ELSE {button}

Fails(f) == Failed(f, {"retry", "start_over"})

unshown == <<open, dialog, consent, accepted>>
unquoted == <<visit, rate, quoted, expired, watched>>

Authenticated(f) ==
    /\ flow[f] = "auth"
    /\ \/ Cancelled(f)
       \/ Fails(f)
       \/ Kind[rate[f]] = "form" /\ Goes(f, "over") /\ Show(f, "form") /\ UNCHANGED button
       \/ Kind[rate[f]] = "firm" /\ Goes(f, "quote") /\ Show(f, "quoting") /\ UNCHANGED button
       \/ /\ Kind[rate[f]] = "indicative"
          /\ Goes(f, "initiate") /\ Show(f, "initiating") /\ UNCHANGED button
    /\ UNCHANGED <<unshown, unquoted, network, anchor, page, visits>>

Quoted(f) ==
    /\ flow[f] = "quote"
    /\ \/ Fails(f) /\ UNCHANGED <<quoted, watched>>
       \/ /\ quoted' = quoted \cup {f} /\ watched' = {f}
          /\ Goes(f, "initiate") /\ Show(f, "initiating") /\ UNCHANGED button
    /\ UNCHANGED <<unshown, visit, rate, expired, network, anchor, page, visits>>

\* The watcher outlives a flow that failed, until the next one begins.
QuoteExpires ==
    /\ watched # {} /\ ~expired
    /\ expired' = TRUE
    /\ UNCHANGED <<drawer, visit, flow, rate, quoted, watched, network, anchor, page, visits>>

Initiated(f) ==
    /\ flow[f] = "initiate"
    /\ \/ Fails(f)
       \/ Goes(f, "kyc") /\ Show(f, "kyc") /\ UNCHANGED button
    /\ UNCHANGED <<unshown, unquoted, network, anchor, page, visits>>

\* The lapsed quote is looked at here, and not again before the payment.
Lapsed(f) == expired

HandleKycComplete(f) ==
    /\ flow[f] = "kyc"
    /\ \/ Lapsed(f) /\ Failed(f, {"retry"})
       \/ ~Lapsed(f) /\ Goes(f, "record") /\ Show(f, "building") /\ UNCHANGED button
    /\ UNCHANGED <<unshown, unquoted, network, anchor, page, visits>>

HandleKycEnded(f) ==
    /\ flow[f] = "kyc"
    /\ Cancelled(f) \/ Fails(f)
    /\ UNCHANGED <<unshown, unquoted, network, anchor, page, visits>>

\* The minimum is checked where no firm quote binds the anchor.
RecordRead(f) ==
    /\ flow[f] = "record"
    /\ \/ Fails(f)
       \/ f \notin quoted /\ Failed(f, {"close"})
       \/ Goes(f, "payment") /\ UNCHANGED <<step, button>>
    /\ UNCHANGED <<unshown, unquoted, network, anchor, page, visits>>

\* fetchAccount reads the ledger; NextUnused is a client that counts the payments it
\* has sent.
NextUnused == seq + 1 + Cardinality(waiting)
NextSeq == seq + 1

BuildWithdrawPayment(f) ==
    /\ flow[f] = "payment"
    /\ \/ Fails(f) /\ UNCHANGED <<built, before>>
       \/ /\ built' = [built EXCEPT ![f] = NextSeq]
          /\ before' = [before EXCEPT ![f] = landed]
          /\ Goes(f, "signature") /\ Show(f, "signing") /\ UNCHANGED button
    /\ UNCHANGED <<unshown, unquoted, seq, waiting, landed, anchor, page, visits>>

Signed(f) ==
    /\ flow[f] = "signature"
    /\ \/ Cancelled(f)
       \/ Fails(f)
       \/ Goes(f, "answer") /\ UNCHANGED <<step, button>>
    /\ UNCHANGED <<unshown, unquoted, network, anchor, page, visits>>

-----------------------------------------------------------------------------
(* The network.  A payment lands on the sequence number it was built for.  *)

CanLand(f) == built[f] = seq + 1
Lands(f) == CanLand(f) /\ seq' = seq + 1 /\ landed' = landed \cup {f}

\* Refused, or the answer is lost: to one that has landed, may yet, or never will.
SubmitFails(f) ==
    /\ flow[f] = "answer"
    /\ \/ Lands(f) /\ UNCHANGED waiting
       \/ waiting' = waiting \cup {f} /\ UNCHANGED <<seq, landed>>
       \/ UNCHANGED <<waiting, seq, landed>>
    /\ Fails(f)
    /\ UNCHANGED <<unshown, unquoted, built, before, anchor, page, visits>>

Include(f) ==
    /\ f \in waiting
    /\ Lands(f)
    /\ waiting' = waiting \ {f}
    /\ UNCHANGED <<drawer, flows, built, before, anchor, page, visits>>

\* The page follows f from here: handleExecuteStarted.  The context of the
\* transaction before stays until f's own is signed.  saveJwtToSession swallows what
\* the browser's storage refuses, and then the URL leads nowhere.
Follow(f) ==
    /\ address' \in {f, None}
    /\ IF f \in visit
       THEN /\ tracking' = f /\ seen' = FALSE /\ appended' = FALSE
            /\ signing' = signing \cup {f}
       ELSE UNCHANGED <<tracking, seen, appended, signing>>
    /\ UNCHANGED <<context, reports>>

Submitted(f) ==
    /\ flow[f] = "answer"
    /\ Lands(f)
    /\ Goes(f, "over")
    /\ Show(f, "done")
    /\ Follow(f)
    /\ IF f \in visit THEN open' = Closed /\ watched' = {} ELSE UNCHANGED <<open, watched>>
    /\ UNCHANGED <<button, dialog, consent, accepted, visit, rate, quoted, expired,
                   built, waiting, before, anchor, visits>>

\* The anchor finishes with the transaction, or gives it up.
Settle(f) ==
    /\ f \notin settled
    /\ flow[f] \notin {"unused", "auth", "quote", "initiate", "kyc"}
    /\ settled' = settled \cup {f}
    /\ UNCHANGED <<drawer, flows, network, lapsed, page, visits>>

\* The token the page polls with expires; nothing renews it, and from then on the
\* anchor answers 401.  (A flow under way may fail at its next request anyway.)
TokenExpires ==
    /\ tracking \notin lapsed \cup {None}
    /\ lapsed' = lapsed \cup {tracking}
    /\ UNCHANGED <<drawer, flows, network, settled, page, visits>>

-----------------------------------------------------------------------------
(* The page: useWithdrawStatus and the outcome it appends.                 *)

\* The effect that posts the outcome, run after whatever changed what it reads.
\* DueAtTheEnd would post when the poll ends only, and miss a signature given later.
DueAtTheEnd == seen' /\ ~seen /\ context' # None /\ ~appended
Due == seen' /\ context' # None /\ ~appended

Append ==
    IF Due
    THEN /\ appended' = TRUE
         /\ reports' = reports \cup {[of |-> context', tx |-> tracking]}
    ELSE UNCHANGED <<appended, reports>>

Poll ==
    /\ tracking # None /\ ~seen
    /\ tracking \in settled \ lapsed
    /\ seen' = TRUE
    /\ address' = None
    /\ UNCHANGED context
    /\ Append
    /\ UNCHANGED <<drawer, flows, network, anchor, tracking, signing, visits>>

SignIntent(f) ==
    /\ f \in signing
    /\ signing' = signing \ {f}
    /\ \/ context' = f
       \/ UNCHANGED context          \* declined
    /\ UNCHANGED seen
    /\ Append
    /\ UNCHANGED <<drawer, flows, network, anchor, tracking, address, visits>>

HandleOffRampAnother ==
    /\ seen
    /\ tracking' = None /\ seen' = FALSE /\ appended' = FALSE
    /\ context' = None
    /\ UNCHANGED <<drawer, flows, network, anchor, signing, address, reports, visits>>

-----------------------------------------------------------------------------
(* Leaving the page.                                                       *)

\* Unmounting aborts the requests that take the signal, and a KYC form that is gone
\* answers nobody; a flow past them goes on, out of sight.  Reloading ends them all,
\* a submission on its way excepted.
Abortable == {"auth", "quote", "initiate", "kyc", "record"}

Leave(ends, sent, restored) ==
    /\ visits > 0
    /\ visits' = visits - 1
    /\ flow' = [f \in Flow |-> IF flow[f] \in ends THEN "over" ELSE flow[f]]
    /\ waiting' = waiting \cup sent
    /\ open' = Closed /\ step' = "idle" /\ button' = "none"
    /\ dialog' = FALSE /\ consent' = FALSE
    /\ visit' = {} /\ expired' = FALSE /\ watched' = {}
    /\ tracking' = restored
    /\ seen' = FALSE /\ appended' = FALSE /\ signing' = {} /\ context' = None
    /\ UNCHANGED <<accepted, rate, quoted, seq, built, landed, before, anchor, address,
                   reports>>

\* The tracking parameters are in the URL again, or they are not.
Unmount == \E restored \in {None, address} : Leave(Abortable, {}, restored)

Reload == \E sent \in SUBSET {f \in Flow : flow[f] = "answer"} : Leave(Await, sent, address)

FlowStep(f) ==
    \/ Authenticated(f) \/ Quoted(f) \/ Initiated(f)
    \/ HandleKycComplete(f) \/ HandleKycEnded(f)
    \/ RecordRead(f) \/ BuildWithdrawPayment(f) \/ Signed(f)
    \/ SubmitFails(f) \/ Submitted(f)

UserStep ==
    \/ \E r \in Rate : HandleSelectAnchor(r)
    \/ \E f \in Flow : HandleExecute(f) \/ HandleConsentAccept(f)
    \/ AskConsent \/ ConsentDecline \/ HandleStartOver \/ OnClose
    \/ HandleSwipeEnd \/ HandleCancelClose \/ HandleConfirmClose
    \/ HandleOffRampAnother

Next ==
    \/ UserStep
    \/ \E f \in Flow : FlowStep(f) \/ Include(f) \/ Settle(f) \/ SignIntent(f)
    \/ QuoteExpires \/ TokenExpires \/ Poll
    \/ Unmount \/ Reload

Spec == Init /\ [][Next]_vars

\* SWR keeps polling, failed polls included, while a transaction is tracked and not
\* terminal, so that a poll answers while the token is good; the anchor brings a paid
\* transaction to an end.  Nothing obliges the user to do anything.
FairSpec == Spec /\ WF_vars(Poll) /\ \A f \in Flow : WF_vars(Settle(f))

-----------------------------------------------------------------------------
(* Properties.                                                             *)

\* The drawer's step tells of one flow, the one this page began and that has not
\* ended: none runs behind a drawer that offers to begin another, and none is
\* awaited by a drawer that shows a spinner.
OneFlowPerDrawer ==
    /\ Running <=> \E f \in visit : InFlight(f)
    /\ \A f, g \in visit : InFlight(f) /\ InFlight(g) => f = g

\* However often a withdrawal is retried after an answer was lost, and from however
\* many visits, of two payments that land one was in the ledger before the other was
\* built: two built on one sequence number never both pay.
NoTwinPayments ==
    \A f, g \in landed : f # g => f \in before[g] \/ g \in before[f]

\* An outcome is posted under the signature of its own transaction.  Nothing in the
\* hook or in handleExecuteStarted sees to that: the context of one transaction stays
\* until the next is signed.  It holds because a drawer that is done stays so, and a
\* page follows one transaction of its own.
ReportsAreOwn == \A report \in reports : report.of = report.tx

\* An outcome the wallet has signed is posted, unless the page is left first or the
\* token expires before a poll has seen the end.
TrackedIsReported ==
    \A f \in Flow :
        (tracking = f /\ context = f)
            ~> \/ [of |-> f, tx |-> f] \in reports
               \/ context # f
               \/ f \in lapsed /\ ~seen
=============================================================================
