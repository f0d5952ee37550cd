----------------------------- MODULE DepositFlow -----------------------------
(***************************************************************************)
(* A deposit in the browser: the drawer that opens it at the anchor, the   *)
(* check of the wallet in front of it, and the page that tracks and        *)
(* reports it (components/onramp/{DepositDrawer,TrustlinePreflight}.tsx,   *)
(* app/onramp/page.tsx, hooks/useWithdrawStatus.ts, lib/session.ts).       *)
(*                                                                         *)
(* A deposit is one call of handleDeposit, for the wallet connected when   *)
(* it is called.  The wallet may be switched at any time; the check        *)
(* follows the switch, the call does not.                                  *)
(***************************************************************************)
EXTENDS Naturals, Sequences

CONSTANTS
    Wallet,      \* accounts of the browser's wallet
    MaxDeposits, \* bound on calls of handleDeposit
    MaxVisits    \* bound on times the page is left

VARIABLES
    wallet,      \* publicKey, the account connected now, Disconnected at first
    standing,    \* what the ledger says of each wallet
    accepted,    \* wallets that have accepted the terms
    sessions,    \* wallets whose token for the anchor is cached
    open,        \* a rate is selected
    step,        \* the drawer's step
    retryable,   \* errorIsRetryable
    consent,     \* showConsent
    checked,     \* the state of the preflight
    visit,       \* the deposits begun since the page was mounted
    deposit,     \* where each deposit is
    payee,       \* the wallet each deposit was begun for
    switched,    \* deposits during whose preflight the wallet was switched
    opened,      \* deposits the anchor has opened a transaction for
    settled,     \* transactions the anchor has brought to a terminal state
    tracking,    \* the transaction the page polls
    seen,        \* a poll has answered with a terminal state
    signing,     \* outcomes the wallet is asked to sign
    context,     \* outcomeContext: the transaction it was signed for
    appended,    \* appendedRef
    address,     \* the transaction in the URL
    stored,      \* transactions whose token is in sessionStorage
    reports,     \* outcomes posted: signed for one transaction, with the state of another
    visits       \* times the page may still be left

outside == <<standing, settled>>
drawer == <<open, step, retryable, consent, checked>>
deposits == <<visit, deposit, payee, switched, opened>>
account == <<accepted, sessions>>
page == <<tracking, seen, signing, context, appended, address, stored, reports>>
depositVars == <<wallet, outside, drawer, deposits, account, page, visits>>

None == 0
Disconnected == "disconnected"
Deposit == 1..MaxDeposits
Standing == {"no-account", "no-trustline", "unauthorized", "ready"}
Await == {"preflight", "auth", "initiate", "interactive"}
Step == {"idle", "preflight", "authenticating", "initiating", "interactive", "error"}

ASSUME DepositAssumption == MaxDeposits \in Nat /\ MaxVisits \in Nat

DepositTypeOK ==
    /\ wallet \in Wallet \cup {Disconnected} /\ standing \in [Wallet -> Standing]
    /\ accepted \subseteq Wallet /\ sessions \subseteq Wallet
    /\ open \in BOOLEAN /\ step \in Step /\ retryable \in BOOLEAN /\ consent \in BOOLEAN
    /\ checked \in (Standing \ {"ready"}) \cup {"checking", "check-failed"}
    /\ visit \subseteq Deposit
    /\ deposit \in [Deposit -> Await \cup {"unused", "over"}]
    /\ payee \in [Deposit -> Wallet \cup {Disconnected}]
    /\ switched \subseteq Deposit /\ opened \subseteq Deposit /\ settled \subseteq opened
    /\ tracking \in Deposit \cup {None} /\ seen \in BOOLEAN
    /\ signing \subseteq Deposit /\ context \in Deposit \cup {None} /\ appended \in BOOLEAN
    /\ address \in Deposit \cup {None} /\ stored \subseteq Deposit
    /\ reports \in Seq([of : Deposit, tx : Deposit])
    /\ visits \in 0..MaxVisits

DepositInit ==
    /\ wallet = Disconnected /\ standing \in [Wallet -> Standing]
    /\ accepted = {} /\ sessions = {}
    /\ open = FALSE /\ step = "idle" /\ retryable = TRUE /\ consent = FALSE
    /\ checked = "checking"
    /\ visit = {} /\ deposit = [f \in Deposit |-> "unused"]
    /\ payee = [f \in Deposit |-> wallet]
    /\ switched = {} /\ opened = {} /\ settled = {}
    /\ tracking = None /\ seen = FALSE /\ signing = {} /\ context = None
    /\ appended = FALSE /\ address = None /\ stored = {}
    /\ reports = <<>>
    /\ visits = MaxVisits

Running == step \notin {"idle", "error"}
Goes(f, to) == deposit' = [deposit EXCEPT ![f] = to]

\* A setter of the drawer, called by deposit f: without effect once it is unmounted.
Show(f, s) == step' = IF f \in visit THEN s ELSE step

-----------------------------------------------------------------------------
(* The user, the drawer and the wallet.                                    *)

\* The drawer is back at its start whenever a rate is selected or given up.
SetSelectedRate(to) == open' = to /\ step' = "idle"

HandleSelectAnchor ==
    /\ ~open /\ wallet # Disconnected
    /\ SetSelectedRate(TRUE)
    /\ UNCHANGED <<wallet, outside, retryable, consent, checked, deposits, account, page, visits>>

OnClose ==
    /\ open /\ ~consent /\ ~Running
    /\ SetSelectedRate(FALSE)
    /\ UNCHANGED <<wallet, outside, retryable, consent, checked, deposits, account, page, visits>>

\* Start deposit and Retry.
Offered == open /\ ~consent /\ (step = "idle" \/ (step = "error" /\ retryable))

\* handleDeposit up to its first await, which mounts the preflight.
Start(f) ==
    /\ \A g \in Deposit : deposit[g] = "unused" <=> g >= f
    /\ Goes(f, "preflight")
    /\ payee' = [payee EXCEPT ![f] = wallet]
    /\ visit' = visit \cup {f}
    /\ step' = "preflight" /\ checked' = "checking"
    /\ UNCHANGED <<open, retryable, switched, opened>>

HandleDeposit(f) ==
    /\ Offered /\ wallet \in accepted
    /\ Start(f)
    /\ UNCHANGED <<wallet, outside, consent, account, page, visits>>

AskConsent ==
    /\ Offered /\ wallet \notin accepted
    /\ consent' = TRUE
    /\ UNCHANGED <<wallet, outside, open, step, retryable, checked, deposits, account, page,
                   visits>>

HandleConsentAccept(f) ==
    /\ consent
    /\ consent' = FALSE
    /\ accepted' = accepted \cup {wallet}
    /\ Start(f)
    /\ UNCHANGED <<wallet, outside, sessions, page, visits>>

ConsentDecline ==
    /\ consent
    /\ consent' = FALSE
    /\ UNCHANGED <<wallet, outside, open, step, retryable, checked, deposits, account, page,
                   visits>>

\* Of the awaits, the preflight and the anchor's window can be cancelled.
HandleCancel(f) ==
    /\ f \in visit /\ deposit[f] \in {"preflight", "interactive"}
    /\ Goes(f, "over")
    /\ step' = "idle" /\ checked' = "checking"
    /\ UNCHANGED <<wallet, outside, open, retryable, consent, visit, payee, switched, opened,
                   account, page, visits>>

\* Connected, or switched.
SwitchWallet(w) ==
    /\ w # wallet
    /\ wallet' = w
    /\ checked' = "checking"
    /\ switched' = switched \cup {f \in Deposit : deposit[f] = "preflight"}
    /\ UNCHANGED <<outside, open, step, retryable, consent, visit, deposit, payee, opened,
                   account, page, visits>>

\* The account is funded, the trustline is added or authorised, by whomever.
Better(s) ==
    CASE s = "no-account" -> {"no-trustline"}
      [] s = "no-trustline" -> {"unauthorized", "ready"}
      [] s = "unauthorized" -> {"ready"}
      [] s = "ready" -> {}

Improve(w) ==
    /\ \E s \in Better(standing[w]) : standing' = [standing EXCEPT ![w] = s]
    /\ UNCHANGED <<wallet, settled, drawer, deposits, account, page, visits>>

-----------------------------------------------------------------------------
(* The preflight, for the wallet connected now.  A check of another wallet *)
(* is cancelled by the switch.                                             *)

\* The deposit goes on, and the component is gone.
Ready(f) == Goes(f, "auth") /\ step' = "authenticating" /\ checked' = "checking"

\* checkDepositPreflight and what the component makes of its answer.
CheckDepositPreflight(f) ==
    /\ f \in visit /\ deposit[f] = "preflight"
    /\ checked = "checking"
    /\ \/ checked' = "check-failed" /\ UNCHANGED <<step, deposit>>
       \/ standing[wallet] = "ready" /\ Ready(f)
       \/ /\ standing[wallet] # "ready" /\ checked' = standing[wallet]
          /\ UNCHANGED <<step, deposit>>
    /\ UNCHANGED <<wallet, outside, open, retryable, consent, visit, payee, switched, opened,
                   account, page, visits>>

PreflightRetry ==
    /\ step = "preflight" /\ checked \in {"no-account", "check-failed"}
    /\ checked' = "checking"
    /\ UNCHANGED <<wallet, outside, open, step, retryable, consent, deposits, account, page,
                   visits>>

\* The new line is looked at again: its issuer may still have to authorise it.
\* TrustsTheLine would go on as soon as it exists.
TrustsTheLine(f) == Ready(f)
LooksAgain(f) == checked' = "checking" /\ UNCHANGED <<step, deposit>>

AddTrustline(f) ==
    /\ f \in visit /\ deposit[f] = "preflight" /\ checked = "no-trustline"
    /\ IF standing[wallet] = "no-trustline"
       THEN \E s \in {"unauthorized", "ready"} : standing' = [standing EXCEPT ![wallet] = s]
       ELSE UNCHANGED standing
    /\ LooksAgain(f)
    /\ UNCHANGED <<wallet, settled, open, retryable, consent, visit, payee, switched, opened,
                   account, page, visits>>

-----------------------------------------------------------------------------
(* A deposit past its preflight.                                           *)

\* A declined prompt goes back to the start, anything else shows an error.
Fails(f) ==
    /\ Goes(f, "over")
    /\ \/ Show(f, "idle") /\ UNCHANGED retryable
       \/ Show(f, "error") /\ retryable' \in (IF f \in visit THEN BOOLEAN ELSE {retryable})

undrawn == <<open, consent, checked>>

\* The challenge names the payee and the wallet signs as what it is now.  An unmounted
\* deposit ends at the request after this one, which takes the abort signal.
Authenticate(f) ==
    /\ deposit[f] = "auth"
    /\ \/ Fails(f) /\ UNCHANGED sessions
       \/ /\ payee[f] \in {wallet} \cup sessions
          /\ sessions' = sessions \cup {payee[f]}
          /\ Goes(f, IF f \in visit THEN "initiate" ELSE "over")
          /\ Show(f, "initiating")
          /\ UNCHANGED retryable
    /\ UNCHANGED <<wallet, outside, undrawn, visit, payee, switched, opened, accepted,
                   page, visits>>

StartDepositFlow(f) ==
    /\ deposit[f] = "initiate"
    /\ \/ Fails(f) /\ UNCHANGED opened
       \/ /\ opened' = opened \cup {f}
          /\ Goes(f, "interactive") /\ Show(f, "interactive")
          /\ UNCHANGED retryable
    /\ UNCHANGED <<wallet, outside, undrawn, visit, payee, switched, account, page, visits>>

KycError(f) ==
    /\ deposit[f] = "interactive"
    /\ Fails(f)
    /\ UNCHANGED <<wallet, outside, undrawn, visit, payee, switched, opened, account, page, visits>>

\* The URL holds what is tracked.  OldAddress is a page that keeps the parameters of
\* a deposit in flight.
OldAddress(f) == IF address = None THEN f ELSE address
NewAddress(f) == f

\* saveJwtToSession says nothing when the storage is unavailable or full.  A removal that
\* fails is left out: no URL names the token any more.
SaveJwtToSession(f) == stored' \in {stored, stored \cup {f}}

\* handleDepositStarted: the context of the deposit before stays until f's is signed.
HandleDepositStarted(f) ==
    /\ SaveJwtToSession(f)
    /\ address' = NewAddress(f)
    /\ tracking' = f /\ seen' = FALSE /\ appended' = FALSE
    /\ signing' = signing \cup {f}
    /\ UNCHANGED <<context, reports>>

KycComplete(f) ==
    /\ deposit[f] = "interactive"
    /\ Goes(f, "over")
    /\ SetSelectedRate(FALSE)
    /\ HandleDepositStarted(f)
    /\ UNCHANGED <<wallet, outside, retryable, consent, checked, visit, payee, switched, opened,
                   account, visits>>

\* The anchor completes, refuses or expires a transaction it has opened.
Settle(f) ==
    /\ f \in opened \ settled
    /\ settled' = settled \cup {f}
    /\ UNCHANGED <<wallet, standing, drawer, deposits, account, page, visits>>

-----------------------------------------------------------------------------
(* The page: useTransferStatus and the outcome it appends.                 *)

\* The effect that posts the outcome, run after whatever changed what it reads.
\* DueAtOnce is the effect without its guards, due when the intent is signed and again
\* when the deposit is seen to end.
DueAtOnce == context' # None
Due == seen' /\ context' # None /\ ~appended

AppendOutcome ==
    IF Due
    THEN /\ appended' = TRUE
         /\ reports' = Append(reports, [of |-> context', tx |-> tracking])
    ELSE UNCHANGED <<appended, reports>>

Poll ==
    /\ tracking \in settled /\ ~seen
    /\ seen' = TRUE
    /\ stored' = stored \ {tracking} /\ address' = None
    /\ UNCHANGED context
    /\ AppendOutcome
    /\ UNCHANGED <<wallet, outside, drawer, deposits, account, tracking, signing, visits>>

\* Declined, or signed: for the deposit it was asked for, whichever is tracked by now.
SignIntent(f) ==
    /\ f \in signing
    /\ signing' = signing \ {f}
    /\ context' \in {context, f}
    /\ UNCHANGED seen
    /\ AppendOutcome
    /\ UNCHANGED <<wallet, outside, drawer, deposits, account, tracking, address, stored, visits>>

HandleStartAnother ==
    /\ seen
    /\ tracking' = None /\ seen' = FALSE /\ appended' = FALSE /\ context' = None
    /\ UNCHANGED <<wallet, outside, drawer, deposits, account, signing, address, stored, reports,
                   visits>>

-----------------------------------------------------------------------------
(* Leaving the page.  It comes back to what its URL and the token in the   *)
(* session storage allow, if the URL is its old one.                       *)

Leave(ends, url) ==
    /\ visits > 0 /\ visits' = visits - 1
    /\ deposit' = [f \in Deposit |-> IF deposit[f] \in ends THEN "over" ELSE deposit[f]]
    /\ open' = FALSE /\ step' = "idle" /\ retryable' = TRUE /\ consent' = FALSE
    /\ checked' = "checking"
    /\ visit' = {}
    /\ address' = url /\ tracking' = IF url \in stored THEN url ELSE None
    /\ seen' = FALSE /\ appended' = FALSE /\ signing' = {} /\ context' = None
    /\ UNCHANGED <<wallet, outside, payee, switched, opened, accepted, stored, reports>>

\* A window or a check that is gone answers nobody; an authentication goes on.
Unmount ==
    /\ \E url \in {None, address} : Leave(Await \ {"auth"}, url)
    /\ UNCHANGED sessions

Reload == Leave(Await, address) /\ sessions' = {}

DepositStep(f) ==
    \/ HandleDeposit(f) \/ HandleConsentAccept(f) \/ HandleCancel(f)
    \/ CheckDepositPreflight(f) \/ AddTrustline(f)
    \/ Authenticate(f) \/ StartDepositFlow(f) \/ KycError(f) \/ KycComplete(f)
    \/ Settle(f) \/ SignIntent(f)

DepositNext ==
    \/ HandleSelectAnchor \/ OnClose \/ AskConsent \/ ConsentDecline
    \/ \E w \in Wallet : SwitchWallet(w) \/ Improve(w)
    \/ PreflightRetry
    \/ \E f \in Deposit : DepositStep(f)
    \/ Poll \/ HandleStartAnother
    \/ Unmount \/ Reload

DepositSpec == DepositInit /\ [][DepositNext]_depositVars

-----------------------------------------------------------------------------
(* Properties.                                                             *)

\* "POST exactly one outcome row": whatever is signed late, declined, restored or
\* started over, no transaction is reported twice.
ReportedOnce ==
    \A i, j \in DOMAIN reports : reports[i].tx = reports[j].tx => i = j

\* The page comes back from a reload to the deposit it followed, if the storage took its
\* token, and to none if it did not; whichever way it is left, to no other deposit.
ReloadsFindTheDeposit ==
    [][ /\ Reload /\ tracking # None /\ ~seen
           => tracking' = IF tracking \in stored THEN tracking ELSE None
        /\ Unmount /\ tracking # None => tracking' \in {None, tracking} ]_depositVars

\* "Nobody completes KYC and pays fiat into a deposit that cannot land": the wallet an
\* open deposit pays could receive the asset.  The check follows the wallet connected
\* and not the payee, so the deposits whose wallet was switched under it are excepted.
PayoutsCanLand ==
    \A f \in opened \ switched : standing[payee[f]] = "ready"

\* "A declined signature": the deposit "is still tracked, but no outcome context is
\* set", and the hash is bound "to this anchor session".  An outcome is posted under the
\* signature of its own transaction; a deposit begun while another is tracked
\* inherits that one's context, and a declined signature leaves it there.
DepositReportsAreOwn == \A i \in DOMAIN reports : reports[i].of = reports[i].tx
=============================================================================
