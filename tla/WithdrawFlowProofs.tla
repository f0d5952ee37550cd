-------------------------- MODULE WithdrawFlowProofs --------------------------
(***************************************************************************)
(* Proofs about the payments of a withdrawal, its drawer and its reports,  *)
(* for any rates, any number of retries and any number of visits.          *)
(*                                                                         *)
(* NoTwinPayments is not inductive: it says nothing of a payment that has  *)
(* yet to land.  PaymentInv adds what the sequence numbers say of one: a   *)
(* payment was built for a number the account has used, or for its next,   *)
(* and saw every payment with a smaller one.                               *)
(***************************************************************************)
EXTENDS WithdrawFlow, TLAPS

\* The part of the types the payments are about.
PaymentTypes ==
    /\ flow \in [Flow -> Await \cup {"unused", "over"}]
    /\ seq \in Nat /\ built \in [Flow -> Nat]
    /\ waiting \subseteq Flow /\ landed \subseteq Flow
    /\ before \in [Flow -> SUBSET Flow]

\* A payment that has landed, or still may, belongs to a flow that is over.
SentIsOver == \A f \in landed \cup waiting : flow[f] = "over"

\* No payment is built past the next number, and one that landed used its own up.
NumbersAreUsed ==
    /\ \A f \in Flow : built[f] <= seq + 1
    /\ \A f \in landed : 1 <= built[f] /\ built[f] <= seq
    /\ \A f, g \in landed : f # g => built[f] # built[g]

\* A payment saw the landed ones of smaller number in the ledger it was built on.
EarlierWasSeen ==
    \A f \in Flow : \A g \in landed : built[g] < built[f] => g \in before[f]

PaymentInv == PaymentTypes /\ SentIsOver /\ NumbersAreUsed /\ EarlierWasSeen

\* Two numbers that differ are in an order, so one payment saw the other
\* (ExecuteDrawer.tsx handleExecute with horizon.ts buildWithdrawPayment).
LEMMA NumbersTell == PaymentInv => NoTwinPayments
<1> SUFFICES ASSUME PaymentInv, NEW f \in landed, NEW g \in landed, f # g
             PROVE  f \in before[g] \/ g \in before[f]
  BY DEF NoTwinPayments
<1>1. f \in Flow /\ g \in Flow /\ built[f] \in Nat /\ built[g] \in Nat
  BY DEF PaymentInv, PaymentTypes
<1>2. built[f] < built[g] \/ built[g] < built[f]
  BY <1>1 DEF PaymentInv, NumbersAreUsed
<1> QED BY <1>1, <1>2 DEF PaymentInv, EarlierWasSeen

\* What moves no payment, and no flow out of its end, keeps the invariant: all that
\* the user, the wallet, the anchor and the page do.
LEMMA QuietSteps ==
    ASSUME PaymentInv, UNCHANGED network,
           flow' \in [Flow -> Await \cup {"unused", "over"}],
           \A f \in Flow : flow[f] = "over" => flow'[f] = "over"
    PROVE  PaymentInv'
BY DEF PaymentInv, PaymentTypes, SentIsOver, NumbersAreUsed, EarlierWasSeen, network

\* A flow that is not over goes to one of its awaits, or ends.
LEMMA GoesKeeps ==
    ASSUME PaymentInv, UNCHANGED network, NEW f \in Flow, flow[f] # "over",
           NEW to \in Await \cup {"over"}, Goes(f, to)
    PROVE  PaymentInv'
<1>1. flow' = [flow EXCEPT ![f] = to]
  BY DEF Goes
<1>2. flow' \in [Flow -> Await \cup {"unused", "over"}]
  BY <1>1 DEF PaymentInv, PaymentTypes
<1>3. \A g \in Flow : flow[g] = "over" => flow'[g] = "over"
  BY <1>1 DEF PaymentInv, PaymentTypes
<1> QED BY <1>2, <1>3, QuietSteps

\* A payment lands on the account's next number (horizon.ts submitTransaction): it
\* is later than every landed one, and no built one is later than it.
LEMMA LandsKeeps ==
    ASSUME PaymentInv, NEW f \in Flow, Lands(f),
           UNCHANGED <<built, before>>,
           flow' = flow \/ flow' = [flow EXCEPT ![f] = "over"], flow'[f] = "over",
           waiting' \subseteq waiting
    PROVE  PaymentInv'
<1>1. /\ built[f] = seq + 1 /\ seq' = seq + 1 /\ landed' = landed \cup {f}
      /\ built' = built /\ before' = before
  BY DEF Lands, CanLand
<1>2. f \notin landed
  BY <1>1 DEF PaymentInv, NumbersAreUsed, PaymentTypes
<1>3. PaymentTypes'
  BY <1>1 DEF PaymentInv, PaymentTypes
<1>4. SentIsOver'
  BY <1>1 DEF PaymentInv, PaymentTypes, SentIsOver
<1>5. NumbersAreUsed'
  BY <1>1, <1>2 DEF PaymentInv, PaymentTypes, NumbersAreUsed
<1>6. EarlierWasSeen'
  <2> SUFFICES ASSUME NEW g \in Flow, NEW h \in landed', built'[h] < built'[g]
               PROVE  h \in before'[g]
    BY DEF EarlierWasSeen
  <2>1. built[g] \in Nat /\ built[g] <= seq + 1 /\ seq \in Nat
    BY DEF PaymentInv, PaymentTypes, NumbersAreUsed
  <2>2. h # f
    BY <1>1, <2>1
  <2> QED BY <1>1, <2>2 DEF PaymentInv, EarlierWasSeen
<1> QED BY <1>3, <1>4, <1>5, <1>6 DEF PaymentInv

\* A flow that ends with its payment on its way, or refused (the catch block of
\* handleExecute), leaves the ledger alone.
LEMMA SentKeeps ==
    ASSUME PaymentInv, UNCHANGED <<seq, built, landed, before>>,
           NEW ends \in SUBSET Flow, NEW sent \in SUBSET ends,
           flow' = [f \in Flow |-> IF f \in ends THEN "over" ELSE flow[f]],
           waiting' = waiting \cup sent
    PROVE  PaymentInv'
<1>1. PaymentTypes' /\ NumbersAreUsed' /\ EarlierWasSeen'
  BY DEF PaymentInv, PaymentTypes, NumbersAreUsed, EarlierWasSeen
<1>2. SentIsOver'
  BY DEF PaymentInv, PaymentTypes, SentIsOver
<1> QED BY <1>1, <1>2 DEF PaymentInv

\* A payment is built on the number after the ledger's, with the whole ledger seen
\* (horizon.ts buildWithdrawPayment).
LEMMA BuildKeeps ==
    ASSUME PaymentInv, NEW f \in Flow, BuildWithdrawPayment(f)
    PROVE  PaymentInv'
<1>1. flow[f] = "payment" /\ UNCHANGED <<seq, waiting, landed>>
  BY DEF BuildWithdrawPayment
<1>2. CASE Fails(f) /\ UNCHANGED <<built, before>>
  <2>1. Goes(f, "over")
    BY <1>2 DEF Fails, Failed
  <2> QED BY <1>1, <1>2, <2>1, GoesKeeps DEF network
<1>3. CASE /\ built' = [built EXCEPT ![f] = NextSeq]
           /\ before' = [before EXCEPT ![f] = landed]
           /\ Goes(f, "signature")
  <2>1. flow' = [flow EXCEPT ![f] = "signature"]
    BY <1>3 DEF Goes
  <2>2. f \notin landed \cup waiting
    BY <1>1 DEF PaymentInv, SentIsOver
  <2>3. PaymentTypes'
    BY <1>1, <1>3, <2>1 DEF PaymentInv, PaymentTypes, NextSeq, Await
  <2>4. SentIsOver'
    BY <1>1, <2>1, <2>2 DEF PaymentInv, PaymentTypes, SentIsOver
  <2>5. NumbersAreUsed'
    BY <1>1, <1>3, <2>2 DEF PaymentInv, PaymentTypes, NumbersAreUsed, NextSeq
  <2>6. EarlierWasSeen'
    BY <1>1, <1>3, <2>2 DEF PaymentInv, PaymentTypes, EarlierWasSeen, NextSeq
  <2> QED BY <2>3, <2>4, <2>5, <2>6 DEF PaymentInv
<1> QED BY <1>2, <1>3 DEF BuildWithdrawPayment

\* The first payment of an account sees an empty ledger.
LEMMA PaymentInit == Init => PaymentInv
BY DEF Init, PaymentInv, PaymentTypes, SentIsOver, NumbersAreUsed, EarlierWasSeen

\* A begun flow was unused (handleExecute, up to its first await).
LEMMA StartKeeps ==
    ASSUME PaymentInv, UNCHANGED network, NEW f \in Flow, Start(f)
    PROVE  PaymentInv'
<1>1. flow[f] # "over" /\ Goes(f, "auth") /\ "auth" \in Await
  BY DEF Start, Flow, Await
<1> QED BY <1>1, GoesKeeps

\* The drawer's own steps move no payment.
LEMMA UserKeeps == ASSUME PaymentInv, UserStep PROVE PaymentInv'
<1>1. CASE \E f \in Flow : HandleExecute(f) \/ HandleConsentAccept(f)
  <2>1. PICK f \in Flow : HandleExecute(f) \/ HandleConsentAccept(f)
    BY <1>1
  <2>2. UNCHANGED network
    BY <2>1 DEF HandleExecute, HandleConsentAccept
  <2>3. CASE Start(f)
    BY <2>2, <2>3, StartKeeps
  <2>4. CASE UNCHANGED flows
    BY <2>2, <2>4, QuietSteps DEF flows, PaymentInv, PaymentTypes
  <2> QED BY <2>1, <2>3, <2>4 DEF HandleExecute, HandleConsentAccept
<1>2. CASE HandleConfirmClose
  <2> DEFINE kyc == {f \in visit : flow[f] = "kyc"}
  <2>1. UNCHANGED network /\ flow' = [f \in Flow |-> IF f \in kyc THEN "over" ELSE flow[f]]
    BY <1>2 DEF HandleConfirmClose
  <2> HIDE DEF kyc
  <2>2. flow' \in [Flow -> Await \cup {"unused", "over"}]
    BY <2>1 DEF PaymentInv, PaymentTypes
  <2>3. \A f \in Flow : flow[f] = "over" => flow'[f] = "over"
    BY <2>1
  <2> QED BY <2>1, <2>2, <2>3, QuietSteps
<1>3. CASE \/ \E r \in Rate : HandleSelectAnchor(r)
           \/ AskConsent \/ ConsentDecline \/ HandleStartOver \/ OnClose
           \/ HandleSwipeEnd \/ HandleCancelClose \/ HandleOffRampAnother
  <2>1. UNCHANGED <<flow, network>>
    BY <1>3 DEF HandleSelectAnchor, AskConsent, ConsentDecline, HandleStartOver, OnClose,
                HandleSwipeEnd, HandleCancelClose, HandleOffRampAnother, flows
  <2> QED BY <2>1, QuietSteps DEF PaymentInv, PaymentTypes
<1> QED BY <1>1, <1>2, <1>3 DEF UserStep

\* A flow's steps: up to the payment nothing is sent; the payment is built; it is
\* answered, or its answer is lost.
LEMMA FlowKeeps == ASSUME PaymentInv, NEW f \in Flow, FlowStep(f) PROVE PaymentInv'
<1>1. CASE \/ Authenticated(f) \/ Quoted(f) \/ Initiated(f) \/ HandleKycComplete(f)
           \/ HandleKycEnded(f) \/ RecordRead(f) \/ Signed(f)
  <2>1. UNCHANGED network /\ flow[f] \in Await
    BY <1>1 DEF Authenticated, Quoted, Initiated, HandleKycComplete, HandleKycEnded,
                RecordRead, Signed, Await
  <2>2. \E to \in Await \cup {"over"} : Goes(f, to)
    BY <1>1 DEF Authenticated, Quoted, Initiated, HandleKycComplete, HandleKycEnded,
                RecordRead, Signed, Await, Cancelled, Fails, Failed
  <2> QED BY <2>1, <2>2, GoesKeeps DEF Await
<1>2. CASE BuildWithdrawPayment(f)
  BY <1>2, BuildKeeps
<1>3. CASE SubmitFails(f)
  <2>1. /\ flow' = [flow EXCEPT ![f] = "over"] /\ UNCHANGED <<built, before>>
        /\ flow[f] # "over"
    BY <1>3 DEF SubmitFails, Fails, Failed, Goes
  <2>2. flow'[f] = "over"
    BY <2>1 DEF PaymentInv, PaymentTypes
  <2>3. CASE Lands(f) /\ UNCHANGED waiting
    BY <2>1, <2>2, <2>3, LandsKeeps
  <2>4. CASE UNCHANGED <<seq, landed>> /\ \E sent \in SUBSET {f} : waiting' = waiting \cup sent
    <3>1. flow' = [g \in Flow |-> IF g \in {f} THEN "over" ELSE flow[g]]
      BY <2>1 DEF PaymentInv, PaymentTypes
    <3>2. PICK sent \in SUBSET {f} : waiting' = waiting \cup sent
      BY <2>4
    <3> QED BY <2>1, <2>4, <3>1, <3>2, SentKeeps
  <2>5. waiting' = waiting => waiting' = waiting \cup {}
    OBVIOUS
  <2> QED BY <1>3, <2>3, <2>4, <2>5 DEF SubmitFails
<1>4. CASE Submitted(f)
  <2>1. Lands(f) /\ flow' = [flow EXCEPT ![f] = "over"] /\ UNCHANGED <<built, before, waiting>>
    BY <1>4 DEF Submitted, Goes
  <2>2. flow'[f] = "over"
    BY <2>1 DEF PaymentInv, PaymentTypes
  <2> QED BY <2>1, <2>2, LandsKeeps
<1> QED BY <1>1, <1>2, <1>3, <1>4 DEF FlowStep

\* Leaving ends flows; a submission on its way may still land (page.tsx unmounting,
\* or a reload).
LEMMA LeaveKeeps ==
    ASSUME PaymentInv, NEW ends \in SUBSET Await, NEW sent \in SUBSET Flow, NEW restored,
           \A f \in sent : flow[f] \in ends,
           Leave(ends, sent, restored)
    PROVE  PaymentInv'
<1> DEFINE ended == {f \in Flow : flow[f] \in ends}
<1>1. /\ flow' = [f \in Flow |-> IF f \in ended THEN "over" ELSE flow[f]]
      /\ waiting' = waiting \cup sent /\ UNCHANGED <<seq, built, landed, before>>
  BY DEF Leave
<1>2. ended \in SUBSET Flow /\ sent \in SUBSET ended
  OBVIOUS
<1> HIDE DEF ended
<1> QED BY <1>1, <1>2, SentKeeps

\* Every step keeps the invariant of the payments.
LEMMA PaymentStep == PaymentInv /\ [Next]_vars => PaymentInv'
<1> SUFFICES ASSUME PaymentInv, [Next]_vars PROVE PaymentInv'
  OBVIOUS
<1>1. CASE UserStep
  BY <1>1, UserKeeps
<1>2. ASSUME NEW f \in Flow, FlowStep(f) PROVE PaymentInv'
  BY <1>2, FlowKeeps
<1>3. ASSUME NEW f \in Flow, Include(f) PROVE PaymentInv'
  <2>1. /\ Lands(f) /\ UNCHANGED <<built, before, flow>> /\ flow[f] = "over"
        /\ waiting' \subseteq waiting
    BY <1>3 DEF Include, flows, PaymentInv, SentIsOver
  <2> QED BY <2>1, LandsKeeps
<1>4. CASE \/ \E f \in Flow : Settle(f) \/ SignIntent(f)
           \/ QuoteExpires \/ TokenExpires \/ Poll \/ UNCHANGED vars
  <2>1. UNCHANGED <<flow, network>>
    BY <1>4 DEF Settle, SignIntent, QuoteExpires, TokenExpires, Poll, vars, flows
  <2> QED BY <2>1, QuietSteps DEF PaymentInv, PaymentTypes
<1>5. CASE Unmount
  <2>1. PICK restored \in {None, address} : Leave(Abortable, {}, restored)
    BY <1>5 DEF Unmount
  <2> QED BY <2>1, LeaveKeeps DEF Abortable, Await
<1>6. CASE Reload
  <2>1. PICK sent \in SUBSET {f \in Flow : flow[f] = "answer"} : Leave(Await, sent, address)
    BY <1>6 DEF Reload
  <2> QED BY <2>1, LeaveKeeps DEF Await
<1> QED BY <1>1, <1>2, <1>3, <1>4, <1>5, <1>6 DEF Next

\* The sequence numbers of the payments a wallet has built and sent always tell the
\* order in which they saw each other (horizon.ts, ExecuteDrawer.tsx handleExecute).
THEOREM PaymentInvariant == Spec => []PaymentInv
<1> QED BY PaymentInit, PaymentStep, PTL DEF Spec

\* Of two payments that land, one was in the ledger before the other was built: a
\* retry after a lost answer never pays on the number of the one it repeats.
THEOREM NoTwinPaymentsHold == Spec => []NoTwinPayments
<1> QED BY PaymentInvariant, NumbersTell, PTL

-----------------------------------------------------------------------------
(* The drawer.  That one flow runs behind it is nearly inductive: accepting *)
(* the terms begins a flow too, so they must not be shown over a running   *)
(* one.                                                                    *)

DrawerTypes ==
    /\ visit \subseteq Flow
    /\ flow \in [Flow -> Await \cup {"unused", "over"}]

TermsAreShownIdle == consent => step \in {"idle", "error"}

DrawerInv == DrawerTypes /\ TermsAreShownIdle /\ OneFlowPerDrawer

\* What moves no flow and takes the drawer neither into a running step nor out of one.
LEMMA DrawerUntouched ==
    ASSUME DrawerInv, UNCHANGED <<visit, flow>>, Running' = Running,
           consent' => step' \in {"idle", "error"}
    PROVE  DrawerInv'
<1>1. DrawerTypes' /\ TermsAreShownIdle'
  BY DEF DrawerInv, DrawerTypes, TermsAreShownIdle
<1>2. OneFlowPerDrawer'
  BY DEF DrawerInv, OneFlowPerDrawer, InFlight
<1> QED BY <1>1, <1>2 DEF DrawerInv

\* A running flow moves and the drawer shows it, or a flow of an earlier visit moves
\* and the drawer shows nothing (the setters of ExecuteDrawer.tsx).
LEMMA DrawerMoves ==
    ASSUME DrawerInv, UNCHANGED <<visit, consent>>, NEW f \in Flow, flow[f] \in Await,
           NEW to \in Await \cup {"over"}, Goes(f, to),
           f \in visit => (Running' <=> to \in Await),
           f \notin visit => step' = step
    PROVE  DrawerInv'
<1>1. flow' = [flow EXCEPT ![f] = to]
  BY DEF Goes
<1>2. \A g \in Flow : g # f => flow'[g] = flow[g]
  BY <1>1 DEF DrawerInv, DrawerTypes
<1>3. flow'[f] = to
  BY <1>1 DEF DrawerInv, DrawerTypes
<1>4. DrawerTypes'
  BY <1>1 DEF DrawerInv, DrawerTypes
<1>5. "over" \notin Await
  BY DEF Await
<1>6. CASE f \in visit
  <2>1. \A g \in visit : g # f => ~InFlight(g) /\ g \in Flow
    BY <1>6 DEF DrawerInv, DrawerTypes, OneFlowPerDrawer, InFlight
  <2>2. \A g \in visit : g # f => ~InFlight(g)'
    BY <2>1, <1>2 DEF InFlight
  <2>3. InFlight(f)' <=> to \in Await
    BY <1>3 DEF InFlight
  <2>4. ~consent
    BY <1>6 DEF DrawerInv, TermsAreShownIdle, OneFlowPerDrawer, Running, InFlight
  <2>5. OneFlowPerDrawer'
    BY <1>6, <2>2, <2>3 DEF OneFlowPerDrawer
  <2> QED BY <1>4, <2>4, <2>5 DEF DrawerInv, TermsAreShownIdle
<1>7. CASE f \notin visit
  <2>1. \A g \in visit : InFlight(g)' <=> InFlight(g)
    BY <1>2, <1>7 DEF DrawerInv, DrawerTypes, InFlight
  <2>2. OneFlowPerDrawer'
    BY <1>7, <2>1 DEF DrawerInv, OneFlowPerDrawer, Running
  <2> QED BY <1>4, <1>7, <2>2 DEF DrawerInv, TermsAreShownIdle
<1> QED BY <1>6, <1>7

\* A flow is begun where none runs (handleExecute, up to its first await).
LEMMA DrawerStarts ==
    ASSUME DrawerInv, NEW f \in Flow, Start(f), ~Running, ~consent'
    PROVE  DrawerInv'
<1>1. /\ flow' = [flow EXCEPT ![f] = "auth"] /\ visit' = visit \cup {f}
      /\ step' = "authenticating"
  BY DEF Start, Goes
<1>2. \A g \in Flow : g # f => flow'[g] = flow[g]
  BY <1>1 DEF DrawerInv, DrawerTypes
<1>3. flow'[f] = "auth" /\ "auth" \in Await
  BY <1>1 DEF DrawerInv, DrawerTypes, Await
<1>4. DrawerTypes' /\ TermsAreShownIdle'
  BY <1>1, <1>3 DEF DrawerInv, DrawerTypes, TermsAreShownIdle
<1>5. \A g \in visit : ~InFlight(g)
  BY DEF DrawerInv, OneFlowPerDrawer
<1>6. \A g \in visit' : InFlight(g)' <=> g = f
  BY <1>1, <1>2, <1>3, <1>5 DEF DrawerInv, DrawerTypes, InFlight
<1>7. OneFlowPerDrawer'
  BY <1>1, <1>6 DEF OneFlowPerDrawer, Running
<1> QED BY <1>4, <1>7 DEF DrawerInv

\* Whatever a flow's await answers, the drawer shows where the flow is.
LEMMA DrawerFlow == ASSUME DrawerInv, NEW f \in Flow, FlowStep(f) PROVE DrawerInv'
<1> DEFINE Shows(to, s) == Goes(f, to) /\ step' = IF f \in visit THEN s ELSE step
           Moves == \/ \E s \in {"idle", "error", "done", "form"} : Shows("over", s)
                    \/ \E s \in {"quoting", "initiating", "kyc", "building", "signing"},
                          to \in Await : Shows(to, s)
                    \/ \E to \in Await : Goes(f, to) /\ step' = step
<1>1. UNCHANGED <<visit, consent>> /\ flow[f] \in Await
  BY DEF FlowStep, Authenticated, Quoted, Initiated, HandleKycComplete, HandleKycEnded,
         RecordRead, BuildWithdrawPayment, Signed, SubmitFails, Submitted, unshown, unquoted,
         Await
<1>2. Moves
  BY DEF FlowStep, Authenticated, Quoted, Initiated, HandleKycComplete, HandleKycEnded,
         RecordRead, BuildWithdrawPayment, Signed, SubmitFails, Submitted, Await, Show,
         Cancelled, Fails, Failed
<1>3. f \in visit => Running
  BY <1>1 DEF DrawerInv, OneFlowPerDrawer, InFlight
<1>4. CASE \E s \in {"idle", "error", "done", "form"} : Shows("over", s)
  <2>1. f \in visit => ~Running'
    BY <1>4 DEF Running
  <2> QED BY <1>1, <1>4, <2>1, DrawerMoves DEF Await
<1>5. CASE \E s \in {"quoting", "initiating", "kyc", "building", "signing"}, to \in Await :
              Shows(to, s)
  <2>1. PICK to \in Await : Goes(f, to)
    BY <1>5
  <2>2. f \in visit => Running'
    BY <1>5 DEF Running
  <2>3. f \notin visit => step' = step
    BY <1>5
  <2> QED BY <1>1, <2>1, <2>2, <2>3, DrawerMoves
<1>6. CASE \E to \in Await : Goes(f, to) /\ step' = step
  <2>1. PICK to \in Await : Goes(f, to)
    BY <1>6
  <2>2. f \in visit => Running'
    BY <1>3, <1>6 DEF Running
  <2> QED BY <1>1, <1>6, <2>1, <2>2, DrawerMoves
<1> QED BY <1>2, <1>4, <1>5, <1>6

\* Confirming the close ends the flow that waits for KYC, the one that runs if there is
\* one (ExecuteDrawer.tsx handleConfirmClose).
LEMMA DrawerConfirms == ASSUME DrawerInv, HandleConfirmClose PROVE DrawerInv'
<1> DEFINE kyc == {f \in visit : flow[f] = "kyc"}
<1>1. /\ flow' = [f \in Flow |-> IF f \in kyc THEN "over" ELSE flow[f]]
      /\ step' = IF kyc # {} THEN "idle" ELSE step
      /\ UNCHANGED <<visit, consent>>
  BY DEF HandleConfirmClose, StepOnClose
<1>2. \A f \in kyc : f \in visit /\ InFlight(f)
  BY DEF InFlight, Await
<1> HIDE DEF kyc
<1>3. DrawerTypes'
  BY <1>1 DEF DrawerInv, DrawerTypes
<1>4. TermsAreShownIdle'
  BY <1>1 DEF DrawerInv, TermsAreShownIdle
<1>5. OneFlowPerDrawer'
  <2>1. CASE kyc = {}
    <3>1. \A f \in visit : InFlight(f)' <=> InFlight(f)
      BY <1>1, <2>1 DEF InFlight, DrawerInv, DrawerTypes
    <3> QED BY <1>1, <2>1, <3>1 DEF DrawerInv, OneFlowPerDrawer, Running
  <2>2. CASE kyc # {}
    <3>1. PICK f \in kyc : f \in visit /\ InFlight(f)
      BY <1>2, <2>2
    <3>2. \A g \in visit : g # f => ~InFlight(g)
      BY <3>1 DEF DrawerInv, OneFlowPerDrawer
    <3>3. \A g \in visit : ~InFlight(g)'
      BY <1>1, <3>1, <3>2 DEF InFlight, DrawerInv, DrawerTypes, Await
    <3> QED BY <1>1, <2>2, <3>3 DEF OneFlowPerDrawer, Running
  <2> QED BY <2>1, <2>2
<1> QED BY <1>3, <1>4, <1>5 DEF DrawerInv

\* The page is left with nothing to show.
LEMMA DrawerLeaves ==
    ASSUME DrawerInv, NEW ends, NEW sent, NEW restored, Leave(ends, sent, restored)
    PROVE  DrawerInv'
<1>1. /\ flow' = [f \in Flow |-> IF flow[f] \in ends THEN "over" ELSE flow[f]]
      /\ visit' = {} /\ step' = "idle" /\ consent' = FALSE
  BY DEF Leave
<1>2. DrawerTypes' /\ TermsAreShownIdle'
  BY <1>1 DEF DrawerInv, DrawerTypes, TermsAreShownIdle
<1>3. OneFlowPerDrawer'
  BY <1>1 DEF OneFlowPerDrawer, Running
<1> QED BY <1>2, <1>3 DEF DrawerInv

\* Every step keeps the drawer with its flow.
LEMMA DrawerStep == DrawerInv /\ [Next]_vars => DrawerInv'
<1> SUFFICES ASSUME DrawerInv, [Next]_vars PROVE DrawerInv'
  OBVIOUS
<1>1. ASSUME NEW f \in Flow, HandleExecute(f) \/ HandleConsentAccept(f) PROVE DrawerInv'
  <2>1. ~Running
    BY <1>1 DEF HandleExecute, HandleConsentAccept, Offered, Running, DrawerInv,
                TermsAreShownIdle
  <2>2. CASE Start(f)
    <3>1. ~consent'
      BY <1>1 DEF HandleExecute, HandleConsentAccept, Offered
    <3> QED BY <2>1, <2>2, <3>1, DrawerStarts
  <2>3. CASE UNCHANGED <<step, flows>> /\ consent' = FALSE
    BY <2>3, DrawerUntouched DEF flows, Running
  <2> QED BY <1>1, <2>2, <2>3 DEF HandleExecute, HandleConsentAccept
<1>2. ASSUME NEW f \in Flow, FlowStep(f) PROVE DrawerInv'
  BY <1>2, DrawerFlow
<1>3. CASE HandleConfirmClose
  BY <1>3, DrawerConfirms
<1>4. CASE AskConsent
  <2>1. UNCHANGED <<step, flows>> /\ step \in {"idle", "error"}
    BY <1>4 DEF AskConsent, Offered
  <2> QED BY <2>1, DrawerUntouched DEF flows, Running
<1>5. CASE HandleStartOver
  <2>1. UNCHANGED <<flows, consent>> /\ step = "error" /\ step' = "idle" /\ ~consent
    BY <1>5 DEF HandleStartOver
  <2> QED BY <2>1, DrawerUntouched DEF flows, Running
<1>6. CASE \/ \E r \in Rate : HandleSelectAnchor(r)
           \/ ConsentDecline \/ OnClose \/ HandleSwipeEnd \/ HandleCancelClose
           \/ HandleOffRampAnother
           \/ \E f \in Flow : Include(f) \/ Settle(f) \/ SignIntent(f)
           \/ QuoteExpires \/ TokenExpires \/ Poll \/ UNCHANGED vars
  <2>1. UNCHANGED <<step, visit, flow>> /\ (consent' => consent)
    BY <1>6 DEF HandleSelectAnchor, StepKept, ConsentDecline, OnClose, HandleSwipeEnd,
                HandleCancelClose, HandleOffRampAnother, Include, Settle, SignIntent,
                QuoteExpires, TokenExpires, Poll, vars, drawer, flows
  <2> QED BY <2>1, DrawerUntouched DEF Running, DrawerInv, TermsAreShownIdle
<1>7. CASE Unmount \/ Reload
  BY <1>7, DrawerLeaves DEF Unmount, Reload
<1> QED BY <1>1, <1>2, <1>3, <1>4, <1>5, <1>6, <1>7 DEF Next, UserStep

\* Initially no flow has begun.
LEMMA DrawerInit == Init => DrawerInv
BY DEF Init, DrawerInv, DrawerTypes, TermsAreShownIdle, OneFlowPerDrawer, Running

\* A drawer tells of the one flow this page has running, whatever is closed, reopened,
\* retried or accepted meanwhile (ExecuteDrawer.tsx).
THEOREM OneFlowAlways == Spec => []OneFlowPerDrawer
<1>1. DrawerInv => OneFlowPerDrawer
  BY DEF DrawerInv
<1> QED BY <1>1, DrawerInit, DrawerStep, PTL DEF Spec

-----------------------------------------------------------------------------
(* Reports.  Nothing ties a signature to the transaction that is tracked   *)
(* but the drawer: it is done once a payment is answered, and stays so     *)
(* until the page is left.  ReportInv adds what that leaves to be signed.  *)

ReportTypes ==
    /\ signing \subseteq Flow
    /\ context \in Flow \cup {None}

\* Whatever is signed, or to be, is what this page follows, behind a drawer that is done.
SignedIsTracked ==
    \A f \in Flow :
        f \in signing \/ f = context => step = "done" /\ tracking \in {f, None}

SeenIsTracked == seen => tracking # None

ReportInv == DrawerInv /\ ReportTypes /\ SignedIsTracked /\ SeenIsTracked /\ ReportsAreOwn

\* A drawer that is done stays so, or the page is left.
LEMMA DoneStays ==
    ASSUME DrawerInv, Next, step = "done"
    PROVE  step' = "done" \/ Unmount \/ Reload
<1>1. ~Running /\ ~consent
  BY DEF Running, DrawerInv, TermsAreShownIdle
<1>2. \A f \in visit : ~InFlight(f)
  BY <1>1 DEF DrawerInv, OneFlowPerDrawer
<1>3. CASE UserStep
  <2>1. ~HandleStartOver /\ \A f \in Flow : ~HandleExecute(f) /\ ~HandleConsentAccept(f)
    BY <1>1 DEF HandleStartOver, HandleExecute, HandleConsentAccept, Offered
  <2>2. CASE HandleConfirmClose
    <3>1. {f \in visit : flow[f] = "kyc"} = {}
      BY <1>2 DEF InFlight, Await
    <3> QED BY <2>2, <3>1 DEF HandleConfirmClose, StepOnClose
  <2>3. CASE \/ \E r \in Rate : HandleSelectAnchor(r)
             \/ AskConsent \/ ConsentDecline \/ OnClose \/ HandleSwipeEnd
             \/ HandleCancelClose \/ HandleOffRampAnother
    BY <2>3 DEF HandleSelectAnchor, StepKept, AskConsent, ConsentDecline, OnClose,
                HandleSwipeEnd, HandleCancelClose, HandleOffRampAnother, drawer
  <2> QED BY <1>3, <2>1, <2>2, <2>3 DEF UserStep
<1>4. ASSUME NEW f \in Flow, FlowStep(f) PROVE step' = step
  <2>1. flow[f] \in Await
    BY <1>4 DEF FlowStep, Authenticated, Quoted, Initiated, HandleKycComplete,
                HandleKycEnded, RecordRead, BuildWithdrawPayment, Signed, SubmitFails,
                Submitted, Await
  <2>2. f \notin visit
    BY <1>2, <2>1 DEF InFlight
  <2> QED BY <1>4, <2>2 DEF FlowStep, Authenticated, Quoted, Initiated, HandleKycComplete,
             HandleKycEnded, RecordRead, BuildWithdrawPayment, Signed, SubmitFails,
             Submitted, Show, Cancelled, Fails, Failed
<1>5. CASE \/ \E f \in Flow : Include(f) \/ Settle(f) \/ SignIntent(f)
           \/ QuoteExpires \/ TokenExpires \/ Poll
  BY <1>5 DEF Include, Settle, SignIntent, QuoteExpires, TokenExpires, Poll, drawer
<1> QED BY <1>3, <1>4, <1>5 DEF Next

\* What leaves the page alone, and a drawer that is done.
LEMMA ReportsUntouched ==
    ASSUME ReportInv, DrawerInv', UNCHANGED <<tracking, seen, signing, context, reports>>,
           step = "done" => step' = "done"
    PROVE  ReportInv'
BY DEF ReportInv, ReportTypes, SignedIsTracked, SeenIsTracked, ReportsAreOwn

\* An answered payment of this page finds nothing to sign
\* (ExecuteDrawer.tsx handleExecute, app/offramp/page.tsx handleExecuteStarted).
LEMMA ReportsFollow ==
    ASSUME ReportInv, DrawerInv', NEW f \in Flow, Submitted(f),
           step = "done" => step' = "done"
    PROVE  ReportInv'
<1>1. CASE f \notin visit
  <2>1. UNCHANGED <<tracking, seen, signing, context, reports>>
    BY <1>1 DEF Submitted, Follow
  <2> QED BY <2>1, ReportsUntouched
<1>2. CASE f \in visit
  <2>1. /\ tracking' = f /\ seen' = FALSE /\ signing' = signing \cup {f}
        /\ step' = "done" /\ UNCHANGED <<context, reports>>
    BY <1>2 DEF Submitted, Follow, Show
  <2>2. Running
    BY <1>2 DEF Submitted, InFlight, Await, ReportInv, DrawerInv, OneFlowPerDrawer
  <2>3. \A g \in Flow : g \notin signing /\ g # context
    BY <2>2 DEF Running, ReportInv, SignedIsTracked
  <2>4. ReportTypes' /\ SeenIsTracked' /\ ReportsAreOwn'
    BY <2>1 DEF ReportInv, ReportTypes, SeenIsTracked, ReportsAreOwn
  <2>5. SignedIsTracked'
    BY <2>1, <2>3 DEF ReportInv, ReportTypes, SignedIsTracked
  <2> QED BY <2>4, <2>5 DEF ReportInv
<1> QED BY <1>1, <1>2

\* The effect posts what is signed, for what is tracked (hooks/useWithdrawStatus.ts).
LEMMA ReportsAppend ==
    ASSUME ReportInv, DrawerInv', Append, UNCHANGED <<step, tracking>>,
           signing' \subseteq signing, context' = context \/ context' \in signing,
           seen' => tracking # None
    PROVE  ReportInv'
<1>1. ReportTypes' /\ SeenIsTracked'
  BY DEF ReportInv, ReportTypes, SeenIsTracked
<1>2. SignedIsTracked'
  BY DEF ReportInv, ReportTypes, SignedIsTracked
<1>3. ReportsAreOwn'
  <2>1. CASE ~Due
    BY <2>1 DEF Append, ReportInv, ReportsAreOwn
  <2>2. CASE Due
    <3>1. tracking # None /\ context' # None
          /\ reports' = reports \cup {[of |-> context', tx |-> tracking]}
      BY <2>2 DEF Append, Due
    <3>2. context' \in Flow
      BY <3>1 DEF ReportInv, ReportTypes
    <3>3. context' = tracking
      BY <3>1, <3>2, <1>2 DEF SignedIsTracked
    <3> QED BY <3>1, <3>3 DEF ReportInv, ReportsAreOwn
  <2> QED BY <2>1, <2>2
<1> QED BY <1>1, <1>2, <1>3 DEF ReportInv

\* Every step keeps the signatures with their transactions.
LEMMA ReportsStep == ReportInv /\ [Next]_vars => ReportInv'
<1> SUFFICES ASSUME ReportInv, [Next]_vars PROVE ReportInv'
  OBVIOUS
<1>1. DrawerInv'
  BY DrawerStep DEF ReportInv
<1>2. CASE Unmount \/ Reload
  <2>1. PICK ends, sent, restored : Leave(ends, sent, restored)
    BY <1>2 DEF Unmount, Reload
  <2>2. /\ seen' = FALSE /\ signing' = {} /\ context' = None /\ reports' = reports
    BY <2>1 DEF Leave
  <2>3. None \notin Flow
    BY DEF None, Flow
  <2> QED BY <1>1, <2>2, <2>3 DEF ReportInv, ReportTypes, SignedIsTracked, SeenIsTracked,
                                  ReportsAreOwn
<1>3. CASE UNCHANGED vars
  BY <1>1, <1>3, ReportsUntouched DEF vars, page, drawer
<1>4. ASSUME Next, ~Unmount, ~Reload PROVE ReportInv'
  <2>1. step = "done" => step' = "done"
    BY <1>4, DoneStays DEF ReportInv
  <2>2. ASSUME NEW f \in Flow, FlowStep(f) PROVE ReportInv'
    <3>1. CASE Submitted(f)
      BY <1>1, <2>1, <3>1, ReportsFollow
    <3>2. CASE ~Submitted(f)
      <4>1. UNCHANGED page
        BY <2>2, <3>2 DEF FlowStep, Authenticated, Quoted, Initiated, HandleKycComplete,
           HandleKycEnded, RecordRead, BuildWithdrawPayment, Signed, SubmitFails
      <4> QED BY <1>1, <2>1, <4>1, ReportsUntouched DEF page
    <3> QED BY <3>1, <3>2
  <2>3. ASSUME NEW f \in Flow, SignIntent(f) PROVE ReportInv'
    <3>1. /\ f \in signing /\ signing' = signing \ {f}
          /\ context' = f \/ context' = context
          /\ Append /\ UNCHANGED <<step, tracking, seen>>
      BY <2>3 DEF SignIntent, drawer
    <3>2. signing' \subseteq signing /\ (context' = context \/ context' \in signing)
      BY <3>1
    <3>3. seen' => tracking # None
      BY <3>1 DEF ReportInv, SeenIsTracked
    <3> QED BY <1>1, <3>1, <3>2, <3>3, ReportsAppend
  <2>4. CASE Poll
    <3>1. Append /\ tracking # None /\ UNCHANGED <<step, tracking, signing, context>>
      BY <2>4 DEF Poll, drawer
    <3> QED BY <1>1, <3>1, ReportsAppend
  <2>5. CASE HandleOffRampAnother
    <3>1. /\ tracking' = None /\ seen' = FALSE /\ context' = None
          /\ UNCHANGED <<step, signing, reports>>
      BY <2>5 DEF HandleOffRampAnother, drawer
    <3>2. None \notin Flow
      BY DEF None, Flow
    <3> QED BY <1>1, <3>1, <3>2 DEF ReportInv, ReportTypes, SignedIsTracked, SeenIsTracked,
                                    ReportsAreOwn
  <2>6. CASE \/ UserStep /\ ~HandleOffRampAnother
             \/ \E f \in Flow : Include(f) \/ Settle(f)
             \/ QuoteExpires \/ TokenExpires
    <3>1. UNCHANGED page
      BY <2>6 DEF UserStep, HandleSelectAnchor, HandleExecute, HandleConsentAccept,
         AskConsent, ConsentDecline, HandleStartOver, OnClose, HandleSwipeEnd,
         HandleCancelClose, HandleConfirmClose, Include, Settle, QuoteExpires, TokenExpires
    <3> QED BY <1>1, <2>1, <3>1, ReportsUntouched DEF page
  <2> QED BY <1>4, <2>2, <2>3, <2>4, <2>5, <2>6 DEF Next
<1> QED BY <1>2, <1>3, <1>4

\* An outcome is posted under the signature of its own transaction, because a page
\* follows one transaction of its own (app/offramp/page.tsx, hooks/useWithdrawStatus.ts).
THEOREM ReportsAreAlwaysOwn == Spec => []ReportsAreOwn
<1>1. Init => ReportInv
  <2>1. None \notin Flow
    BY DEF None, Flow
  <2> QED BY <2>1, DrawerInit DEF Init, ReportInv, ReportTypes, SignedIsTracked, SeenIsTracked,
                                  ReportsAreOwn
<1>2. ReportInv => ReportsAreOwn
  BY DEF ReportInv
<1> QED BY <1>1, <1>2, ReportsStep, PTL DEF Spec
=============================================================================
