----------------------------- MODULE WebProofs ------------------------------
(***************************************************************************)
(* Proofs about the web app's pages together.  The page that was opened    *)
(* takes steps of its own specification and the others take none, so the   *)
(* pages' inductive invariants hold side by side.                          *)
(***************************************************************************)
EXTENDS Web, WebPageProofs, WebSessionProofs, WebMoneyProofs

WebInv ==
  /\ SessionInv
  /\ CheckInv
  /\ PolicyInv
  /\ TeamInv
  /\ ListsTypeOK
  /\ WalletInv
  /\ FaucetInv
  /\ KeyInv

LEMMA WebInitInv == WebInit => WebInv
<1> SUFFICES ASSUME WebInit PROVE WebInv
  OBVIOUS
<1>1. SessionInit
  BY DEF WebInit, SessionAtRest
<1>2. CheckInit
  BY DEF WebInit, CheckAtRest
<1>3. PolicyInit
  BY DEF WebInit, PolicyAtRest
<1>4. TeamInit
  BY DEF WebInit, TeamAtRest
<1>5. ListsInit
  BY DEF WebInit, ListsAtRest
<1>6. WalletInit
  BY DEF WebInit, WalletAtRest
<1>7. FaucetInit /\ ExportInit
  BY DEF WebInit
<1>8. ListsTypeOK
  BY <1>5 DEF ListsInit, ListsTypeOK
<1> QED
  BY <1>1, <1>2, <1>3, <1>4, <1>5, <1>6, <1>7, <1>8, SessionInitInv, CheckInitInv,
     PolicyInitInv, TeamInitInv, WalletInitInv, FaucetInitInv, KeyInitInv DEF WebInv

\* Every step of the app is, for each page, a step of that page or none.
LEMMA WebStepIsAStepOfEach ==
  ASSUME [WebNext]_webVars
  PROVE  /\ [SessionNext]_sessionVars
         /\ [CheckNext]_checkVars
         /\ [PolicyNext]_policyVars
         /\ [TeamNext]_teamVars
         /\ [ListsNext]_listVars
         /\ [WalletNext]_walletVars
         /\ [FaucetNext]_faucetVars
         /\ [ExportNext]_exportVars
BY DEF WebNext, webVars

LEMMA WebStepInv == WebInv /\ [WebNext]_webVars => WebInv'
BY WebStepIsAStepOfEach, SessionStepInv, CheckStepInv, PolicyStepInv, TeamStepInv,
   ListsStepType, WalletStepInv, FaucetStepInv, KeyStepInv DEF WebInv

LEMMA WebInvHolds == WebSpec => []WebInv
BY WebInitInv, WebStepInv, PTL DEF WebSpec

\* Every page keeps to its types, whichever is opened (the modules' TypeOK formulas).
THEOREM WebTypesCorrect == WebSpec => []WebTypeOK
<1>1. WebInv => WebTypeOK
  BY DEF WebInv, WebTypeOK, SessionInv, CheckInv, PolicyInv, TeamInv, WalletInv, FaucetInv, KeyInv
<1> QED
  BY WebInvHolds, <1>1, PTL

PagesAreRight ==
  /\ SignedOutIsLeaving
  /\ DoneIsRecorded
  /\ EachFormItsTier /\ QuietPolicyIsCurrent
  /\ QuietRosterIsCurrent
  /\ OneSendPerCrossing /\ OneTopUpPerMiss
  /\ DripsAreSpaced
  /\ KeyIsHeldBack

\* What each page promises by itself holds in the app, from whichever page it is opened.
THEOREM PagesStayRight == WebSpec => []PagesAreRight
<1>1. WebInv => PagesAreRight
  <2> SUFFICES ASSUME WebInv PROVE PagesAreRight
    OBVIOUS
  <2>1. OneSendPerCrossing /\ OneTopUpPerMiss
    BY WalletIsBounded DEF WebInv
  <2> QED
    BY <2>1 DEF WebInv, PagesAreRight, SessionInv, CheckInv, PolicyInv, PolicyTold, CardsAreRead,
         QuietPolicyIsCurrent, TeamInv, TeamTold, QuietRosterIsCurrent, FaucetInv, KeyInv
<1> QED
  BY WebInvHolds, <1>1, PTL

\* No page of the app takes a seat from whoever holds it (store/queries.go:128).
THEOREM SeatsStayInTheApp == WebSpec => SeatsAreKept
<1>1. WebInv /\ [WebNext]_webVars
        => [\A e \in Emails : holder[e] \in Accounts => holder'[e] \in {holder[e], NoSeat}]_holder
  <2> SUFFICES ASSUME WebInv, [WebNext]_webVars, holder' # holder, NEW e \in Emails
               PROVE  SeatKept(e)
    BY DEF SeatKept
  <2>1. SessionTypeOK /\ [SessionNext]_sessionVars
    BY WebStepIsAStepOfEach DEF WebInv, SessionInv
  <2>2. SessionNext
    BY <2>1 DEF sessionVars
  <2> QED
    BY <2>1, <2>2, SeatStep
<1> QED
  BY <1>1, WebInvHolds, PTL DEF WebSpec, SeatsAreKept

-----------------------------------------------------------------------------
(* Every wait has a request.  What ends a wait is the answer of the        *)
(* request that began it, or its failure; a page that shows a wait with no *)
(* such request under way would show it for good.                          *)

\* The hook says "syncing" exactly while its own request is under way, and has one.
SyncIsUnderWay ==
  /\ sync = "syncing" => \E c \in calls : c.mounted
  /\ \A c, d \in calls : c.mounted /\ d.mounted => c = d /\ sync = "syncing"

ProofIsUnderWay ==
  /\ check = "verifying" => \E c \in attempts : c.mounted
  /\ \A c, d \in attempts : c.mounted /\ d.mounted => c = d /\ check = "verifying"

\* An approver who was told so and sees a page that does not know it yet has a refresh
\* asked for, or a rendering on its way that knows.
DecisionIsOnItsWay ==
  check = "done" /\ ~shownInvoice.decided
    => redrawInvoice \/ (pageComing /\ readInvoice.decided)

\* A later rendering knows no less, and none knows more than the server.
RenderingsGrow ==
  /\ shownInvoice.decided => readInvoice.decided
  /\ readInvoice.decided => decided

RowIsUnderWay ==
  \A m \in Members : busyRow = m => rowLost \/ \E c \in rowCalls : c.on = m

MoneyIsUnderWay ==
  /\ sendState = "sending" => \E n \in Slots : sends[n] # "free"
  /\ gasState = "working" => topUp # "none"

DripIsUnderWay == \A f \in Forms : forms[f].state = "sending" => routes[f].stage # "none"

ExportIsUnderWay == exporting = "working" => export # "none"

EveryWaitHasARequest ==
  /\ SyncIsUnderWay
  /\ ProofIsUnderWay /\ DecisionIsOnItsWay
  /\ RowIsUnderWay
  /\ MoneyIsUnderWay /\ DripIsUnderWay /\ ExportIsUnderWay

\* A hook that starts afresh waits for nothing and its requests answer to nobody.
LEMMA AfreshIsUnderWay ==
  ASSUME SessionTypeOK, sync' = "idle",
         calls' = {[c EXCEPT !.mounted = FALSE] : c \in calls}
  PROVE  SyncIsUnderWay'
<1>1. ASSUME NEW d \in calls' PROVE ~d.mounted
  <2>1. PICK c \in calls : d = [c EXCEPT !.mounted = FALSE]
    OBVIOUS
  <2>2. c \in Call
    BY DEF SessionTypeOK
  <2> QED
    BY <2>1, <2>2 DEF Call
<1> QED
  BY <1>1 DEF SyncIsUnderWay

LEMMA SyncCallStep ==
  ASSUME SessionTypeOK, SyncIsUnderWay, NEW c \in calls, CallMoves(c) \/ SyncLost(c)
  PROVE  SyncIsUnderWay'
<1>1. c \in Call /\ c.mounted \in BOOLEAN
  BY DEF SessionTypeOK, Call
<1>2. ASSUME NEW s \in {"sent", "looked"} \cup Settled, Moves(c, s), sync' = sync
      PROVE  SyncIsUnderWay'
  <2> DEFINE e == [c EXCEPT !.stage = s]
  <2>1. calls' = (calls \ {c}) \cup {e} /\ e.mounted = c.mounted
    BY <1>1, <1>2 DEF Moves, Call
  <2> HIDE DEF e
  <2> QED
    BY <1>2, <2>1 DEF SyncIsUnderWay
<1>3. CASE SyncAnswered(c)
  BY <1>3, <1>1 DEF SyncAnswered, SyncIsUnderWay, Verdict
<1>4. CASE SyncLost(c)
  BY <1>4, <1>1 DEF SyncLost, SyncIsUnderWay
<1>5. CASE LookUp(c) \/ ClaimMemberSeat(c) \/ LookUpFails(c)
  BY <1>2, <1>5 DEF LookUp, ClaimMemberSeat, LookUpFails, Settled
<1> QED
  BY <1>3, <1>4, <1>5 DEF CallMoves

LEMMA SyncStep ==
  SessionTypeOK /\ SyncIsUnderWay /\ [SessionNext]_sessionVars => SyncIsUnderWay'
<1> SUFFICES ASSUME SessionTypeOK, SyncIsUnderWay, [SessionNext]_sessionVars
             PROVE  SyncIsUnderWay'
  OBVIOUS
<1>1. ASSUME UNCHANGED <<sync, calls>> PROVE SyncIsUnderWay'
  BY <1>1 DEF SyncIsUnderWay
<1>2. ASSUME NEW p, NEW v, Show(p, v) PROVE SyncIsUnderWay'
  BY <1>1, <1>2, AfreshIsUnderWay DEF Show
<1>3. CASE Land
  BY <1>1, <1>2, <1>3 DEF Land, LandOnLogin, LandOnDashboard, LandOnVerify, DashboardFor, Redirect
<1>4. CASE StartSync
  <2> DEFINE new == [by |-> user, stage |-> "sent", mounted |-> TRUE]
  <2>1. calls' = calls \cup {new} /\ new.mounted /\ sync = "idle" /\ sync' = "syncing"
    BY <1>4 DEF StartSync
  <2> HIDE DEF new
  <2> QED
    BY <2>1 DEF SyncIsUnderWay
<1>5. ASSUME NEW c \in calls, CallMoves(c) \/ SyncLost(c) PROVE SyncIsUnderWay'
  BY <1>5, SyncCallStep
<1>6. CASE LeaveLogin
  BY <1>6 DEF LeaveLogin, SyncIsUnderWay
<1>7. CASE Reload
  BY <1>7, AfreshIsUnderWay DEF Reload
<1>8. CASE TryDifferentAccount \/ SignOut \/ LogoutSettles \/ ReplaceWithLogin
           \/ FollowAuthButton \/ PrivyReady \/ TokenLapses \/ TokenRenewed
           \/ UNCHANGED sessionVars
  BY <1>1, <1>8 DEF TryDifferentAccount, SignOut, LogoutSettles, ReplaceWithLogin,
     FollowAuthButton, PrivyReady, TokenLapses, TokenRenewed, sessionVars
<1>9. CASE (\E a \in Accounts : Login(a)) \/ (\E e \in Emails : RosterChanges(e))
  BY <1>1, <1>9 DEF Login, RosterChanges
<1> QED
  BY <1>3, <1>4, <1>5, <1>6, <1>7, <1>8, <1>9 DEF SessionNext

LEMMA ProofCallStep ==
  ASSUME CheckTypeOK, ProofIsUnderWay, NEW c \in attempts,
         Attest(c) \/ AttemptAnswered(c) \/ AttemptLost(c)
  PROVE  ProofIsUnderWay'
<1>1. c \in Attempt /\ c.mounted \in BOOLEAN
  BY DEF CheckTypeOK, Attempt
<1>2. ASSUME NEW s \in {"refused", "counted", "final"}, check' = check,
             attempts' = (attempts \ {c}) \cup {[c EXCEPT !.stage = s]}
      PROVE  ProofIsUnderWay'
  <2> DEFINE e == [c EXCEPT !.stage = s]
  <2>1. attempts' = (attempts \ {c}) \cup {e} /\ e.mounted = c.mounted
    BY <1>1, <1>2 DEF Attempt
  <2> HIDE DEF e
  <2> QED
    BY <1>2, <2>1 DEF ProofIsUnderWay
<1>3. CASE Attest(c)
  BY <1>2, <1>3 DEF Attest, checkState
<1>4. CASE AttemptAnswered(c)
  BY <1>4, <1>1 DEF AttemptAnswered, Approved, ProofIsUnderWay
<1>5. CASE AttemptLost(c)
  BY <1>5, <1>1 DEF AttemptLost, ProofIsUnderWay
<1> QED
  BY <1>3, <1>4, <1>5

LEMMA ProofStep ==
  CheckTypeOK /\ ProofIsUnderWay /\ [CheckNext]_checkVars => ProofIsUnderWay'
<1> SUFFICES ASSUME CheckTypeOK, ProofIsUnderWay, [CheckNext]_checkVars
             PROVE  ProofIsUnderWay'
  OBVIOUS
<1>1. ASSUME UNCHANGED attempts, check' = check \/ {check, check'} \cap {"verifying"} = {}
      PROVE  ProofIsUnderWay'
  BY <1>1 DEF ProofIsUnderWay
<1>2. ASSUME NEW r, Fresh(r) PROVE ProofIsUnderWay'
  <2>1. ASSUME NEW d \in attempts' PROVE ~d.mounted
    <3>1. PICK c \in attempts : d = [c EXCEPT !.mounted = FALSE]
      BY <1>2 DEF Fresh
    <3>2. c \in Attempt
      BY DEF CheckTypeOK
    <3> QED
      BY <3>1, <3>2 DEF Attempt
  <2> QED
    BY <1>2, <2>1 DEF Fresh, ProofIsUnderWay
<1>3. ASSUME Submit, check # "verifying" PROVE ProofIsUnderWay'
  <2>1. PICK n \in UnusedIds :
          attempts' = attempts \cup {[id |-> n, stage |-> "sent", mounted |-> TRUE]}
    BY <1>3 DEF Submit
  <2> DEFINE new == [id |-> n, stage |-> "sent", mounted |-> TRUE]
  <2>2. attempts' = attempts \cup {new} /\ new.mounted /\ check' = "verifying"
    BY <1>3, <2>1 DEF Submit
  <2> HIDE DEF new
  <2> QED
    BY <2>2, <1>3 DEF ProofIsUnderWay
<1>4. CASE RedrawInvoice \/ Reopen
  BY <1>1, <1>2, <1>4 DEF RedrawInvoice, Reopen, checkState
<1>5. CASE Simulate \/ HandleVerify
  BY <1>3, <1>5 DEF Simulate, HandleVerify
<1>6. CASE RenderInvoice \/ Start \/ ContextAnswered \/ WidgetFails \/ WidgetClosed
           \/ LookAgain \/ OtherApproves \/ InvoiceCloses \/ RolesChange \/ UNCHANGED checkVars
  <2>1. UNCHANGED attempts /\ (check' = check \/ {check, check'} \cap {"verifying"} = {})
    BY <1>6 DEF RenderInvoice, Start, ContextAnswered, WidgetFails, WidgetClosed, LookAgain, OtherApproves,
       InvoiceCloses, RolesChange, checkVars, checkState
  <2> QED
    BY <1>1, <2>1
<1>7. ASSUME NEW c \in attempts, Attest(c) \/ AttemptAnswered(c) \/ AttemptLost(c)
      PROVE  ProofIsUnderWay'
  BY <1>7, ProofCallStep
<1> QED
  BY <1>4, <1>5, <1>6, <1>7 DEF CheckNext, CheckProgress

LEMMA DecisionStep ==
  CheckInv /\ DecisionIsOnItsWay /\ RenderingsGrow /\ [CheckNext]_checkVars
    => DecisionIsOnItsWay' /\ RenderingsGrow'
<1> SUFFICES ASSUME CheckInv, DecisionIsOnItsWay, RenderingsGrow, [CheckNext]_checkVars
             PROVE  DecisionIsOnItsWay' /\ RenderingsGrow'
  OBVIOUS
<1> USE DEF DecisionIsOnItsWay, RenderingsGrow
<1>1. CASE RenderInvoice
  BY <1>1 DEF RenderInvoice, Rendered, CheckInv, DoneIsRecorded, checkState, serverInvoice
<1>7. CASE RedrawInvoice
  BY <1>7 DEF RedrawInvoice, checkState, serverInvoice, Fresh
<1>2. CASE Reopen
  BY <1>2 DEF Reopen, Fresh, Rendered, serverInvoice
<1>3. ASSUME NEW c \in attempts, AttemptAnswered(c)
      PROVE  DecisionIsOnItsWay' /\ RenderingsGrow'
  BY <1>3 DEF AttemptAnswered, Approved, RefreshAfter, Granted, serverInvoice
<1>4. ASSUME NEW c \in attempts, Attest(c) \/ AttemptLost(c)
      PROVE  DecisionIsOnItsWay' /\ RenderingsGrow'
  BY <1>4 DEF Attest, AttemptLost, invoicePage, checkState, serverInvoice
<1>5. CASE Simulate \/ HandleVerify \/ Start \/ ContextAnswered \/ WidgetFails \/ WidgetClosed
  BY <1>5 DEF Simulate, HandleVerify, Submit, Start, ContextAnswered, WidgetFails, WidgetClosed,
     invoicePage, serverInvoice
<1>6. CASE LookAgain \/ OtherApproves \/ InvoiceCloses \/ RolesChange \/ UNCHANGED checkVars
  BY <1>6 DEF LookAgain, OtherApproves, InvoiceCloses, RolesChange, checkVars, invoicePage,
     checkState, serverInvoice
<1> QED
  BY <1>1, <1>2, <1>3, <1>4, <1>5, <1>6, <1>7 DEF CheckNext, CheckProgress

LEMMA RowStep == TeamTypeOK /\ RowIsUnderWay /\ [TeamNext]_teamVars => RowIsUnderWay'
<1> SUFFICES ASSUME TeamTypeOK, RowIsUnderWay, [TeamNext]_teamVars, NEW m \in Members,
                    busyRow' = m, ~rowLost'
             PROVE  \E c \in rowCalls' : c.on = m
  BY DEF RowIsUnderWay
<1> USE DEF RowIsUnderWay
<1>1. ASSUME UNCHANGED <<busyRow, rowCalls, rowLost>> PROVE \E c \in rowCalls' : c.on = m
  BY <1>1
<1>2. ASSUME NEW k \in Members, NEW to, PressRow(k, to) PROVE \E c \in rowCalls' : c.on = m
  <2> DEFINE new == [on |-> k, to |-> to, stage |-> "sent"]
  <2>1. new \in rowCalls' /\ new.on = k /\ k = m
    BY <1>2 DEF PressRow
  <2> QED
    BY <2>1
<1>3. ASSUME NEW c \in rowCalls, RowCallArrives(c) PROVE \E d \in rowCalls' : d.on = m
  <2>1. c \in RowCall
    BY DEF TeamTypeOK
  <2>2. PICK s \in {"ok", "refused"} :
          rowCalls' = (rowCalls \ {c}) \cup {[c EXCEPT !.stage = s]}
    BY <1>3 DEF RowCallArrives
  <2>3. [c EXCEPT !.stage = s].on = c.on
    BY <2>1 DEF RowCall
  <2> QED
    BY <1>3, <2>2, <2>3 DEF RowCallArrives
<1>4. ASSUME NEW c \in rowCalls, RowCallAnswered(c) PROVE FALSE
  BY <1>4, TeamAssumption DEF RowCallAnswered, Unmark
<1>5. ASSUME NEW c \in rowCalls, RowCallLost(c) PROVE FALSE
  BY <1>5 DEF RowCallLost
<1>6. CASE RedrawTeam \/ OpenInvite \/ CloseInvite \/ PressInvite \/ InviteArrives
           \/ InviteAnswered \/ InviteLost \/ UNCHANGED teamVars
           \/ \E k \in Members : AnotherOwnerEdits(k)
  BY <1>1, <1>6 DEF RedrawTeam, OpenInvite, CloseInvite, PressInvite, InviteArrives,
     InviteAnswered, InviteLost, teamVars, AnotherOwnerEdits
<1> QED
  BY <1>2, <1>3, <1>4, <1>5, <1>6 DEF TeamNext, TeamProgress, ChangeRole, DeleteRow

LEMMA WalletWaitStep == WalletTypeOK /\ MoneyIsUnderWay /\ [WalletNext]_walletVars => MoneyIsUnderWay'
<1> SUFFICES ASSUME WalletTypeOK, MoneyIsUnderWay, [WalletNext]_walletVars PROVE MoneyIsUnderWay'
  OBVIOUS
<1> USE DEF MoneyIsUnderWay
<1>1. ASSUME NEW n \in Slots, PressSend(n) \/ SendArrives(n) \/ SendAnswered(n) \/ SendLost(n)
      PROVE  MoneyIsUnderWay'
  BY <1>1 DEF PressSend, SendArrives, SendAnswered, SendLost, WalletTypeOK, gasForm
<1>2. CASE PressTopUp \/ CheckHeld \/ Sponsor \/ TopUpAnswered \/ TopUpLost
  BY <1>2 DEF PressTopUp, CheckHeld, Sponsor, TopUpAnswered, TopUpLost, TopUpFails, Sponsored,
     sendForm
<1>3. CASE RedrawWallet \/ FillIn \/ TopUpMined \/ AnotherTabTopsUp \/ Balances
           \/ UNCHANGED walletVars
  BY <1>3 DEF RedrawWallet, FillIn, TopUpMined, AnotherTabTopsUp, Balances, walletVars,
     sendForm, gasForm
<1> QED
  BY <1>1, <1>2, <1>3 DEF WalletNext

LEMMA DripWaitStep == FaucetTypeOK /\ DripIsUnderWay /\ [FaucetNext]_faucetVars => DripIsUnderWay'
<1> SUFFICES ASSUME FaucetTypeOK, DripIsUnderWay, [FaucetNext]_faucetVars, NEW f \in Forms
             PROVE  (forms[f].state = "sending" => routes[f].stage # "none")'
  BY DEF DripIsUnderWay
<1> USE DEF DripIsUnderWay, FaucetTypeOK, Form, Route
<1>1. ASSUME UNCHANGED <<forms, routes>>
      PROVE  (forms[f].state = "sending" => routes[f].stage # "none")'
  BY <1>1
<1>2. ASSUME NEW g \in Forms, PressDrip(g) \/ SendToAnother(g) \/ DripAnswered(g)
      PROVE  (forms[f].state = "sending" => routes[f].stage # "none")'
  <2>1. CASE PressDrip(g)
    BY <2>1 DEF PressDrip, FormIs
  <2>2. CASE SendToAnother(g)
    BY <2>2 DEF SendToAnother, FormIs
  <2>3. CASE DripAnswered(g)
    BY <2>3 DEF DripAnswered, FormIs
  <2> QED
    BY <1>2, <2>1, <2>2, <2>3
<1>3. ASSUME NEW g \in Forms, AskContract(g) \/ SendDrip(g) \/ DripLost(g)
      PROVE  (forms[f].state = "sending" => routes[f].stage # "none")'
  BY <1>3 DEF AskContract, SendDrip, DripLost, FormIs, RouteIs
<1>4. ASSUME NEW g \in Forms, NEW a \in Addresses, TypeAddress(g, a)
      PROVE  (forms[f].state = "sending" => routes[f].stage # "none")'
  BY <1>4 DEF TypeAddress
<1>5. CASE Tick \/ UNCHANGED faucetVars \/ \E a \in Addresses : MineDrip(a) \/ SomebodyDrips(a)
  BY <1>1, <1>5 DEF Tick, faucetVars, MineDrip, SomebodyDrips
<1> QED
  BY <1>2, <1>3, <1>4, <1>5 DEF FaucetNext

LEMMA KeyWaitStep == ExportIsUnderWay /\ [ExportNext]_exportVars => ExportIsUnderWay'
BY DEF ExportIsUnderWay, ExportNext, exportVars, AskExport, CancelExport, Run, ExportArrives,
   ExportEnds, Reveal, CopyKey, Hide

\* Whatever page is open, however its requests cross each other and whichever of them are
\* lost, it never shows a wait that nothing is there to end: a sync, a check, a busy row, a
\* send, a top-up, a drip and an export each have their request under way, and a decision
\* the page does not show yet has its refresh (auth.tsx:28-73, selfie-check.tsx:66-95,
\* team-board.tsx:70-110, wallet-actions.tsx:31-88, faucet-form.tsx, export-key.tsx:22-90).
THEOREM EveryWaitEnds == WebSpec => []EveryWaitHasARequest
<1> USE DEF EveryWaitHasARequest
<1>1. WebInit => EveryWaitHasARequest /\ RenderingsGrow
  <2> SUFFICES ASSUME WebInit PROVE EveryWaitHasARequest /\ RenderingsGrow
    OBVIOUS
  <2>1. SyncIsUnderWay
    BY DEF WebInit, SessionAtRest, SessionInit, SyncIsUnderWay
  <2>2. ProofIsUnderWay /\ DecisionIsOnItsWay /\ RenderingsGrow
    BY DEF WebInit, CheckAtRest, CheckInit, Rendered, ProofIsUnderWay, DecisionIsOnItsWay,
           RenderingsGrow
  <2>3. RowIsUnderWay
    BY TeamAssumption DEF WebInit, TeamAtRest, TeamInit, RowIsUnderWay
  <2>4. MoneyIsUnderWay /\ DripIsUnderWay /\ ExportIsUnderWay
    BY DEF WebInit, WalletAtRest, WalletInit, FaucetInit, ExportInit, MoneyIsUnderWay,
           DripIsUnderWay, ExportIsUnderWay
  <2> QED
    BY <2>1, <2>2, <2>3, <2>4
<1>2. WebInv /\ EveryWaitHasARequest /\ RenderingsGrow /\ [WebNext]_webVars
        => EveryWaitHasARequest' /\ RenderingsGrow'
  <2> SUFFICES ASSUME WebInv, EveryWaitHasARequest, RenderingsGrow, [WebNext]_webVars
               PROVE  EveryWaitHasARequest' /\ RenderingsGrow'
    OBVIOUS
  <2>1. SessionTypeOK /\ CheckInv /\ CheckTypeOK /\ TeamTypeOK /\ WalletTypeOK /\ FaucetTypeOK
    BY DEF WebInv, SessionInv, CheckInv, TeamInv, WalletInv, FaucetInv
  <2> QED
    BY <2>1, WebStepIsAStepOfEach, SyncStep, ProofStep, DecisionStep, RowStep,
       WalletWaitStep, DripWaitStep, KeyWaitStep
<1> QED
  BY <1>1, <1>2, WebInvHolds, PTL DEF WebSpec
=============================================================================
