-------------------------- MODULE WebSessionProofs --------------------------
(***************************************************************************)
(* Proofs about signing in.  A dashboard is rendered for the viewer the    *)
(* session names, and the only step that ends the session of somebody on   *)
(* a dashboard has the login page asked for next.  A seat changes hands through removal only, *)
(* whatever the number of identities, addresses and sign-ins under way.    *)
(***************************************************************************)
EXTENDS WebSession, TLAPS

SessionInv == SessionTypeOK /\ SignedOutIsLeaving

SeatKept(e) == holder[e] \in Accounts => holder'[e] \in {holder[e], NoSeat}

LEMMA SeatWords == NoSeat \notin Accounts /\ OpenSeat \notin Accounts
BY SessionAssumption

LEMMA SessionInitInv == SessionInit => SessionInv
BY DEF SessionInit, SessionInv, SessionTypeOK, SignedOutIsLeaving, Pages

LEMMA MeIsUser == SessionTypeOK => Me \in {user, Nobody} /\ Me \in Accounts \cup {Nobody}
BY DEF Me, SessionTypeOK

LEMMA CallShape ==
  ASSUME NEW c \in Call
  PROVE  /\ c.by \in Accounts /\ EmailOf[c.by] \in Emails
         /\ [c EXCEPT !.mounted = FALSE] \in Call
         /\ \A s \in {"sent", "looked"} \cup Settled : [c EXCEPT !.stage = s] \in Call
BY SessionAssumption DEF Call

-----------------------------------------------------------------------------

\* A page comes on screen: its hook starts afresh, or keeps its state.
LEMMA ShowInv ==
  ASSUME SessionInv, NEW p \in Pages, NEW v \in Accounts \cup {Nobody}, Show(p, v),
         UNCHANGED <<ready, user, lapsed, holder, leaving>>,
         p = "dashboard" => v = user
  PROVE  SessionInv'
<1>1. calls' \subseteq Call
  <2>1. CASE calls' = calls
    BY <2>1 DEF SessionInv, SessionTypeOK
  <2>2. CASE calls' = {[c EXCEPT !.mounted = FALSE] : c \in calls}
    BY <2>2, CallShape DEF SessionInv, SessionTypeOK
  <2> QED
    BY <2>1, <2>2 DEF Show
<1>2. sync' \in {sync, "idle"}
  BY DEF Show
<1>3. SessionTypeOK'
  BY <1>1, <1>2 DEF Show, SessionInv, SessionTypeOK
<1>4. SignedOutIsLeaving'
  BY DEF Show, SignedOutIsLeaving
<1> QED
  BY <1>3, <1>4 DEF SessionInv

\* A step that stays on the page, and whose session is the same or on its way out.
LEMMA StayInv ==
  ASSUME SessionInv, UNCHANGED <<page, viewer>>,
         ready' \in BOOLEAN, user' \in Accounts \cup {Nobody}, lapsed' \in BOOLEAN,
         holder' \in [Emails -> Accounts \cup {NoSeat, OpenSeat}],
         going' \in Pages \cup {"none"},
         sync' \in {"idle", "syncing", "ok", "left", "error"},
         leaving' \in {"no", "logout", "replace"},
         calls' \subseteq Call,
         page = "dashboard" => user' = user \/ leaving' = "replace",
         page = "dashboard" /\ going # "none" => going' # "none",
         leaving = "replace" => leaving' = "replace" \/ going' # "none"
  PROVE  SessionInv'
<1>1. SessionTypeOK'
  BY DEF SessionInv, SessionTypeOK
<1>2. SignedOutIsLeaving'
  BY DEF SessionInv, SignedOutIsLeaving
<1> QED
  BY <1>1, <1>2 DEF SessionInv

LEMMA LandInv == ASSUME SessionInv, Land PROVE SessionInv'
<1>1. SessionTypeOK /\ Me \in {user, Nobody} /\ Me \in Accounts \cup {Nobody}
  BY MeIsUser DEF SessionInv
<1>2. CASE LandOnLogin
  <2>1. CASE Redirect("dashboard")
    BY <1>1, <1>2, <2>1, StayInv DEF LandOnLogin, Redirect, SessionTypeOK, Pages
  <2>2. CASE Show("login", Nobody)
    BY <1>2, <2>2, ShowInv DEF LandOnLogin, Pages
  <2> QED
    BY <1>2, <2>1, <2>2 DEF LandOnLogin
<1>3. CASE LandOnDashboard
  <2>1. CASE Redirect("login")
    BY <1>1, <1>3, <2>1, StayInv DEF LandOnDashboard, DashboardFor, Redirect, SessionTypeOK, Pages
  <2>2. CASE Me # Nobody /\ Show("dashboard", Me)
    BY <1>1, <1>3, <2>2, ShowInv DEF LandOnDashboard, DashboardFor, Pages
  <2> QED
    BY <1>3, <2>1, <2>2 DEF LandOnDashboard, DashboardFor
<1>4. CASE LandOnVerify
  BY <1>1, <1>4, ShowInv DEF LandOnVerify, Pages
<1> QED
  BY <1>2, <1>3, <1>4 DEF Land

LEMMA CallInv ==
  ASSUME SessionInv, NEW c \in calls, CallMoves(c) \/ SyncLost(c)
  PROVE  SessionInv'
<1>1. SessionTypeOK /\ c \in Call
  BY DEF SessionInv, SessionTypeOK
<1>2. ASSUME NEW s \in {"sent", "looked"} \cup Settled, Moves(c, s)
      PROVE  calls' \subseteq Call
  BY <1>1, <1>2, CallShape DEF Moves, SessionTypeOK
<1>3. CASE LookUp(c)
  <2>1. calls' \subseteq Call
    BY <1>2, <1>3 DEF LookUp, Settled
  <2> QED
    BY <1>1, <1>3, <2>1, StayInv DEF LookUp, SessionTypeOK
<1>4. CASE ClaimMemberSeat(c)
  <2>1. calls' \subseteq Call
    BY <1>2, <1>4 DEF ClaimMemberSeat, Settled
  <2>2. holder' \in [Emails -> Accounts \cup {NoSeat, OpenSeat}]
    BY <1>1, <1>4, CallShape DEF ClaimMemberSeat, SessionTypeOK
  <2> QED
    BY <1>1, <1>4, <2>1, <2>2, StayInv DEF ClaimMemberSeat, SessionTypeOK
<1>5. CASE LookUpFails(c)
  <2>1. calls' \subseteq Call
    BY <1>2, <1>5 DEF LookUpFails, Settled
  <2> QED
    BY <1>1, <1>5, <2>1, StayInv DEF LookUpFails, SessionTypeOK
<1>6. CASE SyncAnswered(c)
  <2>1. sync' \in {sync, "ok", "error"} /\ calls' \subseteq Call
    BY <1>1, <1>6 DEF SyncAnswered, Verdict, SessionTypeOK
  <2>2. going' \in {going, Refreshed}
    BY <1>6 DEF SyncAnswered
  <2>3. /\ Refreshed \in Pages \cup {"none"}
        /\ page = "dashboard" => Refreshed # "none"
        /\ going # "none" => Refreshed # "none"
    BY <1>1 DEF Refreshed, SessionTypeOK
  <2> QED
    BY <1>1, <1>6, <2>1, <2>2, <2>3, StayInv DEF SyncAnswered, SessionTypeOK
<1>7. CASE SyncLost(c)
  BY <1>1, <1>7, StayInv DEF SyncLost, SessionTypeOK
<1> QED
  BY <1>3, <1>4, <1>5, <1>6, <1>7 DEF CallMoves

LEMMA SessionStepInv == SessionInv /\ [SessionNext]_sessionVars => SessionInv'
<1> SUFFICES ASSUME SessionInv, [SessionNext]_sessionVars PROVE SessionInv'
  OBVIOUS
<1>0. SessionTypeOK /\ SignedOutIsLeaving
  BY DEF SessionInv
<1>1. CASE Land
  BY <1>1, LandInv
<1>2. CASE StartSync
  <2>1. [by |-> user, stage |-> "sent", mounted |-> TRUE] \in Call
    BY <1>0, <1>2 DEF StartSync, SessionTypeOK, Call
  <2> QED
    BY <1>0, <1>2, <2>1, StayInv DEF StartSync, SessionTypeOK
<1>3. ASSUME NEW c \in calls, CallMoves(c) \/ SyncLost(c) PROVE SessionInv'
  BY <1>3, CallInv
<1>4. CASE LeaveLogin
  BY <1>0, <1>4, StayInv DEF LeaveLogin, SessionTypeOK, Pages
<1>5. ASSUME NEW a \in Accounts, Login(a) PROVE SessionInv'
  <2>1. page # "dashboard"
    BY <1>5 DEF Login, PanelOffersLogin, ButtonOffersLogin
  <2> QED
    BY <1>0, <1>5, <2>1, StayInv DEF Login, SessionTypeOK
<1>6. ASSUME LoggedOut
      PROVE  user' \in Accounts \cup {Nobody} /\ lapsed' \in BOOLEAN
  BY <1>0, <1>6 DEF LoggedOut, SessionTypeOK
<1>7. CASE TryDifferentAccount
  BY <1>0, <1>6, <1>7, StayInv DEF TryDifferentAccount, SessionTypeOK
<1>8. CASE SignOut \/ ReplaceWithLogin
  BY <1>0, <1>8, StayInv DEF SignOut, ReplaceWithLogin, SessionTypeOK, Pages
<1>8a. CASE LogoutSettles
  BY <1>0, <1>6, <1>8a, StayInv DEF LogoutSettles, SessionTypeOK
<1>9. CASE FollowAuthButton
  BY <1>0, <1>9, StayInv DEF FollowAuthButton, SessionTypeOK, Pages
<1>10. CASE Reload
  <2>1. calls' \subseteq Call
    BY <1>0, <1>10, CallShape DEF Reload, SessionTypeOK
  <2>2. user' \in Accounts \cup {Nobody} /\ lapsed' \in BOOLEAN
    BY <1>0, <1>6, <1>10 DEF Reload, SessionTypeOK
  <2> QED
    BY <1>0, <1>10, <2>1, <2>2 DEF Reload, SessionInv, SessionTypeOK, SignedOutIsLeaving
<1>11. CASE PrivyReady \/ TokenLapses \/ TokenRenewed
  BY <1>0, <1>11, StayInv DEF PrivyReady, TokenLapses, TokenRenewed, SessionTypeOK
<1>12. ASSUME NEW e \in Emails, RosterChanges(e) PROVE SessionInv'
  <2>1. holder' \in [Emails -> Accounts \cup {NoSeat, OpenSeat}]
    BY <1>0, <1>12 DEF RosterChanges, SessionTypeOK
  <2> QED
    BY <1>0, <1>12, <2>1, StayInv DEF RosterChanges, SessionTypeOK
<1>13. CASE UNCHANGED sessionVars
  BY <1>0, <1>13, StayInv DEF sessionVars, SessionTypeOK
<1> QED
  BY <1>1, <1>2, <1>3, <1>4, <1>5, <1>7, <1>8, <1>9, <1>10, <1>11, <1>12, <1>13,
     <1>8a DEF SessionNext

LEMMA SessionInvHolds == SessionSpec => []SessionInv
BY SessionInitInv, SessionStepInv, PTL DEF SessionSpec

\* The tab's variables keep their types (auth.tsx, login-panel.tsx).
THEOREM SessionTypeCorrect == SessionSpec => []SessionTypeOK
BY SessionInvHolds, PTL DEF SessionInv

\* Nobody who has signed out is left on a dashboard, whatever answers are late
\* (nav-user.tsx:45).
THEOREM SignedOutLeaves == SessionSpec => []SignedOutIsLeaving
BY SessionInvHolds, PTL DEF SessionInv

-----------------------------------------------------------------------------

LEMMA SeatStep ==
  ASSUME SessionTypeOK, SessionNext, NEW e \in Emails
  PROVE  SeatKept(e)
<1> USE SeatWords DEF SeatKept
<1>1. ASSUME NEW c \in calls, ClaimMemberSeat(c) PROVE SeatKept(e)
  <2>1. c \in Call /\ EmailOf[c.by] \in Emails
    BY CallShape DEF SessionTypeOK
  <2>2. CASE Seat(c.by) = OpenSeat
    BY <1>1, <2>1, <2>2 DEF ClaimMemberSeat, Seat, SessionTypeOK
  <2>3. CASE Seat(c.by) # OpenSeat
    BY <1>1, <2>3 DEF ClaimMemberSeat
  <2> QED
    BY <2>2, <2>3
<1>2. ASSUME NEW f \in Emails, RosterChanges(f) PROVE SeatKept(e)
  BY <1>2 DEF RosterChanges, SessionTypeOK
<1>3. CASE UNCHANGED holder
  BY <1>3
<1> QED
  BY <1>1, <1>2, <1>3
  DEF SessionNext, Land, LandOnLogin, LandOnDashboard, DashboardFor, LandOnVerify, StartSync, CallMoves,
      LookUp, LookUpFails, SyncAnswered, SyncLost, LeaveLogin, Login, TryDifferentAccount,
      SignOut, LogoutSettles, ReplaceWithLogin, FollowAuthButton, Reload, PrivyReady, TokenLapses, TokenRenewed

\* A seat that is held is lost by removal only, for any number of identities with its
\* address signing in at once (ClaimMemberSeat, store/queries.go:127).
THEOREM SeatsStay == SessionSpec => SeatsAreKept
<1>1. SessionTypeOK /\ [SessionNext]_sessionVars
        => [\A e \in Emails : SeatKept(e)]_holder
  BY SeatStep DEF sessionVars
<1>2. SessionTypeOK /\ [SessionNext]_sessionVars
        => [\A e \in Emails : holder[e] \in Accounts => holder'[e] \in {holder[e], NoSeat}]_holder
  BY <1>1 DEF SeatKept
<1> QED
  BY <1>2, SessionTypeCorrect, PTL DEF SessionSpec, SeatsAreKept
=============================================================================
