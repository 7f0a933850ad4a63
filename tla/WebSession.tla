----------------------------- MODULE WebSession -----------------------------
(***************************************************************************)
(* Signing in to the web app, in one browser tab.                          *)
(*                                                                         *)
(* Three things have to agree and are never changed together: the Privy    *)
(* session the tab's scripts see (ready, user), the seats on the server's  *)
(* roster (holder), and the page on screen, which the server rendered for  *)
(* whoever it took the viewer to be at that time (page, viewer).  The      *)
(* sign-in hook claims the seat (sync, calls), redirects and               *)
(* router.replace/refresh bring another page (going), and both answer      *)
(* late.                                                                   *)
(***************************************************************************)
EXTENDS Naturals, FiniteSets

CONSTANTS
  Accounts,    \* Privy identities
  Emails,      \* addresses an owner can invite
  EmailOf,     \* the verified address of an identity
  Nobody,      \* no identity
  MaxCalls     \* bound: sign-in requests under way at a time

\* members.privy_user_id where nobody is linked: no such row, or a row without one.
NoSeat == "no seat"
OpenSeat == "open seat"

ASSUME SessionAssumption ==
  /\ EmailOf \in [Accounts -> Emails]
  /\ Nobody \notin Accounts /\ {NoSeat, OpenSeat} \cap Accounts = {}
  /\ MaxCalls \in Nat

VARIABLES
  ready,       \* usePrivy().ready
  user,        \* whom usePrivy() has authenticated
  lapsed,      \* the privy-token cookie is not accepted at the moment
  holder,      \* the seat invited for an address: missing, open, or who holds it
  page,        \* the route on screen
  viewer,      \* the member that page was rendered for
  going,       \* the route asked of the server and not yet on screen
  sync,        \* sync.state of the sign-in hook on screen
  leaving,     \* signOut() is under way: "logout" is awaited, or "replace" is next
  calls        \* POST /api/auth/sync requests under way

sessionVars == <<ready, user, lapsed, holder, page, viewer, going, sync, leaving, calls>>

Pages == {"login", "dashboard", "verify"}
Settled == {"ok", "refused"}

\* Two requests of one identity that are as far as each other, neither with a hook to
\* answer to, count as one: a bound, as MaxCalls is.
Call == [by: Accounts, stage: {"sent", "looked"} \cup Settled, mounted: BOOLEAN]

SessionTypeOK ==
  /\ ready \in BOOLEAN
  /\ user \in Accounts \cup {Nobody}
  /\ lapsed \in BOOLEAN
  /\ holder \in [Emails -> Accounts \cup {NoSeat, OpenSeat}]
  /\ page \in Pages \cup {"none"}
  /\ viewer \in Accounts \cup {Nobody}
  /\ going \in Pages \cup {"none"}
  /\ sync \in {"idle", "syncing", "ok", "left", "error"}
  /\ leaving \in {"no", "logout", "replace"}
  /\ calls \subseteq Call

Seat(a) == holder[EmailOf[a]]

\* GET /api/me for the cookie this tab sends: a member, or nobody when there is no
\* valid token or no seat linked to it.
Me == IF user # Nobody /\ ~lapsed /\ Seat(user) = user THEN user ELSE Nobody

\* The hook runs in the login panel, and in the verify page's sign-in button.
HookOn(p, v) == p = "login" \/ (p = "verify" /\ v = Nobody)
HookMounted == HookOn(page, viewer)

SessionInit ==
  /\ ready = FALSE
  /\ user \in Accounts \cup {Nobody}
  /\ lapsed = FALSE
  /\ holder \in [Emails -> {NoSeat, OpenSeat}]
  /\ page = "none" /\ viewer = Nobody
  /\ going \in Pages
  /\ sync = "idle" /\ leaving = "no"
  /\ calls = {}

-----------------------------------------------------------------------------
(* The page on screen.                                                     *)

\* A page replaces what is on screen.  A hook that stays on screen keeps its
\* state, one that comes or goes starts afresh and its calls answer to nobody.
Show(p, v) ==
  /\ page' = p
  /\ viewer' = v
  /\ going' = "none"
  /\ IF page = p /\ HookMounted /\ HookOn(p, v)
     THEN UNCHANGED <<sync, calls>>
     ELSE /\ sync' = "idle"
          /\ calls' = {[c EXCEPT !.mounted = FALSE] : c \in calls}

Redirect(p) == going' = p /\ UNCHANGED <<page, viewer, sync, calls>>

\* The server renders the route that was asked for, or redirects.
LandOnLogin ==
  /\ going = "login"
  /\ IF Me # Nobody THEN Redirect("dashboard") ELSE Show("login", Nobody)
  /\ UNCHANGED <<ready, user, lapsed, holder, leaving>>

\* The sidebar's menu names the member the dashboard was rendered for.
DashboardFor(v) == Show("dashboard", v)

LandOnDashboard ==
  /\ going = "dashboard"
  /\ IF Me = Nobody THEN Redirect("login") ELSE DashboardFor(Me)
  /\ UNCHANGED <<ready, user, lapsed, holder, leaving>>

LandOnVerify ==
  /\ going = "verify"
  /\ Show("verify", Me)
  /\ UNCHANGED <<ready, user, lapsed, holder, leaving>>

Land == LandOnLogin \/ LandOnDashboard \/ LandOnVerify

\* router.refresh(): the current route again, unless another one is on its way.
Refreshed == IF going = "none" THEN page ELSE going

-----------------------------------------------------------------------------
(* The sign-in hook.                                                       *)

StartSync ==
  /\ HookMounted /\ ready /\ user # Nobody /\ sync = "idle"
  /\ sync' = "syncing"
  /\ Cardinality(calls) < MaxCalls
  /\ calls' = calls \cup {[by |-> user, stage |-> "sent", mounted |-> TRUE]}
  /\ UNCHANGED <<ready, user, lapsed, holder, page, viewer, going, leaving>>

Moves(c, stage) == calls' = (calls \ {c}) \cup {[c EXCEPT !.stage = stage]}

\* authSync looks the identity up: no valid token, already linked, or not linked.
LookUp(c) ==
  /\ c.stage = "sent"
  /\ IF lapsed THEN Moves(c, "refused")
     ELSE IF Seat(c.by) = c.by THEN Moves(c, "ok")
     ELSE Moves(c, "looked")
  /\ UNCHANGED <<ready, user, lapsed, holder, page, viewer, going, sync, leaving>>

ClaimAnySeat(c) ==
  /\ c.stage = "looked"
  /\ IF Seat(c.by) # NoSeat
     THEN holder' = [holder EXCEPT ![EmailOf[c.by]] = c.by] /\ Moves(c, "ok")
     ELSE UNCHANGED holder /\ Moves(c, "refused")
  /\ UNCHANGED <<ready, user, lapsed, page, viewer, going, sync, leaving>>

\* ClaimMemberSeat takes the seat for the address if nobody holds it by now.
ClaimMemberSeat(c) ==
  /\ c.stage = "looked"
  /\ IF Seat(c.by) = OpenSeat
     THEN holder' = [holder EXCEPT ![EmailOf[c.by]] = c.by] /\ Moves(c, "ok")
     ELSE UNCHANGED holder /\ Moves(c, "refused")
  /\ UNCHANGED <<ready, user, lapsed, page, viewer, going, sync, leaving>>

\* Privy cannot be asked for the account, or has no address for it.
LookUpFails(c) ==
  /\ c.stage = "looked"
  /\ Moves(c, "refused")
  /\ UNCHANGED <<ready, user, lapsed, holder, page, viewer, going, sync, leaving>>

VerdictIfOk(c) == IF c.stage = "ok" THEN "ok" ELSE sync

\* What the hook makes of an answer.
Verdict(c) == IF c.stage = "ok" THEN "ok" ELSE "error"

SyncAnswered(c) ==
  /\ c.stage \in Settled
  /\ calls' = calls \ {c}
  /\ IF c.mounted
     THEN sync' = Verdict(c)
     ELSE UNCHANGED sync
  /\ going' = IF c.stage = "ok" THEN Refreshed ELSE going
  /\ UNCHANGED <<ready, user, lapsed, holder, page, viewer, leaving>>

\* The answer does not arrive, whatever the server did.
SyncLost(c) ==
  /\ calls' = calls \ {c}
  /\ IF c.mounted THEN sync' = "error" ELSE UNCHANGED sync
  /\ UNCHANGED <<ready, user, lapsed, holder, page, viewer, going, leaving>>

\* The login panel's effect, once for each time sync turns ok.
LeaveLogin ==
  /\ page = "login" /\ sync = "ok"
  /\ sync' = "left"
  /\ going' = "dashboard"
  /\ UNCHANGED <<ready, user, lapsed, holder, page, viewer, leaving, calls>>

-----------------------------------------------------------------------------
(* What the person at the tab does.                                        *)

PanelOffersLogin ==
  /\ page = "login" /\ ready
  /\ sync # "error"
  /\ ~(user # Nobody \/ sync = "syncing")

ButtonOffersLogin == page = "verify" /\ viewer = Nobody /\ ready /\ user = Nobody

Login(a) ==
  /\ PanelOffersLogin \/ ButtonOffersLogin
  /\ user' = a
  /\ lapsed' = FALSE
  /\ UNCHANGED <<ready, holder, page, viewer, going, sync, leaving, calls>>

\* logout() ends the session, or fails and leaves it.
LoggedOut ==
  \/ user' = Nobody /\ lapsed' = FALSE
  \/ UNCHANGED <<user, lapsed>>

TryDifferentAccount ==
  /\ page = "login" /\ ready /\ sync = "error"
  /\ LoggedOut
  /\ UNCHANGED <<ready, holder, page, viewer, going, sync, leaving, calls>>

ButtonOffersSignOut == page = "verify" /\ viewer = Nobody /\ ready /\ user # Nobody

\* signOut() in the sidebar's menu and in the verify page's button: logout() is awaited,
\* and whatever comes of it the login page is asked for.
\* Bound: one sign-out of a tab is under way at a time.
SignOut ==
  /\ page = "dashboard" \/ ButtonOffersSignOut
  /\ leaving = "no"
  /\ leaving' = "logout"
  /\ UNCHANGED <<ready, user, lapsed, holder, page, viewer, going, sync, calls>>

LogoutSettles ==
  /\ leaving = "logout"
  /\ LoggedOut
  /\ leaving' = "replace"
  /\ UNCHANGED <<ready, holder, page, viewer, going, sync, calls>>

StayInPlace ==
  /\ leaving = "replace"
  /\ leaving' = "no"
  /\ UNCHANGED <<ready, user, lapsed, holder, page, viewer, going, sync, calls>>

ReplaceWithLogin ==
  /\ leaving = "replace"
  /\ leaving' = "no"
  /\ going' = "login"
  /\ UNCHANGED <<ready, user, lapsed, holder, page, viewer, sync, calls>>

\* The button in the corner of the public pages.
FollowAuthButton ==
  /\ page = "verify"
  /\ going' = IF ready /\ user # Nobody THEN "dashboard" ELSE "login"
  /\ UNCHANGED <<ready, user, lapsed, holder, page, viewer, sync, leaving, calls>>

\* The tab is loaded again, which starts every script from the beginning; a logout it
\* was waiting for may have ended the session.
Reload ==
  /\ page # "none"
  /\ going' = page
  /\ page' = "none" /\ viewer' = Nobody
  /\ ready' = FALSE
  /\ sync' = "idle" /\ leaving' = "no"
  /\ calls' = {[c EXCEPT !.mounted = FALSE] : c \in calls}
  /\ IF leaving = "logout" THEN LoggedOut ELSE UNCHANGED <<user, lapsed>>
  /\ UNCHANGED holder

-----------------------------------------------------------------------------
(* Everybody else.                                                         *)

\* Privy's script has restored the session, or found none.
PrivyReady ==
  /\ ~ready
  /\ ready' = TRUE
  /\ UNCHANGED <<user, lapsed, holder, page, viewer, going, sync, leaving, calls>>

\* The token runs out, and Privy's script renews it.
TokenLapses ==
  /\ user # Nobody /\ ~lapsed
  /\ lapsed' = TRUE
  /\ UNCHANGED <<ready, user, holder, page, viewer, going, sync, leaving, calls>>

TokenRenewed ==
  /\ lapsed
  /\ lapsed' = FALSE
  /\ UNCHANGED <<ready, user, holder, page, viewer, going, sync, leaving, calls>>

\* An owner invites an address or removes its seat; another browser claims it.
RosterChanges(e) ==
  /\ \/ holder[e] = NoSeat /\ holder' = [holder EXCEPT ![e] = OpenSeat]
     \/ holder[e] # NoSeat /\ holder' = [holder EXCEPT ![e] = NoSeat]
     \/ /\ holder[e] = OpenSeat
        /\ \E a \in Accounts : EmailOf[a] = e /\ holder' = [holder EXCEPT ![e] = a]
  /\ UNCHANGED <<ready, user, lapsed, page, viewer, going, sync, leaving, calls>>

-----------------------------------------------------------------------------

CallMoves(c) == LookUp(c) \/ ClaimMemberSeat(c) \/ LookUpFails(c) \/ SyncAnswered(c)

SessionNext ==
  \/ Land
  \/ StartSync
  \/ \E c \in calls : CallMoves(c) \/ SyncLost(c)
  \/ LeaveLogin
  \/ \E a \in Accounts : Login(a)
  \/ TryDifferentAccount
  \/ SignOut \/ LogoutSettles \/ ReplaceWithLogin
  \/ FollowAuthButton
  \/ Reload
  \/ PrivyReady
  \/ TokenLapses
  \/ TokenRenewed
  \/ \E e \in Emails : RosterChanges(e)

\* Requests are answered, effects run, and the server renders what it is asked for.
SessionProgress ==
  \/ Land
  \/ StartSync
  \/ LeaveLogin
  \/ LogoutSettles
  \/ ReplaceWithLogin
  \/ \E c \in calls : CallMoves(c)

SessionSpec == SessionInit /\ [][SessionNext]_sessionVars /\ WF_sessionVars(SessionProgress)

-----------------------------------------------------------------------------

\* A dashboard that was rendered for somebody who has signed out is on its way out, or
\* the handler that signed them out has yet to ask for the login page: without that "they
\* sit on a signed-out page that still looks signed in" (nav-user.tsx:45).
SignedOutIsLeaving ==
  page = "dashboard" /\ viewer # user => going # "none" \/ leaving = "replace"

\* A seat that somebody holds is lost by removal only and never goes to another
\* identity, however many sign-ins with its address run at once ("so a seat can't be
\* stolen", store/queries.go:128).
SeatsAreKept ==
  [][\A e \in Emails : holder[e] \in Accounts => holder'[e] \in {holder[e], NoSeat}]_holder

\* Somebody who signs in on the login page gets to the dashboard or is told why not
\* ("signing in and then being left on the sign-in page is a dead end",
\* login-panel.tsx:11), unless the session ends or the seat goes in the meantime.
SignInEnds ==
  \A a \in Accounts :
    (page = "login" /\ ready /\ user = a /\ sync = "idle")
      ~> \/ page = "dashboard" \/ sync = "error"
         \/ user # a \/ ~ready \/ lapsed \/ Seat(a) = NoSeat
=============================================================================
