------------------------------ MODULE WebTeam ------------------------------
(***************************************************************************)
(* The team page: the roster, a role menu and a delete button on each row, *)
(* and the invitation dialog.                                              *)
(*                                                                         *)
(* Every row can have a request under way, but the board remembers one     *)
(* busy row: a press takes the mark from the row that had it, and any      *)
(* answer clears it.  The invitation has a busy flag of its own.           *)
(***************************************************************************)
EXTENDS Naturals, FiniteSets

CONSTANTS
  Members,     \* seats, and seats to be
  Myself,      \* the member at this tab
  NoMember,    \* no row
  MaxTeamCalls \* bound: requests of this tab under way at a time

ASSUME TeamAssumption ==
  /\ Myself \in Members
  /\ NoMember \notin Members
  /\ MaxTeamCalls \in Nat

VARIABLES
  roster,      \* server: each member's role, "gone" without a seat
  rows,        \* the roster the page was rendered with
  busyRow,     \* the board's busyId
  rowCalls,    \* PATCH and DELETE under way
  inviting,    \* the dialog is open
  inviteBusy,  \* the dialog's busy
  invitations, \* POST under way, "none" without one
  redrawTeam,  \* router.refresh() was called and has not been answered
  untold,      \* history: changed since the rendering, and this tab was not told
  rowLost      \* history: a row's request was lost

teamVars == <<roster, rows, busyRow, rowCalls, inviting, inviteBusy, invitations,
              redrawTeam, untold, rowLost>>

\* "other" stands for approver, finance and member, which this page treats alike.
Roles == {"owner", "other"}
Stages == {"sent", "ok", "refused"}

\* Two requests that ask the same of a row and are as far as each other count as one: a
\* bound, as MaxTeamCalls is.
RowCall == [on: Members, to: Roles \cup {"gone"}, stage: Stages]

TeamTypeOK ==
  /\ roster \in [Members -> Roles \cup {"gone"}]
  /\ rows \in [Members -> Roles \cup {"gone"}]
  /\ busyRow \in Members \cup {NoMember}
  /\ rowCalls \subseteq RowCall
  /\ inviting \in BOOLEAN
  /\ inviteBusy \in BOOLEAN
  /\ invitations \in Stages \cup {"none"}
  /\ redrawTeam \in BOOLEAN
  /\ untold \in BOOLEAN
  /\ rowLost \in BOOLEAN

TeamInit ==
  /\ roster \in [Members -> Roles \cup {"gone"}] /\ roster[Myself] # "gone"
  /\ \E m \in Members : roster[m] = "owner"
  /\ rows = roster
  /\ busyRow = NoMember /\ rowCalls = {}
  /\ inviting = FALSE /\ inviteBusy = FALSE /\ invitations = "none"
  /\ redrawTeam = FALSE /\ untold = FALSE /\ rowLost = FALSE

\* The buttons are for owners, as far as the page knows; the server asks again.
CanEdit == rows[Myself] = "owner"
IsOwner == roster[Myself] = "owner"

MayCall ==
  Cardinality(rowCalls) + (IF invitations = "none" THEN 0 ELSE 1) < MaxTeamCalls

RefreshNever(ok) == UNCHANGED redrawTeam

\* A write that was granted has the page rendered again.
RefreshIf(ok) == redrawTeam' = (redrawTeam \/ ok)

\* The page as the server renders it now (the time a rendering takes to arrive is in
\* WebPolicy, whose page works the same way).
RedrawTeam ==
  /\ redrawTeam
  /\ rows' = roster
  /\ redrawTeam' = FALSE /\ untold' = FALSE
  /\ UNCHANGED <<roster, busyRow, rowCalls, inviting, inviteBusy, invitations, rowLost>>

-----------------------------------------------------------------------------
(* The rows.                                                               *)

PressRow(m, to) ==
  /\ MayCall
  /\ CanEdit /\ ~inviting /\ rows[m] # "gone" /\ busyRow # m
  /\ busyRow' = m
  /\ rowCalls' = rowCalls \cup {[on |-> m, to |-> to, stage |-> "sent"]}
  /\ UNCHANGED <<roster, rows, inviting, inviteBusy, invitations, redrawTeam, untold, rowLost>>

ChangeRole(m, role) == PressRow(m, role)
DeleteRow(m) == m # Myself /\ PressRow(m, "gone")

\* setMemberRole and removeMember, for owners.  They also refuse to leave no owner, by a
\* count that another owner's edit can overtake (Admin): the page cannot rely on it.
RowCallArrives(c) ==
  /\ c.stage = "sent"
  /\ \/ /\ rowCalls' = (rowCalls \ {c}) \cup {[c EXCEPT !.stage = "refused"]}
        /\ UNCHANGED roster
     \/ /\ IsOwner /\ roster[c.on] # "gone"
        /\ roster' = [roster EXCEPT ![c.on] = c.to]
        /\ rowCalls' = (rowCalls \ {c}) \cup {[c EXCEPT !.stage = "ok"]}
  /\ UNCHANGED <<rows, busyRow, inviting, inviteBusy, invitations, redrawTeam, untold, rowLost>>

UnmarkWhenOk(c) == busyRow' = IF c.stage = "ok" THEN NoMember ELSE busyRow

\* setBusyId(null), whatever the answer and whichever row is busy by now.
Unmark(c) == busyRow' = NoMember

RowCallAnswered(c) ==
  /\ c.stage # "sent"
  /\ rowCalls' = rowCalls \ {c}
  /\ Unmark(c)
  /\ RefreshIf(c.stage = "ok")
  /\ UNCHANGED <<roster, rows, inviting, inviteBusy, invitations, untold, rowLost>>

\* A fetch that rejects leaves the handler before it clears the mark.
RowCallLost(c) ==
  /\ rowCalls' = rowCalls \ {c}
  /\ rowLost' = TRUE
  /\ untold' = (untold \/ c.stage = "ok")
  /\ UNCHANGED <<roster, rows, busyRow, inviting, inviteBusy, invitations, redrawTeam>>

-----------------------------------------------------------------------------
(* The invitation.                                                         *)

OpenInvite ==
  /\ CanEdit /\ ~inviting
  /\ inviting' = TRUE
  /\ UNCHANGED <<roster, rows, busyRow, rowCalls, inviteBusy, invitations, redrawTeam, untold, rowLost>>

CloseInvite ==
  /\ inviting
  /\ inviting' = FALSE
  /\ UNCHANGED <<roster, rows, busyRow, rowCalls, inviteBusy, invitations, redrawTeam, untold, rowLost>>

PressInvite ==
  /\ inviting /\ ~inviteBusy /\ MayCall
  /\ inviteBusy' = TRUE
  /\ invitations' = "sent"
  /\ UNCHANGED <<roster, rows, busyRow, rowCalls, inviting, redrawTeam, untold, rowLost>>

\* inviteMember: owners only, and an address that is not on the roster.
InviteArrives ==
  /\ invitations = "sent"
  /\ \/ invitations' = "refused" /\ UNCHANGED roster
     \/ /\ IsOwner
        /\ \E m \in Members, role \in Roles :
             roster[m] = "gone" /\ roster' = [roster EXCEPT ![m] = role]
        /\ invitations' = "ok"
  /\ UNCHANGED <<rows, busyRow, rowCalls, inviting, inviteBusy, redrawTeam, untold, rowLost>>

InviteAnswered ==
  /\ invitations \in {"ok", "refused"}
  /\ invitations' = "none"
  /\ inviteBusy' = FALSE
  /\ inviting' = (inviting /\ invitations = "refused")
  /\ RefreshIf(invitations = "ok")
  /\ UNCHANGED <<roster, rows, busyRow, rowCalls, untold, rowLost>>

InviteLost ==
  /\ invitations # "none"
  /\ invitations' = "none"
  /\ untold' = (untold \/ invitations = "ok")
  /\ UNCHANGED <<roster, rows, busyRow, rowCalls, inviting, inviteBusy, redrawTeam, rowLost>>

\* Another owner's tab; a member who is removed altogether is sent to sign in.
AnotherOwnerEdits(m) ==
  /\ \E role \in (Roles \cup {"gone"}) \ {roster[m]} :
       /\ m = Myself => role # "gone"
       /\ roster' = [roster EXCEPT ![m] = role]
  /\ \E o \in Members \ {Myself} : roster[o] = "owner"
  /\ untold' = TRUE
  /\ UNCHANGED <<rows, busyRow, rowCalls, inviting, inviteBusy, invitations, redrawTeam, rowLost>>

-----------------------------------------------------------------------------

TeamProgress == \E c \in rowCalls : RowCallArrives(c) \/ RowCallAnswered(c)

TeamNext ==
  \/ RedrawTeam
  \/ \E m \in Members : \E role \in Roles : ChangeRole(m, role)
  \/ \E m \in Members : DeleteRow(m) \/ AnotherOwnerEdits(m)
  \/ TeamProgress
  \/ \E c \in rowCalls : RowCallLost(c)
  \/ OpenInvite \/ CloseInvite \/ PressInvite
  \/ InviteArrives \/ InviteAnswered \/ InviteLost

TeamSpec == TeamInit /\ [][TeamNext]_teamVars /\ WF_teamVars(TeamProgress)

-----------------------------------------------------------------------------

\* A page with nothing under way shows the roster the server has, unless somebody else
\* changed it or an answer was lost since it was rendered.
QuietRosterIsCurrent ==
  (rowCalls = {} /\ invitations = "none" /\ ~redrawTeam /\ ~untold) => rows = roster

\* A row whose buttons are off gets them back, although one mark serves all rows and a
\* press elsewhere moves it; only a request that was lost can leave a row off.
RowComesBack == \A m \in Members : (busyRow = m) ~> (busyRow # m \/ rowLost)
=============================================================================
