--------------------------- MODULE WebPageProofs ----------------------------
(***************************************************************************)
(* Proofs about the Selfie Check's, policy, team and invoice pages.        *)
(* Each shows a rendering of the server's rows.  What an answer will make  *)
(* the check say is true when the server gives it and stays true until it  *)
(* arrives.  A board is up to date when nothing is under way because a     *)
(* write that was granted is always remembered somewhere: in an answer on  *)
(* its way, in a refresh that was asked for, or in the history of what     *)
(* this tab was not told.                                                  *)
(***************************************************************************)
EXTENDS WebCheck, WebPolicy, WebTeam, WebInvoices, TLAPS

-----------------------------------------------------------------------------
(* The Selfie Check.                                                       *)

AnswersAreTrue ==
  \A c \in attempts :
    /\ c.stage \in {"counted", "final"} => decided
    /\ c.stage = "final" => status # "pending"

\* While an invoice is pending its tier is short of at least one approval.
PendingIsShort ==
  status = "pending" => others + (IF decided THEN 1 ELSE 0) < Required

CheckInv == CheckTypeOK /\ AnswersAreTrue /\ PendingIsShort /\ DoneIsRecorded

\* The variables a step of the check itself leaves to the server.
ServerStays == UNCHANGED <<surface, demo, status, others, decided, eligible>>

LEMMA RenderedType == CheckTypeOK => Rendered \in Rendering /\ readInvoice \in Rendering
BY DEF CheckTypeOK, Rendered, Rendering

LEMMA CheckInitInv == CheckInit => CheckInv
<1> SUFFICES ASSUME CheckInit PROVE CheckInv
  OBVIOUS
<1> USE CheckAssumption
<1>0. /\ surface \in {"invoice", "verify"} /\ demo \in BOOLEAN /\ eligible \in BOOLEAN
      /\ status = "pending" /\ others = 0 /\ decided = FALSE
      /\ redrawInvoice = FALSE /\ pageComing = FALSE /\ settling = FALSE /\ waited = 0
      /\ widget = "none" /\ attempts = {}
  BY DEF CheckInit
<1>1. CheckTypeOK
  <2>1. check \in {"idle", "absent"}
    BY DEF CheckInit
  <2>2. shownInvoice \in Rendering /\ readInvoice \in Rendering
    BY DEF CheckInit, Rendered, Rendering
  <2>3. others \in 0..Required /\ waited \in 0..Patience
    BY <1>0
  <2>4. /\ decided \in BOOLEAN /\ settling \in BOOLEAN
        /\ redrawInvoice \in BOOLEAN /\ pageComing \in BOOLEAN
    BY <1>0
  <2> QED
    BY <1>0, <2>1, <2>2, <2>3, <2>4 DEF CheckTypeOK
<1>2. AnswersAreTrue /\ PendingIsShort /\ DoneIsRecorded
  BY <1>0 DEF CheckInit, AnswersAreTrue, PendingIsShort, DoneIsRecorded
<1> QED
  BY <1>1, <1>2 DEF CheckInv

\* A check that comes on screen says nothing, and nobody answers to it yet.
LEMMA FreshInv ==
  ASSUME CheckInv, ServerStays, NEW r \in Rendering, Fresh(r),
         shownInvoice' = r, readInvoice' \in Rendering,
         redrawInvoice' \in BOOLEAN, pageComing' \in BOOLEAN
  PROVE  CheckInv'
<1> USE CheckAssumption DEF CheckInv, ServerStays
<1>1. ASSUME NEW d \in attempts'
      PROVE  \E c \in attempts : d \in Attempt /\ d.stage = c.stage
  <2>1. PICK c \in attempts : d = [c EXCEPT !.mounted = FALSE]
    BY DEF Fresh
  <2> QED
    BY <2>1 DEF CheckTypeOK, Attempt
<1>2. CheckTypeOK'
  <2>1. check' \in {"idle", "absent"} /\ attempts' \subseteq Attempt
    BY <1>1 DEF Fresh, Offers
  <2>2. widget' = "none" /\ settling' = FALSE /\ waited' = 0
    BY DEF Fresh
  <2>3. shownInvoice' \in Rendering
    OBVIOUS
  <2>4. waited' \in 0..Patience
    BY <2>2
  <2>5. settling' \in BOOLEAN
    BY <2>2
  <2> QED
    BY <2>1, <2>2, <2>3, <2>4, <2>5 DEF CheckTypeOK
<1>3. AnswersAreTrue'
  BY <1>1 DEF AnswersAreTrue
<1>4. PendingIsShort' /\ DoneIsRecorded'
  BY DEF PendingIsShort, DoneIsRecorded, Fresh
<1> QED
  BY <1>2, <1>3, <1>4

\* A step of the check that sends at most one request, and is not an answer.
LEMMA LocalInv ==
  ASSUME CheckInv, ServerStays, UNCHANGED shownInvoice, readInvoice' \in Rendering,
         redrawInvoice' \in BOOLEAN, pageComing' \in BOOLEAN, waited' \in 0..Patience, UNCHANGED settling,
         check' \in {"absent", "idle", "preparing", "verifying", "done", "error"},
         check' = "done" => check = "done",
         widget' \in {"none", "closed", "open"},
         NEW n \in 1..MaxAttempts,
         attempts' \subseteq attempts \cup {[id |-> n, stage |-> "sent", mounted |-> TRUE]}
  PROVE  CheckInv'
<1> DEFINE new == [id |-> n, stage |-> "sent", mounted |-> TRUE]
<1>1. new \in Attempt /\ new.stage = "sent"
  BY DEF Attempt
<1>2. CheckTypeOK'
  BY <1>1 DEF CheckInv, ServerStays, CheckTypeOK
<1>3. AnswersAreTrue'
  BY <1>1 DEF CheckInv, ServerStays, AnswersAreTrue
<1>4. PendingIsShort' /\ DoneIsRecorded'
  BY DEF CheckInv, ServerStays, PendingIsShort, DoneIsRecorded
<1> QED
  BY <1>2, <1>3, <1>4 DEF CheckInv

\* A step of the check that sends nothing.
LEMMA QuietInv ==
  ASSUME CheckInv, ServerStays, UNCHANGED shownInvoice, readInvoice' \in Rendering,
         redrawInvoice' \in BOOLEAN, pageComing' \in BOOLEAN, waited' \in 0..Patience,
         UNCHANGED settling,
         check' \in {"absent", "idle", "preparing", "verifying", "done", "error"},
         check' = "done" => check = "done",
         widget' \in {"none", "closed", "open"},
         attempts' \subseteq attempts
  PROVE  CheckInv'
<1>1. CheckTypeOK'
  BY DEF CheckInv, ServerStays, CheckTypeOK
<1>2. AnswersAreTrue'
  BY DEF CheckInv, ServerStays, AnswersAreTrue
<1>3. PendingIsShort' /\ DoneIsRecorded'
  BY DEF CheckInv, ServerStays, PendingIsShort, DoneIsRecorded
<1> QED
  BY <1>1, <1>2, <1>3 DEF CheckInv

LEMMA AttestInv ==
  ASSUME CheckInv, NEW c \in attempts, Attest(c)
  PROVE  CheckInv'
<1> USE CheckAssumption DEF CheckInv
<1>1. c \in Attempt /\ c.stage = "sent"
  BY DEF Attest, CheckTypeOK
<1> DEFINE answered(s) == [c EXCEPT !.stage = s]
<1>2. ASSUME NEW s \in {"refused", "counted", "final"}
      PROVE  answered(s) \in Attempt /\ answered(s).stage = s
  BY <1>1 DEF Attempt
<1> HIDE DEF answered
<1>3. CASE /\ attempts' = (attempts \ {c}) \cup {answered("refused")}
           /\ UNCHANGED <<status, decided>>
  <2>1. CheckTypeOK'
    BY <1>2, <1>3 DEF Attest, CheckTypeOK, invoicePage, checkState
  <2>2. AnswersAreTrue'
    BY <1>2, <1>3 DEF AnswersAreTrue
  <2>3. PendingIsShort' /\ DoneIsRecorded'
    BY <1>3 DEF Attest, PendingIsShort, DoneIsRecorded, invoicePage, checkState
  <2> QED
    BY <2>1, <2>2, <2>3
<1>4. CASE /\ status = "pending" /\ ~decided /\ decided' = TRUE
           /\ status' = IF others + 1 >= Required THEN "approved" ELSE status
           /\ attempts' = (attempts \ {c})
                \cup {answered(IF others + 1 >= Required THEN "final" ELSE "counted")}
  <2> DEFINE s == IF others + 1 >= Required THEN "final" ELSE "counted"
  <2>1. /\ answered(s) \in Attempt /\ answered(s).stage = s
        /\ attempts' = (attempts \ {c}) \cup {answered(s)}
    BY <1>2, <1>4
  <2>2. CheckTypeOK'
    BY <1>4, <2>1 DEF Attest, CheckTypeOK, invoicePage, checkState
  <2>3. \A d \in attempts : d.stage \notin {"counted", "final"}
    BY <1>4 DEF AnswersAreTrue
  <2>4. s = "final" => status' # "pending"
    BY <1>4
  <2>5. AnswersAreTrue'
    BY <1>4, <2>1, <2>3, <2>4 DEF AnswersAreTrue
  <2>6. PendingIsShort'
    BY <1>4 DEF Attest, PendingIsShort, CheckTypeOK
  <2>7. DoneIsRecorded'
    BY <1>4 DEF Attest, DoneIsRecorded, checkState
  <2> QED
    BY <2>2, <2>5, <2>6, <2>7
<1> QED
  BY <1>3, <1>4 DEF Attest, answered

LEMMA AnswerInv ==
  ASSUME CheckInv, NEW c \in attempts, AttemptAnswered(c)
  PROVE  CheckInv'
<1> USE DEF CheckInv
<1>1. c \in Attempt /\ c.stage # "sent" /\ attempts' \subseteq attempts
  BY DEF AttemptAnswered, CheckTypeOK
<1>2. CheckTypeOK'
  <2>1. redrawInvoice' \in BOOLEAN /\ settling' \in BOOLEAN
    BY <1>1 DEF AttemptAnswered, Approved, RefreshAfter, Granted, CheckTypeOK
  <2>2. /\ check' \in {check, "done", "error"}
        /\ widget' \in {widget, "closed"}
    BY DEF AttemptAnswered, Approved
  <2> QED
    BY <1>1, <2>1, <2>2 DEF AttemptAnswered, CheckTypeOK, serverInvoice
<1>3. AnswersAreTrue' /\ PendingIsShort'
  BY <1>1 DEF AttemptAnswered, AnswersAreTrue, PendingIsShort, serverInvoice
<1>4. DoneIsRecorded'
  <2>1. CASE c.mounted /\ Granted(c)
    <3>1. c.stage \in {"counted", "final"}
      BY <1>1, <2>1 DEF Granted, Attempt
    <3> QED
      BY <2>1, <3>1 DEF AttemptAnswered, Approved, AnswersAreTrue, DoneIsRecorded, serverInvoice
  <2>2. CASE ~(c.mounted /\ Granted(c))
    BY <2>2 DEF AttemptAnswered, DoneIsRecorded, serverInvoice
  <2> QED
    BY <2>1, <2>2
<1> QED
  BY <1>2, <1>3, <1>4

\* A step of somebody else: approvals grow, and pending is never entered again.
LEMMA ServerInv ==
  ASSUME CheckInv, UNCHANGED <<surface, demo, decided, invoicePage, checkState, attempts>>,
         status' \in {"pending", "approved", "closed"}, others' \in 0..Required,
         eligible' \in BOOLEAN, status' = "pending" => status = "pending",
         PendingIsShort'
  PROVE  CheckInv'
BY DEF CheckInv, CheckTypeOK, AnswersAreTrue, DoneIsRecorded, invoicePage, checkState

LEMMA CheckStepInv == CheckInv /\ [CheckNext]_checkVars => CheckInv'
<1> SUFFICES ASSUME CheckInv, [CheckNext]_checkVars PROVE CheckInv'
  OBVIOUS
<1>0. CheckTypeOK /\ AnswersAreTrue /\ PendingIsShort /\ DoneIsRecorded
  BY DEF CheckInv
<1> USE DEF serverInvoice, invoicePage, checkState, ServerStays
<1>1. CASE RenderInvoice
  <2>1. CheckTypeOK'
    BY <1>0, <1>1, RenderedType DEF RenderInvoice, CheckTypeOK
  <2> QED
    BY <1>0, <1>1, <2>1
    DEF RenderInvoice, CheckInv, AnswersAreTrue, PendingIsShort, DoneIsRecorded
<1>2. CASE RedrawInvoice
  <2>1. CASE UNCHANGED <<checkState, attempts>>
    <3>1. CheckTypeOK'
      BY <1>0, <1>2, <2>1, RenderedType DEF RedrawInvoice, CheckTypeOK
    <3> QED
      BY <1>0, <1>2, <2>1, <3>1
      DEF RedrawInvoice, CheckInv, AnswersAreTrue, PendingIsShort, DoneIsRecorded
  <2>2. CASE Fresh(readInvoice)
    BY <1>0, <1>2, <2>2, RenderedType, FreshInv DEF RedrawInvoice, CheckTypeOK
  <2> QED
    BY <1>2, <2>1, <2>2 DEF RedrawInvoice
<1>12. CASE Reopen
  BY <1>0, <1>12, RenderedType, FreshInv DEF Reopen
<1>3. CASE Simulate \/ HandleVerify
  <2>1. PICK n \in 1..MaxAttempts :
          attempts' = attempts \cup {[id |-> n, stage |-> "sent", mounted |-> TRUE]}
    BY <1>3 DEF Simulate, HandleVerify, Submit, UnusedIds
  <2> QED
    BY <1>0, <1>3, <2>1, LocalInv DEF Simulate, HandleVerify, Submit, CheckTypeOK
<1>13. CASE Start \/ ContextAnswered \/ WidgetFails \/ WidgetClosed
  BY <1>0, <1>13, QuietInv DEF Start, ContextAnswered, WidgetFails, WidgetClosed, CheckTypeOK
<1>4. CASE LookAgain
  <2>1. waited' \in 0..Patience
    BY <1>0, <1>4, CheckAssumption DEF LookAgain, CheckTypeOK
  <2> QED
    BY <1>0, <1>4, <2>1, QuietInv DEF LookAgain, CheckTypeOK
<1>5. ASSUME NEW c \in attempts, Attest(c) PROVE CheckInv'
  BY <1>5, AttestInv
<1>6. ASSUME NEW c \in attempts, AttemptAnswered(c) PROVE CheckInv'
  BY <1>6, AnswerInv
<1>7. ASSUME NEW c \in attempts, AttemptLost(c) PROVE CheckInv'
  BY <1>0, <1>7, QuietInv DEF AttemptLost, CheckTypeOK
<1>8. CASE OtherApproves
  <2>1. others' \in 0..Required /\ PendingIsShort'
    BY <1>0, <1>8, CheckAssumption DEF OtherApproves, PendingIsShort, CheckTypeOK
  <2> QED
    BY <1>0, <1>8, <2>1, ServerInv DEF OtherApproves, CheckTypeOK
<1>9. CASE InvoiceCloses
  BY <1>0, <1>9, ServerInv DEF InvoiceCloses, CheckTypeOK, PendingIsShort
<1>10. CASE RolesChange
  BY <1>0, <1>10, ServerInv DEF RolesChange, CheckTypeOK, PendingIsShort
<1>11. CASE UNCHANGED checkVars
  BY <1>0, <1>11 DEF checkVars, CheckInv, CheckTypeOK, AnswersAreTrue, PendingIsShort, DoneIsRecorded
<1> QED
  BY <1>1, <1>2, <1>12, <1>3, <1>13, <1>4, <1>5, <1>6, <1>7, <1>8, <1>9, <1>10, <1>11
  DEF CheckNext, CheckProgress

LEMMA CheckInvHolds == CheckSpec => []CheckInv
BY CheckInitInv, CheckStepInv, PTL DEF CheckSpec

\* The page's variables keep their types (selfie-check.tsx).
THEOREM CheckTypeCorrect == CheckSpec => []CheckTypeOK
BY CheckInvHolds, PTL DEF CheckInv

\* "Approved" is shown only to somebody whose approval is recorded, whatever the quorum
\* and however many answers are late (selfie-check.tsx:71-92).
THEOREM DoneIsTrue == CheckSpec => []DoneIsRecorded
BY CheckInvHolds, PTL DEF CheckInv

-----------------------------------------------------------------------------
(* The policy page.                                                        *)

PolicyTold ==
  (/\ ~redrawPolicy /\ ~elsewhere
   /\ \A c \in saves : c.stage # "ok"
   /\ \A c \in removals : c.stage # "ok") => readTiers = tiers

\* What is on screen is what the server read last, or that is on its way.
CardsAreRead == ~arriving => cards = readTiers

PolicyInv == PolicyTypeOK /\ EachFormItsTier /\ PolicyTold /\ CardsAreRead

LEMMA PolicyInitInv == PolicyInit => PolicyInv
<1> SUFFICES ASSUME PolicyInit PROVE PolicyInv
  OBVIOUS
<1> USE DEF PolicyInit
<1>1. PolicyTypeOK
  BY PolicyAssumption DEF PolicyTypeOK
<1>2. EachFormItsTier
  BY DEF EachFormItsTier
<1>3. PolicyTold /\ CardsAreRead
  BY DEF PolicyTold, CardsAreRead
<1> QED
  BY <1>1, <1>2, <1>3 DEF PolicyInv

\* A request moves from one stage to the next and keeps the rest of what it carries.
LEMMA SaveMoves ==
  ASSUME NEW c \in Save, NEW s \in {"sent", "ok", "refused"}
  PROVE  /\ [c EXCEPT !.stage = s] \in Save
         /\ [c EXCEPT !.stage = s].stage = s
         /\ [c EXCEPT !.stage = s].to = c.to
         /\ [c EXCEPT !.stage = s].from = c.from
BY DEF Save

LEMMA RemovalMoves ==
  ASSUME NEW c \in Removal, NEW s \in {"sent", "ok", "refused"}
  PROVE  /\ [c EXCEPT !.stage = s] \in Removal
         /\ [c EXCEPT !.stage = s].stage = s
BY DEF Removal

LEMMA PolicyStepInv == PolicyInv /\ [PolicyNext]_policyVars => PolicyInv'
<1> SUFFICES ASSUME PolicyInv, [PolicyNext]_policyVars PROVE PolicyInv'
  OBVIOUS
<1> USE PolicyAssumption DEF PolicyInv
<1> USE DEF PolicyTypeOK, EachFormItsTier, PolicyTold, CardsAreRead, dialogs, policyPage
<1>1. CASE RenderPolicy \/ RedrawPolicy
  BY <1>1 DEF RenderPolicy, RedrawPolicy
<1>2. ASSUME NEW t \in Tiers \cup {NewTier}, OpenDialog(t) PROVE PolicyInv'
  <2>1. draft' \in [of: Tiers \cup {NewTier}, terms: Terms] /\ draft'.of = t
    BY <1>2 DEF OpenDialog, LoadForm
  <2> QED
    BY <1>2, <2>1 DEF OpenDialog
<1>3. ASSUME NEW v \in Terms, Fill(v) PROVE PolicyInv'
  <2>1. draft' \in [of: Tiers \cup {NewTier}, terms: Terms] /\ draft'.of = draft.of
    BY <1>3 DEF Fill
  <2> QED
    BY <1>3, <2>1 DEF Fill
<1>4. CASE CloseDialog
  BY <1>4 DEF CloseDialog
<1>5. CASE PressSave
  <2> DEFINE c == [to |-> editing, from |-> draft.of, terms |-> draft.terms, stage |-> "sent"]
  <2>1. c \in Save /\ c.from = c.to /\ c.stage = "sent"
    BY <1>5 DEF PressSave, Save
  <2>2. saves' = saves \cup {c}
    BY <1>5 DEF PressSave
  <2> QED
    BY <1>5, <2>1, <2>2 DEF PressSave
<1>6. ASSUME NEW c \in saves, SaveArrives(c) PROVE PolicyInv'
  <2>1. c \in Save /\ c.stage = "sent" /\ c.from = c.to
    BY <1>6 DEF SaveArrives
  <2> DEFINE answered(s) == [c EXCEPT !.stage = s]
  <2>2. ASSUME NEW s \in {"ok", "refused"}
        PROVE  answered(s) \in Save /\ answered(s).from = answered(s).to /\ answered(s).stage = s
    BY <2>1, SaveMoves
  <2> HIDE DEF answered
  <2>3. CASE /\ saves' = (saves \ {c}) \cup {answered("refused")}
             /\ UNCHANGED tiers
    <3>1. saves' \subseteq Save /\ \A d \in saves' : d.from = d.to
      BY <2>2, <2>3
    <3>2. \A d \in saves : d.stage = "ok" => d \in saves'
      BY <2>1, <2>3
    <3> QED
      BY <1>6, <2>3, <3>1, <3>2 DEF SaveArrives
  <2>4. ASSUME NEW t \in Tiers,
               tiers' = [tiers EXCEPT ![t] = c.terms],
               saves' = (saves \ {c}) \cup {answered("ok")}
        PROVE  PolicyInv'
    <3>1. tiers' \in [Tiers -> Terms \cup {NoTier}]
      BY <2>1, <2>4 DEF Save
    <3>2. saves' \subseteq Save /\ \A d \in saves' : d.from = d.to
      BY <2>2, <2>4
    <3>3. \E d \in saves' : d.stage = "ok"
      BY <2>2, <2>4
    <3> QED
      BY <1>6, <3>1, <3>2, <3>3 DEF SaveArrives
  <2> QED
    BY <1>6, <2>3, <2>4 DEF SaveArrives, answered
<1>7. ASSUME NEW c \in saves, SaveAnswered(c) PROVE PolicyInv'
  BY <1>7 DEF SaveAnswered, OnSaved, Save
<1>8. ASSUME NEW c \in saves, SaveLost(c) PROVE PolicyInv'
  BY <1>8 DEF SaveLost
<1>9. ASSUME NEW t \in Tiers, AskDelete(t) PROVE PolicyInv'
  BY <1>9 DEF AskDelete
<1>10. ASSUME NEW t \in Tiers, AnotherOwnerWrites(t) PROVE PolicyInv'
  <2>1. tiers' \in [Tiers -> Terms \cup {NoTier}]
    BY <1>10 DEF AnotherOwnerWrites
  <2> QED
    BY <1>10, <2>1 DEF AnotherOwnerWrites
<1>11. CASE CancelDelete
  BY <1>11 DEF CancelDelete
<1>12. CASE PressDelete
  <2> DEFINE c == [of |-> deleting, stage |-> "sent"]
  <2>1. c \in Removal /\ c.stage = "sent" /\ removals' = removals \cup {c}
    BY <1>12 DEF PressDelete, Removal
  <2> QED
    BY <1>12, <2>1 DEF PressDelete
<1>13. ASSUME NEW c \in removals, RemovalArrives(c) PROVE PolicyInv'
  <2>1. c \in Removal /\ c.stage = "sent"
    BY <1>13 DEF RemovalArrives
  <2>2. CASE /\ removals' = (removals \ {c}) \cup {[c EXCEPT !.stage = "refused"]}
             /\ UNCHANGED tiers
    BY <1>13, <2>1, <2>2, RemovalMoves DEF RemovalArrives
  <2>3. CASE /\ tiers' = [tiers EXCEPT ![c.of] = NoTier]
             /\ removals' = (removals \ {c}) \cup {[c EXCEPT !.stage = "ok"]}
    BY <1>13, <2>1, <2>3, RemovalMoves DEF RemovalArrives
  <2> QED
    BY <1>13, <2>2, <2>3 DEF RemovalArrives
<1>14. ASSUME NEW c \in removals, RemovalAnswered(c) PROVE PolicyInv'
  BY <1>14 DEF RemovalAnswered, Removal
<1>15. ASSUME NEW c \in removals, RemovalLost(c) PROVE PolicyInv'
  BY <1>15 DEF RemovalLost
<1>16. CASE UNCHANGED policyVars
  BY <1>16 DEF policyVars
<1> QED
  BY <1>1, <1>2, <1>3, <1>4, <1>5, <1>6, <1>7, <1>8, <1>9, <1>10, <1>11, <1>12, <1>13,
     <1>14, <1>15, <1>16 DEF PolicyNext

LEMMA PolicyInvHolds == PolicySpec => []PolicyInv
BY PolicyInitInv, PolicyStepInv, PTL DEF PolicySpec

\* The policy page's variables keep their types (policy-board.tsx, policy-dialog.tsx).
THEOREM PolicyTypeCorrect == PolicySpec => []PolicyTypeOK
BY PolicyInvHolds, PTL DEF PolicyInv

\* Whatever dialogs are opened and closed while saves are under way, what is saved under
\* a tier was loaded from that tier (policy-dialog.tsx:57).
THEOREM FormsStayApart == PolicySpec => []EachFormItsTier
BY PolicyInvHolds, PTL DEF PolicyInv

\* A policy page with nothing under way shows the server's tiers, for any number of
\* tiers and of requests under way.
THEOREM PolicyIsCurrent == PolicySpec => []QuietPolicyIsCurrent
<1>1. PolicyInv => QuietPolicyIsCurrent
  BY DEF PolicyInv, PolicyTold, CardsAreRead, QuietPolicyIsCurrent
<1> QED
  BY <1>1, PolicyInvHolds, PTL

-----------------------------------------------------------------------------
(* The team page.                                                          *)

TeamTold ==
  (/\ ~redrawTeam /\ ~untold
   /\ \A c \in rowCalls : c.stage # "ok"
   /\ invitations # "ok") => rows = roster

InviteMarked == invitations # "none" => inviteBusy

TeamInv == TeamTypeOK /\ InviteMarked /\ TeamTold

LEMMA TeamInitInv == TeamInit => TeamInv
BY DEF TeamInit, TeamInv, TeamTypeOK, InviteMarked, TeamTold

LEMMA RowCallMoves ==
  ASSUME NEW c \in RowCall, NEW s \in Stages
  PROVE  /\ [c EXCEPT !.stage = s] \in RowCall
         /\ [c EXCEPT !.stage = s].stage = s
BY DEF RowCall

LEMMA PressRowInv ==
  ASSUME TeamInv, NEW m \in Members, NEW to \in Roles \cup {"gone"}, PressRow(m, to)
  PROVE  TeamInv'
<1> DEFINE c == [on |-> m, to |-> to, stage |-> "sent"]
<1>1. c \in RowCall /\ c.stage = "sent"
  BY DEF RowCall, Stages
<1>2. rowCalls' = rowCalls \cup {c}
  BY DEF PressRow
<1> QED
  BY <1>1, <1>2 DEF PressRow, TeamInv, TeamTypeOK, InviteMarked, TeamTold

LEMMA TeamStepInv == TeamInv /\ [TeamNext]_teamVars => TeamInv'
<1> SUFFICES ASSUME TeamInv, [TeamNext]_teamVars PROVE TeamInv'
  OBVIOUS
<1> USE DEF TeamInv
<1> USE DEF TeamTypeOK, InviteMarked, TeamTold
<1>1. CASE RedrawTeam
  BY <1>1 DEF RedrawTeam
<1>2. ASSUME NEW m \in Members, NEW role \in Roles, ChangeRole(m, role) PROVE TeamInv'
  BY <1>2, PressRowInv DEF ChangeRole
<1>3. ASSUME NEW m \in Members, DeleteRow(m) PROVE TeamInv'
  BY <1>3, PressRowInv DEF DeleteRow
<1>4. ASSUME NEW m \in Members, AnotherOwnerEdits(m) PROVE TeamInv'
  <2>1. roster' \in [Members -> Roles \cup {"gone"}]
    BY <1>4 DEF AnotherOwnerEdits
  <2> QED
    BY <1>4, <2>1 DEF AnotherOwnerEdits
<1>5. ASSUME NEW c \in rowCalls, RowCallArrives(c) PROVE TeamInv'
  <2>1. c \in RowCall /\ c.stage = "sent" /\ c.on \in Members /\ c.to \in Roles \cup {"gone"}
    BY <1>5 DEF RowCallArrives, RowCall
  <2>2. CASE /\ rowCalls' = (rowCalls \ {c}) \cup {[c EXCEPT !.stage = "refused"]}
             /\ UNCHANGED roster
    BY <1>5, <2>1, <2>2, RowCallMoves DEF RowCallArrives, Stages
  <2>3. CASE /\ roster' = [roster EXCEPT ![c.on] = c.to]
             /\ rowCalls' = (rowCalls \ {c}) \cup {[c EXCEPT !.stage = "ok"]}
    BY <1>5, <2>1, <2>3, RowCallMoves DEF RowCallArrives, Stages
  <2> QED
    BY <1>5, <2>2, <2>3 DEF RowCallArrives
<1>6. ASSUME NEW c \in rowCalls, RowCallAnswered(c) PROVE TeamInv'
  BY <1>6 DEF RowCallAnswered, Unmark, RefreshIf
<1>7. ASSUME NEW c \in rowCalls, RowCallLost(c) PROVE TeamInv'
  BY <1>7 DEF RowCallLost
<1>8. CASE OpenInvite \/ CloseInvite
  BY <1>8 DEF OpenInvite, CloseInvite
<1>9. CASE PressInvite
  BY <1>9 DEF PressInvite, Stages
<1>10. CASE InviteArrives
  <2>1. roster' \in [Members -> Roles \cup {"gone"}]
    BY <1>10 DEF InviteArrives
  <2> QED
    BY <1>10, <2>1 DEF InviteArrives, Stages
<1>11. CASE InviteAnswered
  BY <1>11 DEF InviteAnswered, RefreshIf
<1>12. CASE InviteLost
  BY <1>12 DEF InviteLost
<1>13. CASE UNCHANGED teamVars
  BY <1>13 DEF teamVars
<1> QED
  BY <1>1, <1>2, <1>3, <1>4, <1>5, <1>6, <1>7, <1>8, <1>9, <1>10, <1>11, <1>12, <1>13
  DEF TeamNext, TeamProgress

LEMMA TeamInvHolds == TeamSpec => []TeamInv
BY TeamInitInv, TeamStepInv, PTL DEF TeamSpec

\* The team page's variables keep their types (team-board.tsx).
THEOREM TeamTypeCorrect == TeamSpec => []TeamTypeOK
BY TeamInvHolds, PTL DEF TeamInv

\* A team page with nothing under way shows the server's roster, for any number of
\* members and of requests under way.
THEOREM RosterIsCurrent == TeamSpec => []QuietRosterIsCurrent
<1>1. TeamInv => QuietRosterIsCurrent
  BY DEF TeamInv, TeamTold, QuietRosterIsCurrent
<1> QED
  BY <1>1, TeamInvHolds, PTL

-----------------------------------------------------------------------------
(* The pages that list invoices.                                           *)

LEMMA ListsStepType == ListsTypeOK /\ [ListsNext]_listVars => ListsTypeOK'
<1> SUFFICES ASSUME ListsTypeOK, [ListsNext]_listVars PROVE ListsTypeOK'
  OBVIOUS
<1>1. ASSUME UNCHANGED <<ledger, listed, list, redrawList, filingLost>>,
             filing' \in Filing \cup {NoFiling}, composing' \in BOOLEAN,
             typed' \in BOOLEAN, filingBusy' \in BOOLEAN
      PROVE  ListsTypeOK'
  BY <1>1 DEF ListsTypeOK
<1>2. CASE RedrawList
  BY <1>2 DEF RedrawList, ListsTypeOK, dialog
<1>3. CASE FilingArrives
  <2>1. filing \in Filing /\ filing.stage = "sent" /\ filing.mounted \in BOOLEAN
    BY <1>3 DEF FilingArrives, ListsTypeOK, Filing, NoFiling
  <2>2. [filing EXCEPT !.stage = "refused"] \in Filing
    BY <2>1 DEF Filing
  <2>3. \A i \in Invoices : [stage |-> "ok", mounted |-> filing.mounted, id |-> i] \in Filing
    BY <2>1 DEF Filing
  <2>4. filing' \in Filing /\ ledger' \in [Invoices -> Statuses \cup {"none"}]
    BY <1>3, <2>2, <2>3 DEF FilingArrives, ListsTypeOK, Statuses
  <2> QED
    BY <1>3, <2>4 DEF FilingArrives, ListsTypeOK, dialog
<1>4. CASE FilingAnswered
  <2>1. composing' \in BOOLEAN /\ filingBusy' \in BOOLEAN /\ redrawList' \in BOOLEAN
    BY <1>4 DEF FilingAnswered, ListsTypeOK
  <2> QED
    BY <1>4, <2>1 DEF FilingAnswered, ListsTypeOK
<1>5. ASSUME NEW p \in Lists, OpenList(p) PROVE ListsTypeOK'
  <2>1. filing # NoFiling => [filing EXCEPT !.mounted = FALSE] \in Filing
    BY DEF ListsTypeOK, Filing
  <2> QED
    BY <1>5, <2>1 DEF OpenList, ListsTypeOK
<1>6. CASE Compose \/ TypeAmount \/ CancelFiling
  BY <1>1, <1>6 DEF Compose, TypeAmount, CancelFiling, ListsTypeOK
<1>7. CASE File
  BY <1>1, <1>7 DEF File, ListsTypeOK, Filing
<1>8. CASE FilingLost
  BY <1>8 DEF FilingLost, ListsTypeOK, dialog
<1>9. ASSUME NEW i \in Invoices, InvoiceMoves(i) PROVE ListsTypeOK'
  <2>1. ledger' \in [Invoices -> Statuses \cup {"none"}]
    BY <1>9 DEF InvoiceMoves, ListsTypeOK, Statuses
  <2> QED
    BY <1>9, <2>1 DEF InvoiceMoves, ListsTypeOK, dialog
<1>10. CASE UNCHANGED listVars
  BY <1>10 DEF listVars, ListsTypeOK, dialog
<1> QED
  BY <1>2, <1>3, <1>4, <1>5, <1>6, <1>7, <1>8, <1>9, <1>10 DEF ListsNext, FilingMoves

\* The variables of the invoice pages keep their types (invoice-board.tsx).
THEOREM ListsTypeCorrect == ListsSpec => []ListsTypeOK
<1>1. ListsInit => ListsTypeOK
  BY DEF ListsInit, ListsTypeOK, Lists
<1> QED
  BY <1>1, ListsStepType, PTL DEF ListsSpec
=============================================================================
