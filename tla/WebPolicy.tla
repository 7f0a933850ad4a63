----------------------------- MODULE WebPolicy -----------------------------
(***************************************************************************)
(* The policy page: the tiers as cards, and the dialogs that edit them.    *)
(*                                                                         *)
(* The cards are a rendering of the server's tiers, the form a copy of one *)
(* card, and a save puts the whole form back.  A dialog can be closed      *)
(* while its request is under way; the answer then meets whatever is open  *)
(* by that time.                                                           *)
(***************************************************************************)
EXTENDS Naturals, FiniteSets

CONSTANTS
  Tiers,     \* policy ids
  Terms,     \* what a tier can say: ceiling, approvals, roles, proof
  Blank,     \* the terms an empty form starts with
  NoTier,    \* no tier
  NewTier,   \* a tier to be
  MaxWrites  \* bound: requests of this tab under way at a time

ASSUME PolicyAssumption ==
  /\ Blank \in Terms
  /\ NoTier \notin Tiers /\ NewTier \notin Tiers /\ NoTier # NewTier
  /\ NoTier \notin Terms
  /\ MaxWrites \in Nat

VARIABLES
  tiers,        \* server: the terms of each tier, NoTier when there is none
  readTiers,    \* the tiers as the server last read them for this page
  cards,        \* the tiers the page was rendered with
  editing,      \* what the dialog is open for: a tier, NewTier (creating), NoTier
  draft,        \* the dialog's form, and the tier it was loaded from
  saving,       \* the dialog's busy
  saves,        \* POST and PATCH under way
  deleting,     \* the tier the confirmation is open for
  removing,     \* the board's busy
  removals,     \* DELETE under way
  redrawPolicy, \* router.refresh() was called, and the server has not read for it
  arriving,     \* the server has read, and the rendering is not on screen yet
  elsewhere     \* history: changed since that read, and this tab was not told

dialogs == <<editing, draft, saving, deleting, removing>>
policyPage == <<readTiers, cards, arriving>>
policyVars == <<tiers, policyPage, dialogs, saves, removals, redrawPolicy, elsewhere>>

Save    == [to: Tiers \cup {NewTier}, from: Tiers \cup {NewTier}, terms: Terms,
            stage: {"sent", "ok", "refused"}]
Removal == [of: Tiers, stage: {"sent", "ok", "refused"}]

PolicyTypeOK ==
  /\ tiers \in [Tiers -> Terms \cup {NoTier}]
  /\ readTiers \in [Tiers -> Terms \cup {NoTier}]
  /\ cards \in [Tiers -> Terms \cup {NoTier}]
  /\ editing \in Tiers \cup {NewTier, NoTier}
  /\ draft \in [of: Tiers \cup {NewTier}, terms: Terms]
  /\ saving \in BOOLEAN
  /\ saves \subseteq Save
  /\ deleting \in Tiers \cup {NoTier}
  /\ removing \in BOOLEAN
  /\ removals \subseteq Removal
  /\ redrawPolicy \in BOOLEAN
  /\ arriving \in BOOLEAN
  /\ elsewhere \in BOOLEAN

PolicyInit ==
  /\ tiers \in [Tiers -> Terms \cup {NoTier}]
  /\ readTiers = tiers /\ cards = tiers
  /\ editing = NoTier /\ deleting = NoTier
  /\ draft = [of |-> NewTier, terms |-> Blank]
  /\ saving = FALSE /\ removing = FALSE
  /\ saves = {} /\ removals = {}
  /\ redrawPolicy = FALSE /\ arriving = FALSE /\ elsewhere = FALSE

MayWrite == Cardinality(saves) + Cardinality(removals) < MaxWrites

NoDialog == editing = NoTier /\ deleting = NoTier

\* The server reads the tiers for a refresh; the router has one on its way at a time.
RenderPolicy ==
  /\ redrawPolicy /\ ~arriving
  /\ readTiers' = tiers
  /\ arriving' = TRUE /\ redrawPolicy' = FALSE /\ elsewhere' = FALSE
  /\ UNCHANGED <<tiers, cards, dialogs, saves, removals>>

\* The rendering comes on screen, whatever has been written since.
RedrawPolicy ==
  /\ arriving
  /\ cards' = readTiers
  /\ arriving' = FALSE
  /\ UNCHANGED <<tiers, readTiers, dialogs, saves, removals, redrawPolicy, elsewhere>>

-----------------------------------------------------------------------------
(* The dialog.                                                             *)

LoadFormWhenNew(t) ==
  IF t = NewTier THEN draft' = [of |-> t, terms |-> Blank] ELSE UNCHANGED draft

\* What the effect loads the form with when the dialog opens for a tier.
LoadForm(t) == draft' = [of |-> t, terms |-> IF t = NewTier THEN Blank ELSE cards[t]]

OpenDialog(t) ==
  /\ NoDialog
  /\ t = NewTier \/ (t \in Tiers /\ cards[t] # NoTier)
  /\ editing' = t
  /\ LoadForm(t)
  /\ UNCHANGED <<tiers, policyPage, saving, saves, deleting, removing, removals,
                 redrawPolicy, elsewhere>>

Fill(v) ==
  /\ editing # NoTier
  /\ draft' = [draft EXCEPT !.terms = v]
  /\ UNCHANGED <<tiers, policyPage, editing, saving, saves, deleting, removing, removals,
                 redrawPolicy, elsewhere>>

CloseDialog ==
  /\ editing # NoTier
  /\ editing' = NoTier
  /\ UNCHANGED <<tiers, policyPage, draft, saving, saves, deleting, removing, removals,
                 redrawPolicy, elsewhere>>

PressSave ==
  /\ editing # NoTier /\ ~saving /\ MayWrite
  /\ saving' = TRUE
  /\ saves' = saves \cup {[to |-> editing, from |-> draft.of, terms |-> draft.terms,
                           stage |-> "sent"]}
  /\ UNCHANGED <<tiers, policyPage, editing, draft, deleting, removing, removals,
                 redrawPolicy, elsewhere>>

\* createPolicy and updatePolicy: the whole row is written, or the request refused.
SaveArrives(c) ==
  /\ c.stage = "sent"
  /\ \/ /\ saves' = (saves \ {c}) \cup {[c EXCEPT !.stage = "refused"]}
        /\ UNCHANGED tiers
     \/ \E t \in Tiers :
          /\ IF c.to = NewTier THEN tiers[t] = NoTier ELSE t = c.to /\ tiers[t] # NoTier
          /\ tiers' = [tiers EXCEPT ![t] = c.terms]
          /\ saves' = (saves \ {c}) \cup {[c EXCEPT !.stage = "ok"]}
  /\ UNCHANGED <<policyPage, dialogs, removals, redrawPolicy, elsewhere>>

OnSavedQuietly == editing' = NoTier /\ UNCHANGED redrawPolicy

\* onSaved closes whatever the dialog is open for by now; a refusal leaves it open.
OnSaved == editing' = NoTier /\ redrawPolicy' = TRUE

SaveAnswered(c) ==
  /\ c.stage # "sent"
  /\ saves' = saves \ {c}
  /\ saving' = FALSE
  /\ IF c.stage = "ok" THEN OnSaved ELSE UNCHANGED <<editing, redrawPolicy>>
  /\ UNCHANGED <<tiers, policyPage, draft, deleting, removing, removals, elsewhere>>

\* A fetch that rejects leaves save() before it clears busy.
SaveLost(c) ==
  /\ saves' = saves \ {c}
  /\ elsewhere' = (elsewhere \/ c.stage = "ok")
  /\ UNCHANGED <<tiers, policyPage, dialogs, removals, redrawPolicy>>

-----------------------------------------------------------------------------
(* The confirmation.                                                       *)

AskDelete(t) ==
  /\ NoDialog /\ cards[t] # NoTier
  /\ deleting' = t
  /\ UNCHANGED <<tiers, policyPage, editing, draft, saving, saves, removing, removals,
                 redrawPolicy, elsewhere>>

CancelDelete ==
  /\ deleting # NoTier
  /\ deleting' = NoTier
  /\ UNCHANGED <<tiers, policyPage, editing, draft, saving, saves, removing, removals,
                 redrawPolicy, elsewhere>>

PressDelete ==
  /\ deleting # NoTier /\ ~removing /\ MayWrite
  /\ removing' = TRUE
  /\ removals' = removals \cup {[of |-> deleting, stage |-> "sent"]}
  /\ UNCHANGED <<tiers, policyPage, editing, draft, saving, saves, deleting,
                 redrawPolicy, elsewhere>>

\* deletePolicy deletes it, or refuses: to keep the last active tier, for one.
RemovalArrives(c) ==
  /\ c.stage = "sent"
  /\ \/ /\ removals' = (removals \ {c}) \cup {[c EXCEPT !.stage = "refused"]}
        /\ UNCHANGED tiers
     \/ /\ tiers[c.of] # NoTier
        /\ tiers' = [tiers EXCEPT ![c.of] = NoTier]
        /\ removals' = (removals \ {c}) \cup {[c EXCEPT !.stage = "ok"]}
  /\ UNCHANGED <<policyPage, dialogs, saves, redrawPolicy, elsewhere>>

RemovalAnswered(c) ==
  /\ c.stage # "sent"
  /\ removals' = removals \ {c}
  /\ removing' = FALSE
  /\ deleting' = NoTier
  /\ redrawPolicy' = (redrawPolicy \/ c.stage = "ok")
  /\ UNCHANGED <<tiers, policyPage, editing, draft, saving, saves, elsewhere>>

RemovalLost(c) ==
  /\ removals' = removals \ {c}
  /\ elsewhere' = (elsewhere \/ c.stage = "ok")
  /\ UNCHANGED <<tiers, policyPage, dialogs, saves, redrawPolicy>>

\* Another owner's tab.
AnotherOwnerWrites(t) ==
  /\ \E v \in (Terms \cup {NoTier}) \ {tiers[t]} : tiers' = [tiers EXCEPT ![t] = v]
  /\ elsewhere' = TRUE
  /\ UNCHANGED <<policyPage, dialogs, saves, removals, redrawPolicy>>

-----------------------------------------------------------------------------

PolicyNext ==
  \/ RenderPolicy \/ RedrawPolicy
  \/ \E t \in Tiers \cup {NewTier} : OpenDialog(t)
  \/ \E v \in Terms : Fill(v)
  \/ CloseDialog \/ PressSave
  \/ \E c \in saves : SaveArrives(c) \/ SaveAnswered(c) \/ SaveLost(c)
  \/ \E t \in Tiers : AskDelete(t) \/ AnotherOwnerWrites(t)
  \/ CancelDelete \/ PressDelete
  \/ \E c \in removals : RemovalArrives(c) \/ RemovalAnswered(c) \/ RemovalLost(c)

PolicySpec == PolicyInit /\ [][PolicyNext]_policyVars

-----------------------------------------------------------------------------

\* What is saved under a tier was loaded from that tier ("editing one tier then another
\* doesn't carry the first one's values across", policy-dialog.tsx:57), even when an
\* answer closes a dialog that was opened after it was asked.
EachFormItsTier ==
  /\ editing # NoTier => draft.of = editing
  /\ \A c \in saves : c.from = c.to

\* A page with nothing under way shows the tiers the server has, unless somebody else
\* wrote them or an answer was lost since it was rendered.
QuietPolicyIsCurrent ==
  (saves = {} /\ removals = {} /\ ~redrawPolicy /\ ~arriving /\ ~elsewhere) => cards = tiers
=============================================================================
