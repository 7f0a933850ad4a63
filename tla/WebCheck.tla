------------------------------ MODULE WebCheck ------------------------------
(***************************************************************************)
(* Deciding an invoice in the web app: the Selfie Check on the invoice     *)
(* page and on /verify.                                                    *)
(*                                                                         *)
(* The server decides and renders; the check on screen is a client         *)
(* component inside that rendering.  It learns of its own approval from    *)
(* the answer to /api/attest, everything else on the page from the next    *)
(* rendering (shownInvoice), and it goes when that rendering no longer     *)
(* offers it.  An answer may come after the approver has left the page.    *)
(***************************************************************************)
EXTENDS Naturals

CONSTANTS
  Required,     \* approvals the tier asks for
  Patience,     \* bound: how often Settling looks again (code: every 4s for 2min)
  MaxAttempts   \* bound: POST /api/attest under way at a time

ASSUME CheckAssumption ==
  /\ Required \in Nat \ {0}
  /\ Patience \in Nat
  /\ MaxAttempts \in Nat

VARIABLES
  surface,       \* the page the check is on
  demo,          \* World ID is not configured
  status,        \* server: the invoice's status, "closed" once it is paid or rejected
  others,        \* server: approvals by other approvers
  decided,       \* server: this approver's approval is recorded
  eligible,      \* server: routing names this approver
  readInvoice,   \* the invoice as the server last read it for this page
  shownInvoice,  \* what the page on screen was rendered from
  redrawInvoice, \* router.refresh() was called, and the server has not read for it
  pageComing,    \* the server has read, and the rendering is not on screen yet
  check,         \* SelfieCheck's state, "absent" when it is not on screen
  widget,        \* IDKit: no context yet, closed, or open
  settling,      \* the Settling panel is asked for
  waited,        \* how often it has looked again
  attempts       \* POST /api/attest under way

serverInvoice == <<status, others, decided, eligible>>
invoicePage   == <<readInvoice, shownInvoice, redrawInvoice, pageComing>>
checkState    == <<check, widget, settling, waited>>
checkVars == <<surface, demo, serverInvoice, invoicePage, checkState, attempts>>

Attempt == [id: 1..MaxAttempts, stage: {"sent", "refused", "counted", "final"}, mounted: BOOLEAN]
\* Numbers that tell one request from another that is as far.
UnusedIds == {n \in 1..MaxAttempts : \A c \in attempts : c.id # n}

Rendering == [status: {"pending", "approved", "closed"}, decided: BOOLEAN, eligible: BOOLEAN]

CheckTypeOK ==
  /\ surface \in {"invoice", "verify"}
  /\ demo \in BOOLEAN
  /\ status \in {"pending", "approved", "closed"}
  /\ others \in 0..Required
  /\ decided \in BOOLEAN
  /\ eligible \in BOOLEAN
  /\ readInvoice \in Rendering /\ shownInvoice \in Rendering
  /\ redrawInvoice \in BOOLEAN /\ pageComing \in BOOLEAN
  /\ check \in {"absent", "idle", "preparing", "verifying", "done", "error"}
  /\ widget \in {"none", "closed", "open"}
  /\ settling \in BOOLEAN
  /\ waited \in 0..Patience
  /\ attempts \subseteq Attempt

Rendered == [status |-> status, decided |-> decided, eligible |-> eligible]

\* The invoice page takes the check away from somebody who has decided, /verify does not.
Offers(r) == r.status = "pending" /\ r.eligible /\ (surface = "verify" \/ ~r.decided)

\* A check that comes on screen, and one that is not there.
Fresh(r) ==
  /\ check' = IF Offers(r) THEN "idle" ELSE "absent"
  /\ widget' = "none" /\ settling' = FALSE /\ waited' = 0
  /\ attempts' = {[c EXCEPT !.mounted = FALSE] : c \in attempts}

CheckInit ==
  /\ surface \in {"invoice", "verify"}
  /\ demo \in BOOLEAN
  /\ status = "pending" /\ others = 0 /\ decided = FALSE /\ eligible \in BOOLEAN
  /\ readInvoice = Rendered /\ shownInvoice = Rendered
  /\ redrawInvoice = FALSE /\ pageComing = FALSE
  /\ check = IF Offers(Rendered) THEN "idle" ELSE "absent"
  /\ widget = "none" /\ settling = FALSE /\ waited = 0
  /\ attempts = {}

-----------------------------------------------------------------------------
(* The page.                                                               *)

\* The server reads the invoice for a refresh; the router has one on its way at a time.
RenderInvoice ==
  /\ redrawInvoice /\ ~pageComing
  /\ readInvoice' = Rendered
  /\ pageComing' = TRUE /\ redrawInvoice' = FALSE
  /\ UNCHANGED <<surface, demo, serverInvoice, shownInvoice, checkState, attempts>>

\* The rendering arrives.  A check that is on screen and still offered keeps its state.
RedrawInvoice ==
  /\ pageComing
  /\ shownInvoice' = readInvoice /\ pageComing' = FALSE
  /\ IF check # "absent" /\ Offers(readInvoice)
     THEN UNCHANGED <<checkState, attempts>>
     ELSE Fresh(readInvoice)
  /\ UNCHANGED <<surface, demo, serverInvoice, readInvoice, redrawInvoice>>

\* The approver leaves and opens the page again; a rendering on its way is dropped.
Reopen ==
  /\ readInvoice' = Rendered /\ shownInvoice' = Rendered
  /\ redrawInvoice' = FALSE /\ pageComing' = FALSE
  /\ Fresh(Rendered)
  /\ UNCHANGED <<surface, demo, serverInvoice>>

-----------------------------------------------------------------------------
(* The check.                                                              *)

Submit ==
  /\ check' = "verifying"
  /\ \E n \in UnusedIds :
       /\ \A k \in UnusedIds : n <= k
       /\ attempts' = attempts \cup {[id |-> n, stage |-> "sent", mounted |-> TRUE]}

\* Without World ID the button submits at once.
Simulate ==
  /\ demo /\ check \in {"idle", "error"}
  /\ Submit
  /\ UNCHANGED <<surface, demo, serverInvoice, invoicePage, widget, settling, waited>>

Start ==
  /\ ~demo /\ check \in {"idle", "error"} /\ widget # "open"
  /\ check' = "preparing"
  /\ UNCHANGED <<surface, demo, serverInvoice, invoicePage, widget, settling, waited, attempts>>

ContextAnswered ==
  /\ check = "preparing"
  /\ \/ check' = "idle" /\ widget' = "open"
     \/ check' = "error" /\ UNCHANGED widget
  /\ UNCHANGED <<surface, demo, serverInvoice, invoicePage, settling, waited, attempts>>

\* IDKit hands a proof over, fails before there is one, or is closed.
HandleVerify ==
  /\ widget = "open" /\ check \in {"idle", "error"}
  /\ Submit
  /\ UNCHANGED <<surface, demo, serverInvoice, invoicePage, widget, settling, waited>>

WidgetFails ==
  /\ widget = "open" /\ check \in {"idle", "error"}
  /\ check' = "error"
  /\ UNCHANGED <<surface, demo, serverInvoice, invoicePage, widget, settling, waited, attempts>>

WidgetClosed ==
  /\ widget = "open"
  /\ widget' = "closed"
  /\ UNCHANGED <<surface, demo, serverInvoice, invoicePage, check, settling, waited, attempts>>

\* attest: a proof that is refused, or the approval and, with the last one, the payout.
Attest(c) ==
  /\ c.stage = "sent"
  /\ \/ /\ attempts' = (attempts \ {c}) \cup {[c EXCEPT !.stage = "refused"]}
        /\ UNCHANGED <<status, decided>>
     \/ LET full == others + 1 >= Required IN
        /\ status = "pending" /\ eligible /\ ~decided
        /\ decided' = TRUE
        /\ status' = IF full THEN "approved" ELSE status
        /\ attempts' = (attempts \ {c})
             \cup {[c EXCEPT !.stage = IF full THEN "final" ELSE "counted"]}
  /\ UNCHANGED <<surface, demo, others, eligible, invoicePage, checkState>>

GrantedWhateverItSays(c) == TRUE

\* Only an answer that says ok counts; every other throws.
Granted(c) == c.stage # "refused"

RefreshWhenFinal(c) == redrawInvoice' = (redrawInvoice \/ c.stage = "final")

\* The page is rendered again after every approval, the last one or not.
RefreshAfter(c) == redrawInvoice' = (redrawInvoice \/ Granted(c))

Approved(c) ==
  /\ check' = "done"
  /\ settling' = (c.stage = "final")
  /\ widget' = IF widget = "open" THEN "closed" ELSE widget

AttemptAnswered(c) ==
  /\ c.stage # "sent"
  /\ attempts' = attempts \ {c}
  /\ IF c.mounted
     THEN IF Granted(c)
          THEN Approved(c)
          ELSE check' = "error" /\ UNCHANGED <<widget, settling>>
     ELSE UNCHANGED <<check, widget, settling>>
  /\ RefreshAfter(c)
  /\ UNCHANGED <<surface, demo, serverInvoice, readInvoice, shownInvoice, pageComing, waited>>

AttemptLost(c) ==
  /\ attempts' = attempts \ {c}
  /\ check' = IF c.mounted THEN "error" ELSE check
  /\ UNCHANGED <<surface, demo, serverInvoice, invoicePage, widget, settling, waited>>

LookAgainForever ==
  /\ check = "done" /\ settling
  /\ waited' = waited + 1
  /\ redrawInvoice' = TRUE
  /\ UNCHANGED <<surface, demo, serverInvoice, readInvoice, shownInvoice, pageComing,
                 check, widget, settling, attempts>>

\* Settling's timer.
LookAgain ==
  /\ check = "done" /\ settling /\ waited < Patience
  /\ waited' = waited + 1
  /\ redrawInvoice' = TRUE
  /\ UNCHANGED <<surface, demo, serverInvoice, readInvoice, shownInvoice, pageComing,
                 check, widget, settling, attempts>>

-----------------------------------------------------------------------------
(* Everybody else.                                                         *)

OtherApproves ==
  /\ status = "pending"
  /\ others' = others + 1
  /\ status' = IF others' + (IF decided THEN 1 ELSE 0) >= Required THEN "approved" ELSE status
  /\ UNCHANGED <<surface, demo, decided, eligible, invoicePage, checkState, attempts>>

\* Another approver rejects, or the payout job finishes.
InvoiceCloses ==
  /\ status # "closed"
  /\ status' = "closed"
  /\ UNCHANGED <<surface, demo, others, decided, eligible, invoicePage, checkState, attempts>>

\* An owner moves this member out of the tier's roles, or back.
RolesChange ==
  /\ eligible' = ~eligible
  /\ UNCHANGED <<surface, demo, status, others, decided, invoicePage, checkState, attempts>>

-----------------------------------------------------------------------------

CheckProgress ==
  \/ RenderInvoice \/ RedrawInvoice \/ LookAgain \/ ContextAnswered
  \/ \E c \in attempts : Attest(c) \/ AttemptAnswered(c)

CheckNext ==
  \/ CheckProgress
  \/ Reopen \/ Simulate \/ Start \/ HandleVerify \/ WidgetFails \/ WidgetClosed
  \/ \E c \in attempts : AttemptLost(c)
  \/ OtherApproves \/ InvoiceCloses \/ RolesChange

CheckSpec == CheckInit /\ [][CheckNext]_checkVars /\ WF_checkVars(CheckProgress)

-----------------------------------------------------------------------------

\* The check says "Approved" only to somebody whose approval is recorded, and "paying
\* out" only of an invoice that is past its quorum, whatever others did meanwhile.
DoneIsRecorded ==
  /\ check = "done" => decided
  /\ settling => status # "pending"

\* Somebody who is told that they approved gets to see a page that knows it ("Without
\* this the page keeps saying nobody has decided, on the very screen where you just
\* decided", selfie-check.tsx:87).
DecisionIsShown == (check = "done") ~> shownInvoice.decided
=============================================================================
