---------------------------- MODULE WebInvoices ----------------------------
(***************************************************************************)
(* The pages that list invoices (Invoices, Overview, Payments) and the     *)
(* dialog that files one.                                                  *)
(*                                                                         *)
(* All three render the same server list, each its own part of it.  The    *)
(* dialog's request outlives the dialog and the page it was opened on; its *)
(* answer refreshes whichever list is on screen by then.                   *)
(***************************************************************************)
EXTENDS Naturals

CONSTANT Invoices   \* invoices, and invoices to be

VARIABLES
  ledger,         \* server: the status of each invoice, "none" before it is filed
  listed,         \* the same, as the list on screen was rendered
  list,           \* which page is on screen
  composing,      \* NewInvoiceDialog is open
  typed,          \* an amount is typed in
  filingBusy,     \* the dialog's busy
  filing,         \* POST /api/invoices under way
  redrawList,     \* router.refresh() was called and has not been answered
  filingLost      \* history: a filing's answer was lost

dialog == <<composing, typed, filingBusy>>
listVars == <<ledger, listed, list, dialog, filing, redrawList, filingLost>>

\* domain.InvoiceStatus, without draft, scheduled and failed, which nothing writes.
Statuses == {"pending_approval", "approved", "paid", "rejected"}
Lists    == {"board", "overview", "payments"}

NoFiling == [stage |-> "none"]
Filing   == [stage: {"sent", "refused"}, mounted: BOOLEAN]
            \cup [stage: {"ok"}, mounted: BOOLEAN, id: Invoices]

ListsTypeOK ==
  /\ ledger \in [Invoices -> Statuses \cup {"none"}]
  /\ listed \in [Invoices -> Statuses \cup {"none"}]
  /\ list \in Lists
  /\ composing \in BOOLEAN /\ typed \in BOOLEAN /\ filingBusy \in BOOLEAN
  /\ filing \in Filing \cup {NoFiling}
  /\ redrawList \in BOOLEAN
  /\ filingLost \in BOOLEAN

ListsInit ==
  /\ ledger \in [Invoices -> Statuses \cup {"none"}]
  /\ listed = ledger
  /\ list \in Lists
  /\ composing = FALSE /\ typed = FALSE /\ filingBusy = FALSE
  /\ filing = NoFiling
  /\ redrawList = FALSE /\ filingLost = FALSE

-----------------------------------------------------------------------------
(* What the pages show.                                                    *)

WithStatus(S) == {i \in Invoices : listed[i] \in S}

\* The rows of the Invoices page under each of its tabs.
Rows(tab) == WithStatus(IF tab = "all" THEN Statuses ELSE {tab})

\* Overview counts these, and lists the first eight.
NeedsDecision == WithStatus({"pending_approval"})

OnMoneyPathOnceStarted == WithStatus({"scheduled", "failed"})

\* What Payments lists.
OnMoneyPath == WithStatus({"approved", "scheduled", "failed"})
Paid == WithStatus({"paid"})

-----------------------------------------------------------------------------
(* The pages.                                                              *)

RedrawList ==
  /\ redrawList
  /\ listed' = ledger
  /\ redrawList' = FALSE
  /\ UNCHANGED <<ledger, list, dialog, filing, filingLost>>

\* Another page of the three, or the same one again: everything starts afresh.
OpenList(p) ==
  /\ list' = p /\ listed' = ledger
  /\ composing' = FALSE /\ typed' = FALSE /\ filingBusy' = FALSE
  /\ filing' = IF filing = NoFiling THEN filing ELSE [filing EXCEPT !.mounted = FALSE]
  /\ UNCHANGED <<ledger, redrawList, filingLost>>

-----------------------------------------------------------------------------
(* The dialog.                                                             *)

Compose ==
  /\ list = "board" /\ ~composing
  /\ composing' = TRUE
  /\ UNCHANGED <<ledger, listed, list, typed, filingBusy, filing, redrawList, filingLost>>

TypeAmount ==
  /\ composing
  /\ typed' = ~typed
  /\ UNCHANGED <<ledger, listed, list, composing, filingBusy, filing, redrawList, filingLost>>

CancelFiling ==
  /\ composing
  /\ composing' = FALSE
  /\ UNCHANGED <<ledger, listed, list, typed, filingBusy, filing, redrawList, filingLost>>

\* Bound: one filing of this tab is under way at a time.
File ==
  /\ composing /\ ~filingBusy /\ typed
  /\ filing = NoFiling
  /\ filingBusy' = TRUE
  /\ filing' = [stage |-> "sent", mounted |-> TRUE]
  /\ UNCHANGED <<ledger, listed, list, composing, typed, redrawList, filingLost>>

FilingArrives ==
  /\ filing.stage = "sent"
  /\ \/ filing' = [filing EXCEPT !.stage = "refused"] /\ UNCHANGED ledger
     \/ \E i \in Invoices :
          /\ ledger[i] = "none"
          /\ ledger' = [ledger EXCEPT ![i] = "pending_approval"]
          /\ filing' = [stage |-> "ok", mounted |-> filing.mounted, id |-> i]
  /\ UNCHANGED <<listed, list, dialog, redrawList, filingLost>>

\* The dialog closes and keeps what was typed; a refusal leaves it open.
FilingAnswered ==
  /\ filing.stage \in {"ok", "refused"}
  /\ filing' = NoFiling
  /\ IF filing.mounted
     THEN /\ filingBusy' = FALSE
          /\ composing' = (composing /\ filing.stage = "refused")
     ELSE UNCHANGED <<filingBusy, composing>>
  /\ redrawList' = (redrawList \/ filing.stage = "ok")
  /\ UNCHANGED <<ledger, listed, list, typed, filingLost>>

\* A fetch that rejects leaves submit() before it clears busy.
FilingLost ==
  /\ filing # NoFiling
  /\ filing' = NoFiling
  /\ filingLost' = TRUE
  /\ UNCHANGED <<ledger, listed, list, dialog, redrawList>>

-----------------------------------------------------------------------------
(* The rest of the system.                                                 *)

\* The last two are late decisions: of a call that counted its quorum, or looked at the
\* status, before another call's was written (Approvals).
InvoiceMoves(i) ==
  /\ \/ ledger[i] = "none" /\ ledger' = [ledger EXCEPT ![i] = "pending_approval"]
     \/ /\ ledger[i] = "pending_approval"
        /\ \E s \in {"approved", "rejected"} : ledger' = [ledger EXCEPT ![i] = s]
     \/ ledger[i] = "approved" /\ ledger' = [ledger EXCEPT ![i] = "paid"]
     \/ ledger[i] = "approved" /\ ledger' = [ledger EXCEPT ![i] = "rejected"]
     \/ ledger[i] = "rejected" /\ ledger' = [ledger EXCEPT ![i] = "approved"]
  /\ UNCHANGED <<listed, list, dialog, filing, redrawList, filingLost>>

-----------------------------------------------------------------------------

FilingMoves == FilingArrives \/ FilingAnswered

ListsNext ==
  \/ RedrawList
  \/ FilingMoves
  \/ \E p \in Lists : OpenList(p)
  \/ Compose \/ TypeAmount \/ CancelFiling \/ File \/ FilingLost
  \/ \E i \in Invoices : InvoiceMoves(i)

ListsSpec ==
  /\ ListsInit /\ [][ListsNext]_listVars
  /\ WF_listVars(RedrawList) /\ WF_listVars(FilingMoves)

-----------------------------------------------------------------------------

\* An invoice somebody filed comes on screen without a reload, wherever they went
\* meanwhile, unless the filing's answer is lost; and it is then in one of the lists the
\* pages divide the invoices into, whatever became of it by the time it is rendered.
FiledIsListed ==
  \A i \in Invoices :
    (filing.stage = "ok" /\ filing.id = i)
      ~> \/ filingLost
         \/ i \in NeedsDecision \cup OnMoneyPath \cup Paid \cup Rows("rejected")
=============================================================================
