---------------------------- MODULE WebExportKey ----------------------------
(***************************************************************************)
(* Taking the private key out of the wallet page.  The key arrives sealed, *)
(* is opened in this tab, and is on screen only while it is asked for.     *)
(***************************************************************************)

VARIABLES
  exporting,  \* the component's state
  keyHeld,    \* the opened key is in its memory
  visible,    \* the reveal toggle
  export,     \* POST /api/wallet/export under way
  clipboard,  \* the key was copied
  revealed    \* history: reveal was pressed for the key that is held

exportVars == <<exporting, keyHeld, visible, export, clipboard, revealed>>

ExportTypeOK ==
  /\ exporting \in {"idle", "confirming", "working", "shown", "error"}
  /\ keyHeld \in BOOLEAN
  /\ visible \in BOOLEAN
  /\ export \in {"none", "sent", "sealed", "refused"}
  /\ clipboard \in BOOLEAN
  /\ revealed \in BOOLEAN

ExportInit ==
  /\ exporting = "idle"
  /\ keyHeld = FALSE /\ visible = FALSE
  /\ export = "none"
  /\ clipboard = FALSE /\ revealed = FALSE

AskExport ==
  /\ exporting \in {"idle", "error"}
  /\ exporting' = "confirming"
  /\ UNCHANGED <<keyHeld, visible, export, clipboard, revealed>>

CancelExport ==
  /\ exporting = "confirming"
  /\ exporting' = "idle"
  /\ UNCHANGED <<keyHeld, visible, export, clipboard, revealed>>

\* The page makes a key pair and sends its public half.
Run ==
  /\ exporting = "confirming"
  /\ exporting' = "working"
  /\ export' = "sent"
  /\ UNCHANGED <<keyHeld, visible, clipboard, revealed>>

ExportArrives ==
  /\ export = "sent"
  /\ export' \in {"sealed", "refused"}
  /\ UNCHANGED <<exporting, keyHeld, visible, clipboard, revealed>>

\* The answer is opened, or is a refusal, or cannot be opened, or never comes.
ExportEnds ==
  /\ export # "none"
  /\ export' = "none"
  /\ \/ /\ export = "sealed"
        /\ exporting' = "shown" /\ keyHeld' = TRUE /\ revealed' = FALSE
     \/ exporting' = "error" /\ UNCHANGED <<keyHeld, revealed>>
  /\ UNCHANGED <<visible, clipboard>>

Reveal ==
  /\ exporting = "shown"
  /\ visible' = ~visible
  /\ revealed' = TRUE
  /\ UNCHANGED <<exporting, keyHeld, export, clipboard>>

CopyKey ==
  /\ exporting = "shown"
  /\ clipboard' = TRUE
  /\ UNCHANGED <<exporting, keyHeld, visible, export, revealed>>

HideKeepingToggle ==
  /\ exporting = "shown"
  /\ exporting' = "idle" /\ keyHeld' = FALSE
  /\ UNCHANGED <<visible, export, clipboard, revealed>>

Hide ==
  /\ exporting = "shown"
  /\ exporting' = "idle" /\ keyHeld' = FALSE /\ visible' = FALSE
  /\ UNCHANGED <<export, clipboard, revealed>>

ExportNext ==
  \/ AskExport \/ CancelExport \/ Run \/ ExportArrives \/ ExportEnds
  \/ Reveal \/ CopyKey \/ Hide

ExportSpec == ExportInit /\ [][ExportNext]_exportVars

\* A key is in the page's memory while it shows one and no longer ("Done - clear it from
\* this page", export-key.tsx:132), and a second key is not shown in the clear because
\* the first one was.
KeyIsHeldBack ==
  /\ keyHeld => exporting = "shown"
  /\ exporting = "shown" /\ visible => revealed
=============================================================================
