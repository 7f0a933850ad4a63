-------------------------------- MODULE Web ---------------------------------
(***************************************************************************)
(* The web app's pages together.  A tab shows one page at a time and the   *)
(* pages share no state in the browser, so the one that is opened first is *)
(* the one that moves; the others stay where they start.                   *)
(***************************************************************************)
EXTENDS WebSession, WebCheck, WebPolicy, WebTeam, WebInvoices, WebWallet, WebFaucet,
        WebExportKey

VARIABLE opened   \* which page this behaviour is about

SessionAtRest == SessionInit /\ user = Nobody /\ (\A e \in Emails : holder[e] = NoSeat) /\ going = "login"
CheckAtRest   == CheckInit /\ surface = "verify" /\ demo /\ eligible
PolicyAtRest  == PolicyInit /\ \A t \in Tiers : tiers[t] = NoTier
TeamAtRest    == TeamInit /\ \A m \in Members : roster[m] = "owner"
ListsAtRest   == ListsInit /\ list = "board" /\ \A i \in Invoices : ledger[i] = "none"
WalletAtRest  == WalletInit /\ ~address /\ eth = "none" /\ ~tokens

WebInit ==
  /\ opened \in {"session", "check", "policy", "team", "lists", "wallet", "faucet", "export"}
  /\ IF opened = "session" THEN SessionInit ELSE SessionAtRest
  /\ IF opened = "check" THEN CheckInit ELSE CheckAtRest
  /\ IF opened = "policy" THEN PolicyInit ELSE PolicyAtRest
  /\ IF opened = "team" THEN TeamInit ELSE TeamAtRest
  /\ IF opened = "lists" THEN ListsInit ELSE ListsAtRest
  /\ IF opened = "wallet" THEN WalletInit ELSE WalletAtRest
  /\ FaucetInit
  /\ ExportInit

WebNext ==
  /\ UNCHANGED opened
  /\ \/ /\ opened = "session" /\ SessionNext
        /\ UNCHANGED <<checkVars, policyVars, teamVars, listVars, walletVars, faucetVars, exportVars>>
     \/ /\ opened = "check" /\ CheckNext
        /\ UNCHANGED <<sessionVars, policyVars, teamVars, listVars, walletVars, faucetVars, exportVars>>
     \/ /\ opened = "policy" /\ PolicyNext
        /\ UNCHANGED <<sessionVars, checkVars, teamVars, listVars, walletVars, faucetVars, exportVars>>
     \/ /\ opened = "team" /\ TeamNext
        /\ UNCHANGED <<sessionVars, checkVars, policyVars, listVars, walletVars, faucetVars, exportVars>>
     \/ /\ opened = "lists" /\ ListsNext
        /\ UNCHANGED <<sessionVars, checkVars, policyVars, teamVars, walletVars, faucetVars, exportVars>>
     \/ /\ opened = "wallet" /\ WalletNext
        /\ UNCHANGED <<sessionVars, checkVars, policyVars, teamVars, listVars, faucetVars, exportVars>>
     \/ /\ opened = "faucet" /\ FaucetNext
        /\ UNCHANGED <<sessionVars, checkVars, policyVars, teamVars, listVars, walletVars, exportVars>>
     \/ /\ opened = "export" /\ ExportNext
        /\ UNCHANGED <<sessionVars, checkVars, policyVars, teamVars, listVars, walletVars, faucetVars>>

webVars == <<opened, sessionVars, checkVars, policyVars, teamVars, listVars, walletVars,
             faucetVars, exportVars>>

\* The fairness of each page's own specification, for the page that is opened.
WebSpec ==
  /\ WebInit /\ [][WebNext]_webVars
  /\ WF_sessionVars(opened = "session" /\ SessionProgress)
  /\ WF_checkVars(opened = "check" /\ CheckProgress)
  /\ WF_teamVars(opened = "team" /\ TeamProgress)
  /\ WF_listVars(opened = "lists" /\ RedrawList)
  /\ WF_listVars(opened = "lists" /\ FilingMoves)

WebTypeOK ==
  /\ SessionTypeOK
  /\ CheckTypeOK
  /\ PolicyTypeOK
  /\ TeamTypeOK
  /\ ListsTypeOK
  /\ WalletTypeOK
  /\ FaucetTypeOK
  /\ ExportTypeOK
=============================================================================
