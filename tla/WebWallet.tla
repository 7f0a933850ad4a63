----------------------------- MODULE WebWallet -----------------------------
(***************************************************************************)
(* The wallet page, from the time it is opened until it is left: sending   *)
(* QUSD, and having the deployer sponsor the gas for it.                   *)
(*                                                                         *)
(* The page is rendered from two reads of the chain, either of which may   *)
(* fail and then counts as zero.  The send button and the sponsor button   *)
(* have a request each, and they share one state: an error of either is    *)
(* what the form is in.                                                    *)
(***************************************************************************)
EXTENDS Naturals, FiniteSets

CONSTANTS
  Slots,     \* numbers; bound: POST /api/wallet/send under way at a time
  MaxTopUps, \* bound: top-ups broadcast for this page
  MaxCrossed, \* bound: top-ups that fail during a send
  MaxUnmined \* bound: top-ups waiting for a block

ASSUME WalletAssumption ==
  /\ Slots \subseteq Nat /\ IsFiniteSet(Slots)
  /\ MaxTopUps \in Nat /\ MaxCrossed \in Nat
  /\ MaxUnmined \in Nat

VARIABLES
  address,      \* server: the member's wallet has been created
  eth,          \* chain: "none", "low" (below ENOUGH), "enough"
  tokens,       \* chain: there is QUSD in the wallet
  unmined,      \* chain: top-ups that are not in a block yet
  seen,         \* what the page was rendered with
  redrawWallet, \* router.refresh() was called and has not been answered
  sendState,    \* state: of the form, of the send, and of a top-up that failed
  filled,       \* recipient and amount are typed in
  sends,        \* the send in each slot
  gasState,     \* the sponsor button's state
  topUp,        \* POST /api/wallet/gas under way
  topUps,       \* history: top-ups broadcast for this page
  unsure,       \* history: how many of them were not answered with their hash
  crossed       \* history: how many top-ups failed while the form was sending

chain    == <<address, eth, tokens, unmined>>
walletPage == <<seen, redrawWallet>>
sendForm == <<sendState, filled, sends>>
gasForm  == <<gasState, topUp, topUps, unsure>>
walletVars == <<chain, walletPage, sendForm, gasForm, crossed>>

InFlight == {"sent", "ok", "refused"}

WalletTypeOK ==
  /\ address \in BOOLEAN
  /\ eth \in {"none", "low", "enough"}
  /\ tokens \in BOOLEAN
  /\ unmined \in 0..MaxUnmined
  /\ seen \in [address: BOOLEAN, gas: BOOLEAN, tokens: BOOLEAN]
  /\ redrawWallet \in BOOLEAN
  /\ sendState \in {"idle", "sending", "sent", "error"}
  /\ filled \in BOOLEAN
  /\ sends \in [Slots -> InFlight \cup {"free"}]
  /\ gasState \in {"idle", "working", "done"}
  /\ topUp \in {"none", "asked", "checked", "broadcast", "refused"}
  /\ topUps \in 0..MaxTopUps
  /\ unsure \in 0..MaxTopUps
  /\ crossed \in 0..MaxCrossed

\* A rendering: each read of the chain that fails leaves its zero.
Renders(r) ==
  /\ r.address = address
  /\ r.gas => address /\ eth # "none"
  /\ r.tokens => address /\ tokens

WalletInit ==
  /\ address \in BOOLEAN
  /\ eth \in {"none", "low", "enough"}
  /\ tokens \in BOOLEAN
  /\ unmined = 0
  /\ seen \in [address: BOOLEAN, gas: BOOLEAN, tokens: BOOLEAN] /\ Renders(seen)
  /\ redrawWallet = FALSE
  /\ sendState = "idle" /\ filled = FALSE
  /\ sends = [n \in Slots |-> "free"]
  /\ gasState = "idle" /\ topUp = "none"
  /\ topUps = 0 /\ unsure = 0 /\ crossed = 0

RedrawWallet ==
  /\ redrawWallet
  /\ redrawWallet' = FALSE
  /\ seen' \in [address: BOOLEAN, gas: BOOLEAN, tokens: BOOLEAN] /\ Renders(seen')
  /\ UNCHANGED <<chain, sendForm, gasForm, crossed>>

CanSend  == seen.address /\ seen.gas /\ seen.tokens
NeedsGas == seen.address /\ ~seen.gas

-----------------------------------------------------------------------------
(* Sending.                                                                *)

FillIn ==
  /\ ~filled
  /\ filled' = TRUE
  /\ UNCHANGED <<chain, walletPage, sendState, sends, gasForm, crossed>>

PressSend(n) ==
  /\ CanSend /\ sendState # "sending" /\ filled
  /\ sends[n] = "free" /\ \A k \in Slots : k < n => sends[k] # "free"
  /\ sendState' = "sending"
  /\ sends' = [sends EXCEPT ![n] = "sent"]
  /\ UNCHANGED <<chain, walletPage, filled, gasForm, crossed>>

\* sendFromWallet refuses, or has Privy sign and broadcast the transfer.
SendArrives(n) ==
  /\ sends[n] = "sent"
  /\ \E answer \in {"ok", "refused"} : sends' = [sends EXCEPT ![n] = answer]
  /\ UNCHANGED <<chain, walletPage, sendState, filled, gasForm, crossed>>

SendAnswered(n) ==
  /\ sends[n] \in {"ok", "refused"}
  /\ sends' = [sends EXCEPT ![n] = "free"]
  /\ IF sends[n] = "ok"
     THEN sendState' = "sent" /\ filled' = FALSE /\ redrawWallet' = TRUE
     ELSE sendState' = "error" /\ UNCHANGED <<filled, redrawWallet>>
  /\ UNCHANGED <<chain, seen, gasForm, crossed>>

SendLost(n) ==
  /\ sends[n] # "free"
  /\ sends' = [sends EXCEPT ![n] = "free"]
  /\ sendState' = "error"
  /\ UNCHANGED <<chain, walletPage, filled, gasForm, crossed>>

-----------------------------------------------------------------------------
(* Sponsored gas.                                                          *)

PressTopUpClearing ==
  /\ NeedsGas /\ gasState = "idle"
  /\ topUps < MaxTopUps /\ crossed < MaxCrossed
  /\ gasState' = "working" /\ sendState' = "idle"
  /\ topUp' = "asked"
  /\ UNCHANGED <<chain, walletPage, filled, sends, topUps, unsure, crossed>>

PressTopUp ==
  /\ NeedsGas /\ gasState = "idle"
  /\ topUps < MaxTopUps /\ crossed < MaxCrossed
  /\ gasState' = "working"
  /\ topUp' = "asked"
  /\ UNCHANGED <<chain, walletPage, sendForm, topUps, unsure, crossed>>

\* The route reads the balance first; it also wants a session, a sponsor and its funds.
CheckHeld ==
  /\ topUp = "asked"
  /\ \/ topUp' = "refused"
     \/ eth # "enough" /\ topUp' = "checked"
  /\ UNCHANGED <<chain, walletPage, sendForm, gasState, topUps, unsure, crossed>>

Pays ==
  /\ unmined < MaxUnmined
  /\ unmined' = unmined + 1
  /\ topUps' = topUps + 1
  /\ UNCHANGED <<address, eth, tokens>>

\* sendTransaction returns, or throws and may have broadcast all the same.
Sponsor ==
  /\ topUp = "checked"
  /\ \/ Pays /\ topUp' = "broadcast" /\ UNCHANGED unsure
     \/ Pays /\ topUp' = "refused" /\ unsure' = unsure + 1
     \/ topUp' = "refused" /\ UNCHANGED <<chain, topUps, unsure>>
  /\ UNCHANGED <<walletPage, sendForm, gasState, crossed>>

TopUpFails ==
  /\ gasState' = "idle"
  /\ sendState' = "error"
  /\ crossed' = IF sendState = "sending" THEN crossed + 1 ELSE crossed
  /\ UNCHANGED <<walletPage, filled, sends>>

SponsoredForNow == gasState' = "idle"

\* The button does not come back.
Sponsored == gasState' = "done"

TopUpAnswered ==
  /\ topUp \in {"broadcast", "refused"}
  /\ topUp' = "none"
  /\ IF topUp = "broadcast"
     THEN /\ Sponsored /\ redrawWallet' = TRUE
          /\ UNCHANGED <<seen, sendForm, crossed>>
     ELSE TopUpFails
  /\ UNCHANGED <<chain, topUps, unsure>>

\* The answer is lost, and the route may go on and pay.
TopUpLost ==
  /\ topUp # "none"
  /\ topUp' = "none"
  /\ TopUpFails
  /\ \/ /\ unsure' = IF topUp = "broadcast" THEN unsure + 1 ELSE unsure
        /\ UNCHANGED <<chain, topUps>>
     \/ /\ topUp = "checked" \/ (topUp = "asked" /\ eth # "enough")
        /\ Pays
        /\ unsure' = unsure + 1

-----------------------------------------------------------------------------
(* The chain, and everybody else.                                          *)

TopUpMined ==
  /\ unmined > 0
  /\ unmined' = unmined - 1
  /\ eth' = "enough"
  /\ UNCHANGED <<address, tokens, walletPage, sendForm, gasForm, crossed>>

\* Another tab of the same member has passed the same check.
AnotherTabTopsUp ==
  /\ address /\ eth # "enough"
  /\ unmined < MaxUnmined
  /\ unmined' = unmined + 1
  /\ UNCHANGED <<address, eth, tokens, walletPage, sendForm, gasForm, crossed>>

Balances ==
  /\ \/ address' = TRUE /\ UNCHANGED <<eth, tokens>>
     \/ tokens' = ~tokens /\ UNCHANGED <<address, eth>>
     \/ /\ \/ eth = "enough" /\ eth' = "low"
           \/ eth = "low" /\ eth' = "none"
        /\ UNCHANGED <<address, tokens>>
  /\ UNCHANGED <<unmined, walletPage, sendForm, gasForm, crossed>>

-----------------------------------------------------------------------------

WalletNext ==
  \/ RedrawWallet
  \/ FillIn
  \/ \E n \in Slots : PressSend(n) \/ SendArrives(n) \/ SendAnswered(n) \/ SendLost(n)
  \/ PressTopUp \/ CheckHeld \/ Sponsor \/ TopUpAnswered \/ TopUpLost \/ TopUpMined
  \/ AnotherTabTopsUp
  \/ Balances

WalletSpec == WalletInit /\ [][WalletNext]_walletVars

-----------------------------------------------------------------------------

UnderWay == {n \in Slots : sends[n] # "free"}

\* The form's "sending" keeps the button off, but a top-up that fails meanwhile turns it to
\* "error", and the first of two answers turns it too: each such failure lets one send more
\* be under way, and nothing else does.
OneSendPerCrossing == Cardinality(UnderWay) <= 1 + crossed

\* The sponsor pays once for a page, and once more for each payment whose hash the page was
\* not given, however often the button is pressed.
OneTopUpPerMiss == topUps <= 1 + unsure
=============================================================================
