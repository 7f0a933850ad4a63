--------------------------- MODULE WebMoneyProofs ---------------------------
(***************************************************************************)
(* Proofs about the wallet page, the export of its key, and the faucet.    *)
(*                                                                         *)
(* Sending: the form lets go of the sends under way one at a time, by      *)
(* their answers or by a top-up that fails, and is in "sending" for one    *)
(* more at most.  Topping up: a top-up is one the page was told of, which  *)
(* ends its button, or one it was not.  Dripping: nothing an address was   *)
(* minted is later than what the contract remembers of it.                 *)
(***************************************************************************)
EXTENDS WebWallet, WebFaucet, WebExportKey, FiniteSetTheorems, TLAPS

-----------------------------------------------------------------------------
(* The wallet page.                                                        *)

SendsAreCounted ==
  Cardinality(UnderWay) <= crossed + (IF sendState = "sending" THEN 1 ELSE 0)

\* A top-up under way is at work, and there is room for what it may still add.
TopUpIsWork ==
  topUp # "none" =>
    /\ gasState = "working" /\ crossed < MaxCrossed
    /\ topUp \in {"asked", "checked"} => topUps < MaxTopUps

TopUpsAreCounted ==
  topUps = IF gasState = "done" \/ topUp = "broadcast" THEN unsure + 1 ELSE unsure

WalletInv == WalletTypeOK /\ SendsAreCounted /\ TopUpIsWork /\ TopUpsAreCounted

LEMMA UnderWayIsFinite == IsFiniteSet(UnderWay) /\ Cardinality(UnderWay) \in Nat
<1>1. UnderWay \subseteq Slots
  BY DEF UnderWay
<1> QED
  BY <1>1, WalletAssumption, FS_Subset, FS_CardinalityType

LEMMA WalletInitInv == WalletInit => WalletInv
<1> SUFFICES ASSUME WalletInit PROVE WalletInv
  OBVIOUS
<1>1. WalletTypeOK
  <2>1. /\ unmined \in 0..MaxUnmined
        /\ topUps \in 0..MaxTopUps /\ unsure \in 0..MaxTopUps /\ crossed \in 0..MaxCrossed
    BY WalletAssumption DEF WalletInit
  <2>2. sends \in [Slots -> InFlight \cup {"free"}]
    BY DEF WalletInit
  <2>3. redrawWallet \in BOOLEAN /\ filled \in BOOLEAN
    BY DEF WalletInit
  <2> QED
    BY <2>1, <2>2, <2>3 DEF WalletInit, WalletTypeOK
<1>2. SendsAreCounted
  <2>1. UnderWay = {}
    BY DEF WalletInit, UnderWay
  <2> QED
    BY <2>1, FS_EmptySet DEF WalletInit, SendsAreCounted
<1>3. TopUpIsWork /\ TopUpsAreCounted
  BY DEF WalletInit, TopUpIsWork, TopUpsAreCounted
<1> QED
  BY <1>1, <1>2, <1>3 DEF WalletInv

\* A step of the send form keeps the sponsor's side as it is.
LEMMA SendInv ==
  ASSUME WalletInv, NEW n \in Slots,
         PressSend(n) \/ SendArrives(n) \/ SendAnswered(n) \/ SendLost(n)
  PROVE  WalletInv'
<1> USE DEF WalletInv
<1>1. UNCHANGED <<chain, gasForm, crossed, seen>>
  BY DEF PressSend, SendArrives, SendAnswered, SendLost, walletPage
<1>2. TopUpIsWork' /\ TopUpsAreCounted'
  BY <1>1 DEF gasForm, TopUpIsWork, TopUpsAreCounted
<1>3. WalletTypeOK'
  <2>1. /\ sends' \in [Slots -> InFlight \cup {"free"}]
        /\ sendState' \in {"idle", "sending", "sent", "error"}
        /\ filled' \in BOOLEAN /\ redrawWallet' \in BOOLEAN
    BY DEF PressSend, SendArrives, SendAnswered, SendLost, WalletTypeOK, InFlight, walletPage
  <2> QED
    BY <1>1, <2>1 DEF WalletTypeOK, chain, gasForm
<1>4. SendsAreCounted'
  <2>0. crossed \in Nat /\ crossed' = crossed /\ IsFiniteSet(UnderWay) /\ Cardinality(UnderWay) \in Nat
    BY <1>1, UnderWayIsFinite, WalletAssumption DEF WalletTypeOK
  <2>1. CASE PressSend(n)
    <3>1. UnderWay' = UnderWay \cup {n} /\ n \notin UnderWay
      BY <2>1 DEF PressSend, UnderWay, WalletTypeOK
    <3>2. Cardinality(UnderWay') = Cardinality(UnderWay) + 1
      BY <2>0, <3>1, FS_AddElement
    <3> QED
      BY <2>0, <2>1, <3>2 DEF PressSend, SendsAreCounted
  <2>2. CASE SendArrives(n)
    <3>1. UnderWay' = UnderWay
      BY <2>2 DEF SendArrives, UnderWay, WalletTypeOK
    <3> QED
      BY <2>0, <2>2, <3>1 DEF SendArrives, SendsAreCounted
  <2>3. CASE SendAnswered(n) \/ SendLost(n)
    <3>1. UnderWay' = UnderWay \ {n} /\ n \in UnderWay
      BY <2>3 DEF SendAnswered, SendLost, UnderWay, WalletTypeOK
    <3>2. Cardinality(UnderWay') = Cardinality(UnderWay) - 1
      BY <2>0, <3>1, FS_RemoveElement
    <3> QED
      BY <2>0, <3>2 DEF SendsAreCounted
  <2> QED
    BY <2>1, <2>2, <2>3
<1> QED
  BY <1>2, <1>3, <1>4

\* A failed top-up turns the form's state, and counts when a send was under way.
LEMMA FailureIsCounted ==
  ASSUME WalletInv, TopUpFails, topUp # "none"
  PROVE  SendsAreCounted' /\ crossed' \in 0..MaxCrossed
<1>1. UnderWay' = UnderWay /\ Cardinality(UnderWay) \in Nat /\ crossed \in 0..MaxCrossed
  BY UnderWayIsFinite DEF TopUpFails, UnderWay, WalletInv, WalletTypeOK
<1>2. crossed < MaxCrossed /\ MaxCrossed \in Nat
  BY WalletAssumption DEF WalletInv, TopUpIsWork
<1> QED
  BY <1>1, <1>2 DEF WalletInv, TopUpFails, SendsAreCounted

LEMMA TopUpInv ==
  ASSUME WalletInv, PressTopUp \/ CheckHeld \/ Sponsor \/ TopUpAnswered \/ TopUpLost
  PROVE  WalletInv'
<1> USE WalletAssumption DEF WalletInv
<1>0. topUps \in Nat /\ unsure \in Nat /\ crossed \in Nat
  BY DEF WalletTypeOK
<1>a. ASSUME UNCHANGED <<sendForm, crossed>> PROVE SendsAreCounted'
  BY <1>a DEF SendsAreCounted, UnderWay, sendForm
<1>1. CASE PressTopUp
  <2>1. WalletTypeOK' /\ TopUpIsWork'
    BY <1>1 DEF PressTopUp, WalletTypeOK, TopUpIsWork, chain, walletPage, sendForm
  <2>2. TopUpsAreCounted'
    BY <1>1 DEF PressTopUp, TopUpIsWork, TopUpsAreCounted
  <2> QED
    BY <1>1, <1>a, <2>1, <2>2 DEF PressTopUp
<1>2. CASE CheckHeld
  <2>1. WalletTypeOK' /\ TopUpIsWork'
    BY <1>2 DEF CheckHeld, WalletTypeOK, TopUpIsWork, chain, walletPage, sendForm
  <2>2. TopUpsAreCounted'
    BY <1>2 DEF CheckHeld, TopUpsAreCounted
  <2> QED
    BY <1>2, <1>a, <2>1, <2>2 DEF CheckHeld
<1>3. CASE Sponsor
  <2>1. gasState = "working" /\ crossed < MaxCrossed /\ topUp = "checked"
        /\ topUps < MaxTopUps /\ topUps = unsure
    BY <1>3, <1>0 DEF Sponsor, TopUpIsWork, TopUpsAreCounted
  <2>2. /\ UNCHANGED <<address, eth, tokens, gasState, crossed>>
        /\ UNCHANGED <<seen, redrawWallet, sendState, filled, sends>>
        /\ topUp' \in {"broadcast", "refused"} /\ unmined' \in 0..MaxUnmined
    BY <1>3 DEF Sponsor, Pays, WalletTypeOK, chain, walletPage, sendForm
  <2>3. \/ topUps' = topUps + 1 /\ unsure' = unsure /\ topUp' = "broadcast"
        \/ topUps' = topUps + 1 /\ unsure' = unsure + 1 /\ topUp' = "refused"
        \/ topUps' = topUps /\ unsure' = unsure /\ topUp' = "refused"
    BY <1>3 DEF Sponsor, Pays
  <2>4. topUps' \in 0..MaxTopUps /\ unsure' \in 0..MaxTopUps
    BY <1>0, <2>1, <2>3
  <2>5. WalletTypeOK'
    BY <2>2, <2>4 DEF WalletTypeOK
  <2>6. TopUpsAreCounted' /\ TopUpIsWork'
    BY <1>0, <2>1, <2>2, <2>3 DEF TopUpsAreCounted, TopUpIsWork
  <2> QED
    BY <1>a, <2>2, <2>5, <2>6 DEF sendForm
<1>4. CASE TopUpAnswered
  <2>1. CASE topUp = "broadcast"
    <3>1. gasState' = "done" /\ topUp' = "none" /\ redrawWallet' = TRUE
      BY <1>4, <2>1 DEF TopUpAnswered, Sponsored
    <3>2. UNCHANGED <<chain, seen, sendForm, crossed, topUps, unsure>>
      BY <1>4, <2>1 DEF TopUpAnswered
    <3>3. WalletTypeOK'
      BY <3>1, <3>2 DEF WalletTypeOK, chain, sendForm
    <3> QED
      BY <1>a, <2>1, <3>1, <3>2, <3>3 DEF TopUpIsWork, TopUpsAreCounted
  <2>2. CASE topUp = "refused"
    <3>1. TopUpFails /\ topUp' = "none" /\ UNCHANGED <<chain, topUps, unsure>>
      BY <1>4, <2>2 DEF TopUpAnswered
    <3>2. WalletTypeOK'
      BY <2>2, <3>1, FailureIsCounted DEF TopUpFails, WalletTypeOK, chain, walletPage
    <3>3. TopUpsAreCounted' /\ TopUpIsWork'
      BY <2>2, <3>1 DEF TopUpFails, TopUpsAreCounted, TopUpIsWork
    <3> QED
      BY <2>2, <3>1, <3>2, <3>3, FailureIsCounted
  <2> QED
    BY <1>4, <2>1, <2>2 DEF TopUpAnswered
<1>5. CASE TopUpLost
  <2>1. TopUpFails /\ topUp # "none" /\ topUp' = "none" /\ gasState = "working"
        /\ gasState' = "idle"
    BY <1>5 DEF TopUpLost, TopUpIsWork, TopUpFails
  <2>2. \/ topUp = "broadcast" /\ topUps' = topUps /\ unsure' = unsure + 1
        \/ topUp # "broadcast" /\ topUps' = topUps /\ unsure' = unsure
        \/ /\ topUp \in {"asked", "checked"}
           /\ topUps' = topUps + 1 /\ unsure' = unsure + 1
    BY <1>5 DEF TopUpLost, Pays
  <2>3. topUps = IF topUp = "broadcast" THEN unsure + 1 ELSE unsure
    BY <2>1 DEF TopUpsAreCounted
  <2>4. topUps' = unsure' /\ topUps' \in 0..MaxTopUps
    BY <1>0, <2>1, <2>2, <2>3 DEF TopUpIsWork, WalletTypeOK
  <2>5. unmined' \in 0..MaxUnmined /\ UNCHANGED <<address, eth, tokens>>
    BY <1>5 DEF TopUpLost, Pays, WalletTypeOK, chain
  <2>6. WalletTypeOK'
    BY <2>1, <2>4, <2>5, FailureIsCounted DEF TopUpFails, WalletTypeOK, walletPage
  <2>7. TopUpsAreCounted' /\ TopUpIsWork'
    BY <2>1, <2>4 DEF TopUpsAreCounted, TopUpIsWork
  <2> QED
    BY <2>1, <2>6, <2>7, FailureIsCounted
<1> QED
  BY <1>1, <1>2, <1>3, <1>4, <1>5

LEMMA WalletStepInv == WalletInv /\ [WalletNext]_walletVars => WalletInv'
<1> SUFFICES ASSUME WalletInv, [WalletNext]_walletVars PROVE WalletInv'
  OBVIOUS
<1> USE DEF WalletInv
<1>1. ASSUME UNCHANGED <<sendForm, gasForm, crossed>>, WalletTypeOK' PROVE WalletInv'
  BY <1>1 DEF SendsAreCounted, UnderWay, TopUpIsWork, TopUpsAreCounted, sendForm, gasForm
<1>2. CASE RedrawWallet
  <2>1. /\ UNCHANGED <<chain, sendForm, gasForm, crossed>>
        /\ redrawWallet' \in BOOLEAN
        /\ seen' \in [address: BOOLEAN, gas: BOOLEAN, tokens: BOOLEAN]
    BY <1>2 DEF RedrawWallet
  <2>2. WalletTypeOK'
    BY <2>1 DEF WalletTypeOK, chain, sendForm, gasForm
  <2> QED
    BY <1>1, <2>1, <2>2
<1>3. CASE FillIn
  BY <1>3 DEF FillIn, WalletTypeOK, SendsAreCounted, UnderWay, TopUpIsWork, TopUpsAreCounted,
              chain, walletPage, gasForm
<1>4. ASSUME NEW n \in Slots,
             PressSend(n) \/ SendArrives(n) \/ SendAnswered(n) \/ SendLost(n)
      PROVE  WalletInv'
  BY <1>4, SendInv
<1>5. CASE PressTopUp \/ CheckHeld \/ Sponsor \/ TopUpAnswered \/ TopUpLost
  BY <1>5, TopUpInv
<1>6. CASE TopUpMined \/ AnotherTabTopsUp \/ Balances
  <2>1. unmined' \in 0..MaxUnmined
    BY <1>6, WalletAssumption DEF TopUpMined, AnotherTabTopsUp, Balances, WalletTypeOK
  <2>2. eth' \in {"none", "low", "enough"} /\ address' \in BOOLEAN /\ tokens' \in BOOLEAN
    BY <1>6 DEF TopUpMined, AnotherTabTopsUp, Balances, WalletTypeOK
  <2>3. UNCHANGED <<walletPage, sendForm, gasForm, crossed>>
    BY <1>6 DEF TopUpMined, AnotherTabTopsUp, Balances
  <2>4. WalletTypeOK'
    BY <2>1, <2>2, <2>3 DEF WalletTypeOK, walletPage, sendForm, gasForm
  <2> QED
    BY <1>1, <2>3, <2>4
<1>7. CASE UNCHANGED walletVars
  BY <1>1, <1>7 DEF walletVars, WalletTypeOK, chain, walletPage, sendForm, gasForm
<1> QED
  BY <1>2, <1>3, <1>4, <1>5, <1>6, <1>7 DEF WalletNext

LEMMA WalletInvHolds == WalletSpec => []WalletInv
BY WalletInitInv, WalletStepInv, PTL DEF WalletSpec

\* The wallet page's variables keep their types (wallet-actions.tsx).
THEOREM WalletTypeCorrect == WalletSpec => []WalletTypeOK
BY WalletInvHolds, PTL DEF WalletInv

LEMMA WalletIsBounded == WalletInv => OneSendPerCrossing /\ OneTopUpPerMiss
<1> SUFFICES ASSUME WalletInv PROVE OneSendPerCrossing /\ OneTopUpPerMiss
  OBVIOUS
<1>1. crossed \in Nat /\ unsure \in Nat /\ topUps \in Nat /\ Cardinality(UnderWay) \in Nat
  BY UnderWayIsFinite, WalletAssumption DEF WalletInv, WalletTypeOK
<1> QED
  BY <1>1 DEF WalletInv, SendsAreCounted, OneSendPerCrossing, TopUpsAreCounted, OneTopUpPerMiss

\* As many sends of one page are under way as top-ups failed during one, and one more, for
\* any number of sends and failures (wallet-actions.tsx:31-88).
THEOREM SendsAreBounded == WalletSpec => []OneSendPerCrossing
BY WalletInvHolds, WalletIsBounded, PTL

\* A page is paid for once, and once more for each payment it was not told of, however
\* many other tabs of the member ask as well (wallet-actions.tsx:31-50,
\* api/wallet/gas/route.ts:52-79).
THEOREM TopUpsAreBounded == WalletSpec => []OneTopUpPerMiss
BY WalletInvHolds, WalletIsBounded, PTL

-----------------------------------------------------------------------------
(* The faucet.                                                             *)

\* What the contract remembers of an address is the last time it was served.
LastIsLatest ==
  \A a \in Addresses :
    /\ lastDrip[a] = 0 => minted[a] = <<>>
    /\ \A i \in 1..Len(minted[a]) : minted[a][i] <= lastDrip[a]

FaucetInv == FaucetTypeOK /\ LastIsLatest /\ DripsAreSpaced

LEMMA FaucetInitInv == FaucetInit => FaucetInv
<1> SUFFICES ASSUME FaucetInit PROVE FaucetInv
  OBVIOUS
<1>1. FaucetTypeOK
  BY FaucetAssumption DEF FaucetInit, FaucetTypeOK, Form, Route, NoRoute
<1>2. LastIsLatest /\ DripsAreSpaced
  BY DEF FaucetInit, LastIsLatest, DripsAreSpaced
<1> QED
  BY <1>1, <1>2 DEF FaucetInv

LEMMA DripInv ==
  ASSUME FaucetInv, NEW a \in Addresses, Drip(a), UNCHANGED <<now, forms, routes>>,
         pool' \in [Addresses -> 0..MaxPool]
  PROVE  FaucetInv'
<1> USE FaucetAssumption DEF FaucetInv
<1>1. CASE TooSoon(a)
  BY <1>1 DEF Drip, FaucetTypeOK, LastIsLatest, DripsAreSpaced
<1>2. CASE ~TooSoon(a)
  <2>1. /\ lastDrip' = [lastDrip EXCEPT ![a] = now]
        /\ minted' = [minted EXCEPT ![a] = Append(minted[a], now)]
    BY <1>2 DEF Drip
  <2>2. /\ minted[a] \in Seq(1..MaxNow) /\ now \in 1..MaxNow
        /\ Append(minted[a], now) \in Seq(1..MaxNow)
    BY DEF FaucetTypeOK
  <2>3. FaucetTypeOK'
    BY <2>1, <2>2 DEF FaucetTypeOK
  <2>4. \A i \in 1..Len(minted[a]) :
          minted[a][i] \in 1..MaxNow /\ minted[a][i] + Cooldown <= now
    <3>1. \A i \in 1..Len(minted[a]) : minted[a][i] \in 1..MaxNow
      BY <2>2
    <3>2. CASE lastDrip[a] = 0
      BY <3>2 DEF LastIsLatest
    <3>3. CASE lastDrip[a] # 0
      <4>1. lastDrip[a] \in Nat /\ now \in Nat /\ lastDrip[a] + Cooldown <= now
        BY <1>2, <2>2, <3>3 DEF TooSoon, FaucetTypeOK
      <4> QED
        BY <3>1, <4>1 DEF LastIsLatest
    <3> QED
      BY <3>1, <3>2, <3>3
  <2>5. /\ lastDrip'[a] = now /\ now # 0
        /\ Len(minted'[a]) = Len(minted[a]) + 1 /\ Len(minted[a]) \in Nat
        /\ minted'[a][Len(minted[a]) + 1] = now
        /\ \A i \in 1..Len(minted[a]) : minted'[a][i] = minted[a][i]
    BY <2>1, <2>2 DEF FaucetTypeOK
  <2>6. \A i \in 1..Len(minted'[a]) :
          i \in 1..Len(minted[a]) \/ i = Len(minted[a]) + 1
    BY <2>5
  <2>7. \A b \in Addresses : b # a => lastDrip'[b] = lastDrip[b] /\ minted'[b] = minted[b]
    BY <2>1 DEF FaucetTypeOK
  <2>8. LastIsLatest'
    <3>1. \A i \in 1..Len(minted[a]) : minted[a][i] <= now
      BY <2>2, <2>4
    <3>2. \A i \in 1..Len(minted'[a]) : minted'[a][i] <= lastDrip'[a]
      <4> SUFFICES ASSUME NEW i \in 1..Len(minted'[a]) PROVE minted'[a][i] <= now
        BY <2>5
      <4>1. CASE i \in 1..Len(minted[a])
        BY <2>5, <3>1, <4>1
      <4>2. CASE i = Len(minted[a]) + 1
        BY <2>2, <2>5, <4>2
      <4> QED
        BY <2>6, <4>1, <4>2
    <3> QED
      BY <2>5, <2>7, <3>2 DEF LastIsLatest
  <2>9. DripsAreSpaced'
    <3>1. \A i, j \in 1..Len(minted'[a]) :
            i < j => minted'[a][i] + Cooldown <= minted'[a][j]
      <4> SUFFICES ASSUME NEW i \in 1..Len(minted'[a]), NEW j \in 1..Len(minted'[a]), i < j
                   PROVE  minted'[a][i] + Cooldown <= minted'[a][j]
        OBVIOUS
      <4>1. i \in 1..Len(minted[a])
        BY <2>5, <2>6
      <4>2. CASE j = Len(minted[a]) + 1
        BY <2>4, <2>5, <4>1, <4>2
      <4>3. CASE j \in 1..Len(minted[a])
        BY <2>5, <4>1, <4>3 DEF DripsAreSpaced
      <4> QED
        BY <2>6, <4>2, <4>3
    <3> QED
      BY <2>7, <3>1 DEF DripsAreSpaced
  <2> QED
    BY <2>3, <2>8, <2>9
<1> QED
  BY <1>1, <1>2

LEMMA BroadcastType ==
  ASSUME FaucetTypeOK, NEW a \in Addresses, Broadcast(a) \/ UNCHANGED pool
  PROVE  pool' \in [Addresses -> 0..MaxPool]
<1>1. pool \in [Addresses -> 0..MaxPool] /\ MaxPool \in Nat
  BY FaucetAssumption DEF FaucetTypeOK
<1>2. CASE Broadcast(a)
  <2>1. pool[a] + 1 \in 0..MaxPool
    BY <1>1, <1>2 DEF Broadcast
  <2> QED
    BY <1>1, <1>2, <2>1 DEF Broadcast
<1> QED
  BY <1>1, <1>2

LEMMA FormIsType ==
  ASSUME FaucetTypeOK, NEW f \in Forms, NEW s \in {"idle", "sending", "sent", "error"},
         FormIs(f, s)
  PROVE  forms' \in [Forms -> Form]
<1>1. [forms[f] EXCEPT !.state = s] \in Form
  BY DEF FaucetTypeOK, Form
<1> QED
  BY <1>1 DEF FaucetTypeOK, FormIs

LEMMA RouteIsType ==
  ASSUME FaucetTypeOK, NEW f \in Forms,
         NEW s \in {"none", "asked", "clear", "ok", "refused"}, RouteIs(f, s)
  PROVE  routes' \in [Forms -> Route]
<1>1. [routes[f] EXCEPT !.stage = s] \in Route
  BY DEF FaucetTypeOK, Route
<1> QED
  BY <1>1 DEF FaucetTypeOK, RouteIs

LEMMA FaucetStepInv == FaucetInv /\ [FaucetNext]_faucetVars => FaucetInv'
<1> SUFFICES ASSUME FaucetInv, [FaucetNext]_faucetVars PROVE FaucetInv'
  OBVIOUS
<1>0. FaucetTypeOK
  BY DEF FaucetInv
<1> USE FaucetAssumption
<1>1. ASSUME UNCHANGED <<lastDrip, minted>>, FaucetTypeOK' PROVE FaucetInv'
  BY <1>1 DEF FaucetInv, LastIsLatest, DripsAreSpaced
<1>2. ASSUME NEW f \in Forms, NEW a \in Addresses, TypeAddress(f, a) PROVE FaucetInv'
  BY <1>0, <1>1, <1>2 DEF TypeAddress, FaucetTypeOK, chainVars, Form
<1>3. ASSUME NEW f \in Forms, PressDrip(f) \/ SendToAnother(f) \/ DripAnswered(f)
      PROVE  FaucetInv'
  <2>1. forms' \in [Forms -> Form] /\ UNCHANGED chainVars
    BY <1>0, <1>3, FormIsType DEF PressDrip, SendToAnother, DripAnswered
  <2>2. NoRoute \in Route /\ [stage |-> "asked", to |-> forms[f].address] \in Route
    BY <1>0 DEF FaucetTypeOK, Form, Route, NoRoute
  <2>3. routes' \in [Forms -> Route]
    BY <1>0, <1>3, <2>2 DEF PressDrip, SendToAnother, DripAnswered, FaucetTypeOK
  <2> QED
    BY <1>0, <1>1, <2>1, <2>3 DEF FaucetTypeOK, chainVars
<1>4. ASSUME NEW f \in Forms, AskContract(f) \/ SendDrip(f) \/ DripLost(f) PROVE FaucetInv'
  <2>1. routes[f].to \in Addresses
    BY <1>0 DEF FaucetTypeOK, Route
  <2>2. pool' \in [Addresses -> 0..MaxPool]
    BY <1>0, <1>4, <2>1, BroadcastType DEF AskContract, SendDrip, DripLost, chainVars
  <2>3. forms' \in [Forms -> Form]
    BY <1>0, <1>4, FormIsType DEF AskContract, SendDrip, DripLost, FaucetTypeOK
  <2>4. NoRoute \in Route
    BY DEF Route, NoRoute
  <2>5. routes' \in [Forms -> Route]
    <3>1. CASE AskContract(f) \/ SendDrip(f)
      BY <1>0, <3>1, RouteIsType DEF AskContract, SendDrip
    <3>2. CASE DripLost(f)
      BY <1>0, <2>4, <3>2 DEF DripLost, FaucetTypeOK
    <3> QED
      BY <1>4, <3>1, <3>2
  <2>6. UNCHANGED <<now, lastDrip, minted>>
    BY <1>4 DEF AskContract, SendDrip, DripLost, chainVars
  <2> QED
    BY <1>0, <1>1, <2>2, <2>3, <2>6, <2>5 DEF FaucetTypeOK
<1>5. ASSUME NEW a \in Addresses, MineDrip(a) \/ SomebodyDrips(a) PROVE FaucetInv'
  <2>1. pool \in [Addresses -> 0..MaxPool] /\ MaxPool \in Nat
    BY <1>0 DEF FaucetTypeOK
  <2>2. pool[a] > 0 => pool[a] - 1 \in 0..MaxPool
    BY <2>1
  <2>3. pool' \in [Addresses -> 0..MaxPool]
    BY <1>5, <2>1, <2>2 DEF MineDrip, SomebodyDrips
  <2> QED
    BY <1>5, <2>3, DripInv DEF MineDrip, SomebodyDrips
<1>6. CASE Tick
  BY <1>0, <1>1, <1>6 DEF Tick, FaucetTypeOK
<1>7. CASE UNCHANGED faucetVars
  BY <1>0, <1>1, <1>7 DEF faucetVars, FaucetTypeOK
<1> QED
  BY <1>2, <1>3, <1>4, <1>5, <1>6, <1>7 DEF FaucetNext

LEMMA FaucetInvHolds == FaucetSpec => []FaucetInv
BY FaucetInitInv, FaucetStepInv, PTL DEF FaucetSpec

\* The faucet's variables keep their types (faucet-form.tsx, api/faucet/route.ts).
THEOREM FaucetTypeCorrect == FaucetSpec => []FaucetTypeOK
BY FaucetInvHolds, PTL DEF FaucetInv

\* An address is served once in every Cooldown, whatever the cooldown, the number of
\* tabs, and the number of drips waiting for a block (QuorlyUSD.sol:95-103).
THEOREM DripsAreApart == FaucetSpec => []DripsAreSpaced
BY FaucetInvHolds, PTL DEF FaucetInv

-----------------------------------------------------------------------------
(* The export of the key.                                                  *)

KeyInv ==
  /\ ExportTypeOK /\ KeyIsHeldBack
  /\ visible => exporting = "shown"
  /\ export # "none" => exporting = "working"

LEMMA KeyInitInv == ExportInit => KeyInv
BY DEF ExportInit, KeyInv, ExportTypeOK, KeyIsHeldBack

LEMMA KeyStepInv == KeyInv /\ [ExportNext]_exportVars => KeyInv'
<1> SUFFICES ASSUME KeyInv, [ExportNext]_exportVars PROVE KeyInv'
  OBVIOUS
<1> USE DEF KeyInv, ExportTypeOK, KeyIsHeldBack
<1>1. CASE AskExport \/ CancelExport \/ Run
  BY <1>1 DEF AskExport, CancelExport, Run
<1>2. CASE ExportArrives
  BY <1>2 DEF ExportArrives
<1>3. CASE ExportEnds
  <2>1. exporting = "working" /\ ~visible /\ ~keyHeld
    BY <1>3 DEF ExportEnds
  <2>2. CASE exporting' = "shown" /\ keyHeld' = TRUE /\ revealed' = FALSE
    BY <1>3, <2>1, <2>2 DEF ExportEnds
  <2>3. CASE exporting' = "error" /\ UNCHANGED <<keyHeld, revealed>>
    BY <1>3, <2>1, <2>3 DEF ExportEnds
  <2> QED
    BY <1>3, <2>2, <2>3 DEF ExportEnds
<1>4. CASE Reveal
  BY <1>4 DEF Reveal
<1>5. CASE CopyKey
  BY <1>5 DEF CopyKey
<1>6. CASE Hide
  BY <1>6 DEF Hide
<1>7. CASE UNCHANGED exportVars
  BY <1>7 DEF exportVars
<1> QED
  BY <1>1, <1>2, <1>3, <1>4, <1>5, <1>6, <1>7 DEF ExportNext

\* No key is in memory or in the clear that was not asked for, however many keys are
\* taken out one after the other (export-key.tsx:22-90).
THEOREM KeysAreHeldBack == ExportSpec => []KeyIsHeldBack
<1>1. KeyInv => KeyIsHeldBack
  BY DEF KeyInv
<1> QED
  BY <1>1, KeyInitInv, KeyStepInv, PTL DEF ExportSpec
=============================================================================
