----------------------------- MODULE WebFaucet -----------------------------
(***************************************************************************)
(* The faucet: forms in several tabs, the route that asks the contract     *)
(* before it sends, and the contract that decides when the transaction is  *)
(* mined.                                                                  *)
(***************************************************************************)
EXTENDS Naturals, Sequences

CONSTANTS
  Forms,      \* tabs with the faucet form
  Addresses,  \* where QUSD can be sent
  Treasury,   \* the address a form starts with
  Cooldown,   \* DRIP_COOLDOWN, in ticks of the block clock
  MaxNow,     \* bound: the last tick
  MaxPool     \* bound: drips waiting for a block

ASSUME FaucetAssumption ==
  /\ Treasury \in Addresses
  /\ Cooldown \in Nat \ {0}
  /\ MaxNow \in Nat \ {0}
  /\ MaxPool \in Nat

VARIABLES
  now,        \* block.timestamp
  lastDrip,   \* contract: when each address was served, 0 for never
  minted,     \* history: every time at which each address was served
  pool,       \* drips that are broadcast and not mined
  forms,      \* each form's state and the address typed into it
  routes      \* POST /api/faucet under way, one for a form at a time

faucetVars == <<now, lastDrip, minted, pool, forms, routes>>
chainVars  == <<now, lastDrip, minted, pool>>

Form  == [state: {"idle", "sending", "sent", "error"}, address: Addresses]
Route == [stage: {"none", "asked", "clear", "ok", "refused"}, to: Addresses]

FaucetTypeOK ==
  /\ now \in 1..MaxNow
  /\ lastDrip \in [Addresses -> 0..MaxNow]
  /\ minted \in [Addresses -> Seq(1..MaxNow)]
  /\ pool \in [Addresses -> 0..MaxPool]
  /\ forms \in [Forms -> Form]
  /\ routes \in [Forms -> Route]

NoRoute == [stage |-> "none", to |-> Treasury]

FaucetInit ==
  /\ now = 1
  /\ lastDrip = [a \in Addresses |-> 0]
  /\ minted = [a \in Addresses |-> <<>>]
  /\ pool = [a \in Addresses |-> 0]
  /\ forms = [f \in Forms |-> [state |-> "idle", address |-> Treasury]]
  /\ routes = [f \in Forms |-> NoRoute]

-----------------------------------------------------------------------------
(* The form.                                                               *)

FormIs(f, s) == forms' = [forms EXCEPT ![f].state = s]

TypeAddress(f, a) ==
  /\ forms[f].state # "sent"
  /\ forms' = [forms EXCEPT ![f].address = a]
  /\ UNCHANGED <<chainVars, routes>>

PressDrip(f) ==
  /\ forms[f].state \in {"idle", "error"}
  /\ FormIs(f, "sending")
  /\ routes' = [routes EXCEPT ![f] = [stage |-> "asked", to |-> forms[f].address]]
  /\ UNCHANGED chainVars

SendToAnother(f) ==
  /\ forms[f].state = "sent"
  /\ FormIs(f, "idle")
  /\ UNCHANGED <<chainVars, routes>>

DripAnswered(f) ==
  /\ routes[f].stage \in {"ok", "refused"}
  /\ FormIs(f, IF routes[f].stage = "ok" THEN "sent" ELSE "error")
  /\ routes' = [routes EXCEPT ![f] = NoRoute]
  /\ UNCHANGED chainVars

-----------------------------------------------------------------------------
(* The route.                                                              *)

DripAvailableIn(a) ==
  IF lastDrip[a] = 0 \/ now >= lastDrip[a] + Cooldown THEN 0 ELSE lastDrip[a] + Cooldown - now

RouteIs(f, s) == routes' = [routes EXCEPT ![f].stage = s]

\* The route asks how long to wait; not deployed, or no answer, is a refusal too.
AskContract(f) ==
  /\ routes[f].stage = "asked"
  /\ \/ RouteIs(f, "refused")
     \/ DripAvailableIn(routes[f].to) = 0 /\ RouteIs(f, "clear")
  /\ UNCHANGED <<chainVars, forms>>

Broadcast(a) ==
  /\ DripAvailableIn(a) = 0
  /\ pool[a] < MaxPool
  /\ pool' = [pool EXCEPT ![a] = @ + 1]

\* writeContract estimates the gas first, and so refuses what would revert by now.
SendDrip(f) ==
  /\ routes[f].stage = "clear"
  /\ \/ RouteIs(f, "refused") /\ UNCHANGED pool
     \/ RouteIs(f, "ok") /\ Broadcast(routes[f].to)
  /\ UNCHANGED <<now, lastDrip, minted, forms>>

\* The answer is lost, before the route has sent the drip or after.
DripLost(f) ==
  /\ routes[f].stage # "none"
  /\ FormIs(f, "error")
  /\ routes' = [routes EXCEPT ![f] = NoRoute]
  /\ \/ UNCHANGED pool
     \/ routes[f].stage = "clear" /\ Broadcast(routes[f].to)
  /\ UNCHANGED <<now, lastDrip, minted>>

-----------------------------------------------------------------------------
(* The chain.                                                              *)

TooSoonByATick(a) == lastDrip[a] # 0 /\ now + 1 < lastDrip[a] + Cooldown
TooSoon(a) == lastDrip[a] # 0 /\ now < lastDrip[a] + Cooldown

Drip(a) ==
  IF TooSoon(a)
  THEN UNCHANGED <<lastDrip, minted>>
  ELSE /\ lastDrip' = [lastDrip EXCEPT ![a] = now]
       /\ minted' = [minted EXCEPT ![a] = Append(@, now)]

MineDrip(a) ==
  /\ pool[a] > 0
  /\ pool' = [pool EXCEPT ![a] = @ - 1]
  /\ Drip(a)
  /\ UNCHANGED <<now, forms, routes>>

\* Anybody can call drip() and dripTo() without the app.
SomebodyDrips(a) ==
  /\ Drip(a)
  /\ UNCHANGED <<now, pool, forms, routes>>

Tick ==
  /\ now < MaxNow
  /\ now' = now + 1
  /\ UNCHANGED <<lastDrip, minted, pool, forms, routes>>

-----------------------------------------------------------------------------

FaucetNext ==
  \/ \E f \in Forms, a \in Addresses : TypeAddress(f, a)
  \/ \E f \in Forms : PressDrip(f) \/ SendToAnother(f) \/ DripAnswered(f) \/ DripLost(f)
  \/ \E f \in Forms : AskContract(f) \/ SendDrip(f)
  \/ \E a \in Addresses : MineDrip(a) \/ SomebodyDrips(a)
  \/ Tick

FaucetSpec == FaucetInit /\ [][FaucetNext]_faucetVars

-----------------------------------------------------------------------------

\* "10,000 QUSD per address, once an hour" (faucet/page.tsx:51): however many routes find
\* the wait to be over before one of their transactions is mined, an address is served
\* once in every Cooldown.
DripsAreSpaced ==
  \A a \in Addresses : \A i, j \in 1..Len(minted[a]) :
    i < j => minted[a][i] + Cooldown <= minted[a][j]
=============================================================================
