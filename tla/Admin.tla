-------------------------------- MODULE Admin --------------------------------
(***************************************************************************)
(* Who may change an org and what keeps it manageable: the Slack           *)
(* installation that founds it (server/internal/api/slack.go), the owners' *)
(* edits of tiers and roles (server/internal/api/admin.go), and the        *)
(* invoices that hold on to members and tiers.                             *)
(*                                                                         *)
(* requireOwner looks at the member row the session was loaded with; the   *)
(* statements that follow look at the tables as they are by then.  A       *)
(* handler is its reads and its write, one step each.                      *)
(***************************************************************************)
EXTENDS Naturals, FiniteSets

CONSTANTS
  Members,       \* the email addresses that may have a seat
  Roles,         \* what a seat may be, "owner" among them
  Tiers,         \* bound: the tiers there may ever be
  DefaultTiers,  \* those of them that a new org starts with
  Invoices,      \* bound: the invoices that may be filed
  Calls          \* bound: handlers that run at a time

ASSUME MembersAssumption == IsFiniteSet(Members)
ASSUME OwnerAssumption == "owner" \in Roles /\ "none" \notin Roles
ASSUME DefaultsAssumption == DefaultTiers # {} /\ DefaultTiers \subseteq Tiers

VARIABLES
  org,         \* the org's row is there
  role,        \* members: each address's role, or "none" for no seat
  tier,        \* policies: each tier is active, inactive, or "none" for no row
  invoice,     \* invoices: the submitter and tier each one refers to
  call,        \* each handler: where it is and what it knows
  overlapped,  \* history: two owners' edits ran at the same time
  founded,     \* history: the org has had an owner
  seedings     \* history: how often the default tiers were written, 2 for "again"

vars == <<org, role, tier, invoice, call, overlapped, founded, seedings>>

Unfiled == [tier |-> "none"]

Owners == {m \in Members : role[m] = "owner"}
ActiveTiers == {t \in Tiers : tier[t] = "active"}

Idle == [pc |-> "idle"]

Editing ==
  [pc: {"create"}, by: Members, active: BOOLEAN]
    \cup [pc: {"update"}, by: Members, tier: Tiers, active: BOOLEAN]
    \cup [pc: {"count tiers", "delete"}, by: Members, tier: Tiers]
    \cup [pc: {"invite", "count owners", "set role"},
          by: Members, member: Members, role: Roles]
    \cup [pc: {"remove"}, by: Members, member: Members]

Call ==
  {Idle} \cup Editing
    \cup [pc: {"create org", "read tiers", "seed owner"}, by: Members]
    \cup [pc: {"write defaults"}, by: Members, empty: BOOLEAN]
    \cup [pc: {"file"}, by: Members, tier: Tiers]

Edits(c) == call[c] \in Editing

Init ==
  /\ org = FALSE
  /\ role = [m \in Members |-> "none"]
  /\ tier = [t \in Tiers |-> "none"]
  /\ invoice = [i \in Invoices |-> Unfiled]
  /\ call = [c \in Calls |-> Idle]
  /\ overlapped = FALSE
  /\ founded = FALSE
  /\ seedings = 0

Becomes(c, state) == call' = [call EXCEPT ![c] = state]

-----------------------------------------------------------------------------
(* slackCallback: found the org, or find it there.                           *)

Install(c, m) ==
  /\ call[c] = Idle
  /\ Becomes(c, [pc |-> "create org", by |-> m])
  /\ UNCHANGED <<org, role, tier, invoice, overlapped, founded, seedings>>

InstallTx == {"read tiers", "write defaults"}

CreateOrgUnwaited(c) ==
  /\ call[c].pc = "create org"
  /\ Becomes(c, [pc |-> "read tiers", by |-> call[c].by])
  /\ UNCHANGED <<org, role, tier, invoice, overlapped, founded, seedings>>

(* CreateOrg opens the transaction: while another installation has the row   *)
(* of a new org uncommitted, the INSERT waits for it.                        *)
CreateOrg(c) ==
  /\ call[c].pc = "create org"
  /\ org \/ \A d \in Calls : call[d].pc \notin InstallTx
  /\ Becomes(c, [pc |-> "read tiers", by |-> call[c].by])
  /\ UNCHANGED <<org, role, tier, invoice, overlapped, founded, seedings>>

(* Policies reads on the pool, beside the transaction.                       *)
ReadTiers(c) ==
  /\ call[c].pc = "read tiers"
  /\ Becomes(c, [pc |-> "write defaults", by |-> call[c].by,
                 empty |-> \A t \in Tiers : tier[t] = "none"])
  /\ UNCHANGED <<org, role, tier, invoice, overlapped, founded, seedings>>

(* The org, its default tiers and the installation are committed together.   *)
WriteDefaults(c) ==
  /\ call[c].pc = "write defaults"
  /\ Becomes(c, [pc |-> "seed owner", by |-> call[c].by])
  /\ org' = TRUE
  /\ IF call[c].empty
       THEN /\ tier' = [t \in Tiers |-> IF t \in DefaultTiers THEN "active" ELSE tier[t]]
            /\ seedings' = IF seedings = 0 THEN 1 ELSE 2
       ELSE UNCHANGED <<tier, seedings>>
  /\ UNCHANGED <<role, invoice, overlapped, founded>>

(* seedInstaller, in a transaction of its own: a new seat is an owner's, one *)
(* that is there keeps its role.                                             *)
SeedOwner(c) ==
  /\ call[c].pc = "seed owner"
  /\ Becomes(c, Idle)
  /\ IF role[call[c].by] = "none"
       THEN role' = [role EXCEPT ![call[c].by] = "owner"] /\ founded' = TRUE
       ELSE UNCHANGED <<role, founded>>
  /\ UNCHANGED <<org, tier, invoice, overlapped, seedings>>

-----------------------------------------------------------------------------
(* Owners' edits.                                                            *)

(* requireOwner lets a session through whose member row says owner.          *)
StartEdit(c, state) ==
  /\ call[c] = Idle
  /\ role[state.by] = "owner"
  /\ Becomes(c, state)
  /\ overlapped' = (overlapped \/ \E d \in Calls : Edits(d))
  /\ UNCHANGED <<org, role, tier, invoice, founded, seedings>>

\* setMemberRole: only who gives up the own ownership has to leave another
\* owner behind.
StepsDown(state) == state.member = state.by /\ state.role # "owner"

\* Where an edit starts: deletePolicy with its count of the other tiers.
FirstStates ==
  {state \in Editing : /\ state.pc # "delete"
                       /\ state.pc = "count owners" => StepsDown(state)
                       /\ state.pc = "set role" => ~StepsDown(state)}

StepEdit(c, state) ==
  /\ Becomes(c, state)
  /\ UNCHANGED <<org, role, tier, invoice, overlapped, founded, seedings>>

WriteTier(c, t, value) ==
  /\ Becomes(c, Idle)
  /\ tier' = [tier EXCEPT ![t] = value]
  /\ UNCHANGED <<org, role, invoice, overlapped, founded, seedings>>

WriteRole(c, m, value) ==
  /\ Becomes(c, Idle)
  /\ role' = [role EXCEPT ![m] = value]
  /\ UNCHANGED <<org, tier, invoice, overlapped, founded, seedings>>

SwitchOff(active) == IF active THEN "active" ELSE "off"
Switch(active) == IF active THEN "active" ELSE "inactive"

CreatePolicy(c) ==
  /\ call[c].pc = "create"
  /\ \E t \in Tiers \ DefaultTiers :
       tier[t] = "none" /\ WriteTier(c, t, Switch(call[c].active))

(* UpdatePolicy writes what it is told, the last active tier or not.         *)
UpdatePolicy(c) ==
  /\ call[c].pc = "update"
  /\ IF tier[call[c].tier] # "none"
       THEN WriteTier(c, call[c].tier, Switch(call[c].active))
       ELSE StepEdit(c, Idle)

CountEveryTier(c) ==
  /\ call[c].pc = "count tiers"
  /\ StepEdit(c, IF ActiveTiers = {}
                   THEN Idle
                   ELSE [pc |-> "delete", by |-> call[c].by, tier |-> call[c].tier])

(* DeletePolicy counts the other active tiers; without one it refuses.       *)
CountTiers(c) ==
  /\ call[c].pc = "count tiers"
  /\ StepEdit(c, IF ActiveTiers \ {call[c].tier} = {}
                   THEN Idle
                   ELSE [pc |-> "delete", by |-> call[c].by, tier |-> call[c].tier])

NobodyFiled(m) == FALSE

\* An invoice refers to the tier, or to the member who filed it.
TierInUse(t) == \E i \in Invoices : invoice[i].tier = t
HasFiled(m) == \E i \in Invoices : invoice[i] # Unfiled /\ invoice[i].by = m

(* The DELETE that follows; a foreign key keeps a tier that invoices use.    *)
DeletePolicy(c) ==
  /\ call[c].pc = "delete"
  /\ IF TierInUse(call[c].tier)
       THEN StepEdit(c, Idle)
       ELSE WriteTier(c, call[c].tier, "none")

(* An invitation takes an address that has no seat; others stay as they are. *)
InviteMember(c) ==
  /\ call[c].pc = "invite"
  /\ IF role[call[c].member] = "none"
       THEN WriteRole(c, call[c].member, call[c].role)
       ELSE StepEdit(c, Idle)

Counted(c) == [pc |-> "set role", by |-> call[c].by, member |-> call[c].member,
               role |-> call[c].role]

CountAnybody(c) ==
  /\ call[c].pc = "count owners"
  /\ StepEdit(c, IF Cardinality({m \in Members : role[m] # "none"}) <= 1
                   THEN Idle ELSE Counted(c))

(* Somebody else must be an owner, or the demotion is refused.               *)
CountOwners(c) ==
  /\ call[c].pc = "count owners"
  /\ StepEdit(c, IF Cardinality(Owners) <= 1
                   THEN Idle ELSE Counted(c))

SetRole(c) ==
  /\ call[c].pc = "set role"
  /\ IF role[call[c].member] # "none"
       THEN WriteRole(c, call[c].member, call[c].role)
       ELSE StepEdit(c, Idle)

(* RemoveMember: nobody removes themselves, and a foreign key keeps who has  *)
(* filed an invoice.                                                         *)
RemoveMember(c) ==
  /\ call[c].pc = "remove"
  /\ IF call[c].member # call[c].by /\ ~HasFiled(call[c].member)
       THEN WriteRole(c, call[c].member, "none")
       ELSE StepEdit(c, Idle)

(* A query fails, the client goes away or the server dies.                   *)
CallFails(c) ==
  /\ call[c] # Idle
  /\ StepEdit(c, Idle)

-----------------------------------------------------------------------------
(* CreateInvoice: a seat's invoice is routed to a tier that is in force, and *)
(* inserted if both are still there.                                         *)

RouteInvoice(c, m) ==
  /\ call[c] = Idle
  /\ role[m] # "none"
  /\ \E t \in ActiveTiers : StepEdit(c, [pc |-> "file", by |-> m, tier |-> t])

CreateInvoice(c) ==
  /\ call[c].pc = "file"
  /\ role[call[c].by] # "none" /\ tier[call[c].tier] # "none"
  /\ \E i \in Invoices :
       /\ invoice[i] = Unfiled
       /\ invoice' = [invoice EXCEPT ![i] = [by |-> call[c].by, tier |-> call[c].tier]]
  /\ Becomes(c, Idle)
  /\ UNCHANGED <<org, role, tier, overlapped, founded, seedings>>

Next ==
  \E c \in Calls :
    \/ \E m \in Members : Install(c, m) \/ RouteInvoice(c, m)
    \/ CreateOrg(c) \/ ReadTiers(c) \/ WriteDefaults(c) \/ SeedOwner(c)
    \/ \E state \in FirstStates : StartEdit(c, state)
    \/ CreatePolicy(c) \/ UpdatePolicy(c) \/ CountTiers(c) \/ DeletePolicy(c)
    \/ InviteMember(c) \/ CountOwners(c) \/ SetRole(c)
    \/ RemoveMember(c)
    \/ CreateInvoice(c)
    \/ CallFails(c)

Spec == Init /\ [][Next]_vars

-----------------------------------------------------------------------------
TypeOK ==
  /\ org \in BOOLEAN
  /\ role \in [Members -> Roles \cup {"none"}]
  /\ tier \in [Tiers -> {"none", "active", "inactive"}]
  /\ invoice \in [Invoices -> {Unfiled} \cup [by: Members, tier: Tiers]]
  /\ call \in [Calls -> Call]
  /\ overlapped \in BOOLEAN
  /\ founded \in BOOLEAN
  /\ seedings \in 0..2

(* As long as no two owners edit at the same time, an org that had an owner  *)
(* has one: demotions and removals in any order leave somebody who can       *)
(* change the policy (admin.go's "You're the only owner").                   *)
OwnersRemain == founded /\ ~overlapped => Owners # {}

(* As long as no two owners edit at the same time, deleting a tier leaves    *)
(* one in force ("Without one, no invoice could be routed", admin.go).       *)
DeletesLeaveATier ==
  [][(\E t \in Tiers : tier[t] # "none" /\ tier'[t] = "none") /\ ~overlapped
       => \E t \in Tiers : tier'[t] = "active"]_vars

(* Installing again, or twice at once, writes the default tiers only once.   *)
DefaultsOnce == ~overlapped => seedings <= 1

(* Whatever is edited while an invoice is filed, its submitter keeps a seat  *)
(* and its tier a row ("so the audit trail stays intact", queries.go).       *)
ReferencesHold ==
  \A i \in Invoices : invoice[i] # Unfiled =>
    role[invoice[i].by] # "none" /\ tier[invoice[i].tier] # "none"

(* "CountOwners guards the last-owner case: an org with no owner can never   *)
(* have its policy changed again." (queries.go)                              *)
LastOwnerIsGuarded == founded => Owners # {}
=============================================================================
