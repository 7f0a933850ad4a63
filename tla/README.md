# A TLA+ model of Quorly

Quorly takes invoices from Slack or the web, routes each one to the approvers its
amount asks for, and pays it from a treasury wallet once enough of them agree. This
directory holds TLA+ modules of the parts where that can go wrong in ways a test hardly
reaches, the TLC configurations that check them on small instances, and proofs of the
most important properties, checked by TLAPS, for instances of every size.

Paths below are relative to `src/server/internal/` unless they begin with `src/`.

## The system and its parts

| Component | State it keeps | Operations | What makes it correct |
|---|---|---|---|
| Job queue (`queue/`, `migrations/0002`) | the `jobs` table: status, attempts, run_at, lease | enqueue, claim, complete, reschedule, fail | one worker per job, nothing dropped early, everything settled in the end |
| Worker pool (`worker/`) | goroutines and the job each holds | claim as much as there is room for, run, settle | no handler outlives its lease, nothing leased lies idle |
| Policy engine (`policy/`) | none | Select, Route, Gate | a requirement that can be met, no self-approval |
| Approval service (`service/approvals.go`) | `invoices.status`, `approvals` | CreateInvoice, Decide | quorum on the record, outbox row with it, decisions final |
| Payout worker (`service/payout.go`) | none of its own | handlePayout, handleNotify | pays once, never unbacked |
| Attestations (`service/approvals.go`, `worldid/`) | `world_challenges`, `attestations` | worldContext, RecordAttestation | one use per challenge, fresh proof per approval |
| Administration (`api/admin.go`, `api/slack.go`) | `orgs`, `policies`, `members` | install; create, update, delete a tier; invite, promote, remove a member | always an owner, always a tier in force, nothing an invoice refers to goes away |
| Wallets (`service/wallets.go`, `privy/policy.go`) | wallet columns, the enclave's rule set | Ensure, SyncPayeeAllowlist | the allowlist follows the roster |
| Slack app (`slackapp/`) | installations | events, buttons, fan-out, notifications | one invoice per message, approvers told |
| Token (`src/contracts/src/QuorlyUSD.sol`) | balances, allowances, drips | transfer, approve, transferFrom, drip, mint | sum of balances is the supply, cooldown |
| Web: sign-in (`components/quorly/auth.tsx`, `app/login/`, `nav-user.tsx`) | Privy's session in the tab, the hook's `sync` | sync, claim a seat, redirect, sign out | nobody left on a page they are not signed in to, or at the door |
| Web: Selfie Check (`components/quorly/selfie-check.tsx`) | the check's state, IDKit's widget | submit, settle, refresh | "Approved" is true, and shown |
| Web: policy and team pages (`app/dashboard/policy/`, `team/`) | forms, busy marks, a rendering of the server's rows | open, save, delete, invite, refresh | no form under another row, no stale rendering, no dead row |
| Web: invoice lists (`app/dashboard/invoices/`, `payments/`, `page.tsx`) | a rendering of the invoices, the dialog | file, list, refresh | nothing filed stays unseen |
| Web: wallet, faucet, key export (`app/dashboard/wallet/`, `faucet/`, `app/api/`) | forms, requests, balances as rendered | send, sponsor gas, drip, export | nothing sent or sponsored twice, a cooldown, a key only on request |
| API, auth, config, money, ids, AI, web presentation, CLI | - | glue and presentation | - |

Web paths are relative to `src/apps/web/src/`.

The server's parts meet in Postgres. A Slack handler or an HTTP handler calls `Decide`, which
reads through the connection pool first and then writes in one transaction: the
approval, the invoice's status and the payout job. The pool of the same process (or of
another one) polls the jobs table, runs `handlePayout`, and that asks Privy to sign and
broadcast. All that any two of them share are rows; there are no locks in memory. So
the hard behaviours are those of the database: READ COMMITTED transactions that do not
see each other, waits on unique indexes and row locks, values read before a transaction
and used in it, leases that lapse under a slow worker, and crashes between a transfer
and its record. The web app is a rendering of the server's rows with client components in
it; its hard behaviours are those of one browser tab with requests under way: an answer
that comes after the dialog was closed, another one opened or the page left, one that
never comes, and a rendering that is older than what the tab already knows. `PROJECT.json`
lists every such hazard at the line where it bites.

## The modules

**JobQueue** is the queue and the pools. `job[j]` is the row of one idempotency key,
`run[s]` one goroutine with the `queue.Job` the claim gave it. Time enters as the two
comparisons the claim makes: `due` (run_at has come) and `leased` (leased_until has
not). `Claim` is the one UPDATE statement, for as many rows as the pool has room for;
`HandlerReturns` and `NoHandler` are `Pool.run` up to its verdict; `Complete`,
`Reschedule` and `Fail` are the settle statements, which go by the job's id alone.
Failures are steps: `Crash`, `ClaimIsLost` (the UPDATE commits, its answer does not
arrive), `SettleIsLost`, and `Stalls`, after which a lease may lapse although the goroutine
has not settled. `Stallable` says where that may happen: in the settle write, which has no
deadline, and in the handler, whose deadline is ten seconds before the end of the lease but
starts with the claim's answer, not with its UPDATE, and stops only a handler that heeds it.

**PolicyRouting** has the policy engine's functions as operators: `Select`, `Eligible`,
`RequiredApprovals` and `Gate`. Tiers with the same ceiling are sorted by an unstable
sort, so `Select` is a set.

**Approvals** composes routing, deciding and paying for one invoice. A `Decide` call
`req[r]` moves through its queries one by one (policies, members, proof, then the
transaction: gate, insert, count, flip, enqueue, commit), and another call, a roster
change or a worker may move in between. A transaction's writes stay in `req[r]` until a
`Commit...` action; `HasRow` and `HoldsInvoice` say which index entries and row locks
it holds, and `Insert`, `Flip` and the worker's `PayoutMark` wait for them.
`CountApprovals` sees the committed rows and its own, as READ COMMITTED does. A
duplicate key aborts the transaction, so `Enqueue` on an existing job ends the call as
`duplicate`. What a call reads only once and anybody may change at any time - the
rulebook in force, a proof of its approver - is chosen when it is read. On the
worker's side, the queue is reduced to `payout` (JobQueue's row without `due`) and a
worker's steps follow `handlePayout`: read the status, send under the idempotency key
(external: Privy repeats its first answer for a key it knows), mark paid, audit, settle.
A job may be handed out again once whoever has it is `late`, beyond its lease (`Outlasts`,
at any step of the worker); every such lapse and every crash counts against `MaxFaults`. A call that ended may be followed by another in
the same `req[r]`, so `Requests` bounds how many run at a time, not how many there are.

**PaymentPromise** is the abstract specification: approvals are only added, a payout is
cleared with a number of approvers that are on the record, and then paid at most once.
Approvals implements it under `approvers <- Approvers` (`PaymentSpec`).

**QueueContract** is what a handler may rely on, for one job: it is delivered while it is
queued, or claimed by workers that are all beyond their leases (`late`, by `Overrun`) or
gone; every delivery counts an attempt; whoever settles decides for it, late or not; only
the last attempt can dead-letter it; and a worker, or a claim, may be lost at any point.
Leases, pools and due times do not show. JobQueue implements it for every job somebody handles (`Contract(j)`), and so does
the queue that Approvals carries for the payout job (`QueueSpec`), which is how the
two are tied to each other.

**Attestation** is the Selfie Check: `worldContext` mints a challenge (`Ask`, `Mint`),
`attest` burns it, has World ID verify the proof and banks it (`Submit`, `Burn`,
`Verify`, `Bank`), and the part of `Decide` that concerns proofs follows (`ReadStatus`,
`ReadProof`, `Record`). No transaction holds these statements together, so another
handler, a crash (`CallEnds`), the clock (`Expire`, `AgeOut`) or a decision (`Close`) may
come between any two. A member may submit any nonce, for any invoice. World ID is external: it
refuses, or names the nullifier of one of `Persons`, always the same for the same
person. `verified` counts how often a nonce's proof reached it. Rosters and rulebooks are left
open here (whoever Approvals' gate or `worldContext` turns away ends by `CallEnds`), and
the tier always asks for a Selfie Check.

**Admin** is the org's life around that: the Slack installation with its two transactions
(`CreateOrg`, `ReadTiers`, `WriteDefaults`, then `SeedOwner`), the owners' edits, and
the invoices that hold on to seats and tiers. A handler is in `call[c]` with what it has
been told or has counted; `StartEdit` is `requireOwner` on the session's member row, and
the count of owners or tiers and the write after it are steps of their own
(`CountOwners`, `SetRole`; `CountTiers`, `DeletePolicy`). `Policies` reads through the
pool while the installation's transaction is open, so it does not see that
transaction's writes, and `CreateOrg` waits while another installation's new org row is
uncommitted. Foreign keys are guards: `TierInUse` and `HasFiled`. The database keeps a member for
other reasons too (a recorded decision, for one); those refusals are `CallFails`.
`overlapped` remembers whether two edits ever ran at the same time.

The web app has a module for each page whose components keep state. They are built
alike: the server's part (`holder`, `tiers`, `roster`, `ledger`, the chain), the
rendering on screen (`viewer`, `cards`, `rows`, `listed`, `seen`), the component's
`useState` variables, and the requests under way, each with the stage it has reached.
Every handler is one action up to its `await`; the server's step and the rest of the
handler are actions of their own, and each request has a step in which its answer is
lost. `router.refresh()` sets a flag and the rendering arrives later; on the policy and the
invoice page the server's read (`RenderPolicy`, `RenderInvoice`) and its arrival
(`RedrawPolicy`, `RedrawInvoice`) are two steps, with writes and answers between them.

- **WebSession**: `StartSync`, `SyncAnswered` and `LeaveLogin` are the hook and the login
  panel's effect; `LookUp` and `ClaimMemberSeat` are `authSync`, two statements with any
  other sign-in between them. `Land...` is what the server renders or redirects to for the
  member it finds (`Me`). Signing out is the press (`SignOut`), the end of the awaited
  `logout()` (`LogoutSettles`) and the `router.replace` of its `finally`
  (`ReplaceWithLogin`). A hook that leaves the screen loses its state, its requests go
  on (`mounted`). Owners invite and remove and other browsers claim (`RosterChanges`).
- **WebCheck**: `Submit`, `AttemptAnswered` and `LookAgain` are `SelfieCheck` and
  `Settling`; `Attest` is the server's answer in short (Attestation and Approvals have it
  at length). Two requests that are as far are told apart by their `id`. Other approvers, the payout and role changes go on meanwhile.
- **WebPolicy**: `LoadForm` is the dialog's effect, `PressSave` and `OnSaved` its save,
  which closes whatever is open by then. `elsewhere` remembers that another owner wrote or
  an answer was lost.
- **WebTeam**: `PressRow` is the role menu and the delete button; one `busyRow` serves all
  rows. The server's last-owner check is left out, since its count is racy: the page has to
  cope with an org that lost its owners. Admin has the check and the race.
- **WebInvoices**: the three pages that list invoices, and the dialog that files one.
- **WebWallet**: sends and the sponsored top-up, which share `sendState`. A broadcast that
  throws may have been made, and is mined later. `crossed` and `unsure` count the top-ups
  that failed during a send and those that were broadcast without the page's being told.
- **WebFaucet**: the forms, the route that asks `dripAvailableIn` first, and `_drip` of the
  contract, which decides when it is mined.
- **WebExportKey**: the key, its toggle and the request for it.

**Web** composes them. A tab shows one page at a time and the pages share nothing in the
browser, so the page opened first (`opened`) is the one that moves and the others stay at
rest: the states are the union of the pages', and not their product.

**MCJobQueue**, **MCApprovals**, **MCAttestation**, **MCAdmin** and **MCWeb** give the
constants their values for TLC; **JobQueueProofs**, **ApprovalsProofs**,
**AttestationProofs**, **AdminProofs**, **WebSessionProofs**, **WebPageProofs** (check,
policy, team, lists), **WebMoneyProofs** (wallet, faucet, key) and **WebProofs** (the app
as a whole) hold the theorems.

## The runs

| Run | Shows | Distinct states |
|---|---|---|
| `job_queue` | safety and liveness of the queue: two pools of one goroutine, three jobs (one of a kind without a handler), attempt limits 2, 1, 1, one crash or lost write, one goroutine that outlasts its lease | 115 thousand |
| `approvals` | safety of deciding and paying, and the refinement: submitter and three approvers, two calls at a time, two workers, one crash or outlived lease, two attempts | 818 thousand |
| `approvals_liveness` | calls end, payouts end: two approvers, a one-approval tier, two calls, two workers, one fault | 83 thousand |
| `attestation` | safety of the Selfie Check: two invoices, members, persons and challenges, two handlers at a time | 233 thousand |
| `admin` | owners, tiers, references: three addresses, two roles, two tiers (one of them a default), one invoice, two handlers at a time | 1.03 million |
| `web` | safety of every page, and that sign-in, decisions, busy rows and filings come to an end on screen | 372 thousand |
| `job_queue_overlap` | violation: two handlers of one job at once (finding) | - |
| `quorum_unnoticed` | violation: a quorum nobody noticed (finding) | - |
| `double_submit` | violation: an approval lost to the duplicate key (finding) | - |
| `reject_blocked` | violation: a tier's Selfie Check refuses rejections (finding) | - |
| `stale_check` | violation: a check that aged out cannot be renewed (finding) | - |
| `last_owner` | violation: two owners leave none (finding) | - |

What the properties say:

- `Exclusive`, `LeasedIsWorkedOn`, `DeadOnlyWhenExhausted`, `SettledStaysSettled`,
  `EveryJobIsSettled` (JobQueue): as long as no goroutine outlasts its lease, a job
  has one holder, is dead only when its attempts are used up, and stays settled; without
  faults everything leased is worked on; and every job is settled in the end, with
  stalls too.
- `OutboxAgrees`: approved and scheduled are never seen apart. `QuorumBacksPayout`: a
  payout job has its quorum of different approvers on the record, whatever changed under
  the calls. `PaysOnce`: one transfer at most. `DoneIsSettled`: a finished payout job
  paid, or found a rejected invoice. `DecidersBelong`: whoever has decided
  still has a seat, however a decision and a removal cross, and is not a submitter whom
  every tier blocks. (The role is the one the call read: a demotion in between does not
  show, and nothing promises that it would.) `DecisionsAreFinal`: a recorded
  decision stays. `CallsEnd`, `PayoutEnds`: no deadlock among the calls, no stranded
  payout.

- `OneUsePerChallenge`: a nonce's proof reaches World ID at most once, whoever submits
  it. `ProofsAreChallenged`: every banked proof stands on a burned challenge that was
  minted for the same invoice and approver, and no other proof does. `ApprovedIsAttested`: an
  approval on the record has a proof of that approver for that invoice beside it.
- `OwnersRemain`, `DeletesLeaveATier`: as long as no two owners edit at the same time, an
  org that had an owner has one, and a deletion leaves a tier in force. `DefaultsOnce`: under
  the same condition installing again, at once or later, does not write the default
  tiers a second time. (With overlapping deletions the last tier can go, and the next
  installation then writes them again.) `ReferencesHold`: an invoice's submitter keeps a seat
  and its tier a row, whatever edits overlap.

- `SignedOutIsLeaving`: a dashboard rendered for somebody who is no longer signed in is
  being replaced. `SeatsAreKept`: a seat is taken once, whoever else claims its address.
  `SignInEnds`: who signs in reaches the dashboard or is told why not.
- `DoneIsRecorded`: "Approved" stands for an approval on the record, "paying out" for a
  quorum. `DecisionIsShown`: the page around it comes to know of it.
- `EachFormItsTier`, `QuietPolicyIsCurrent`, `QuietRosterIsCurrent`, `FiledIsListed`: a form
  is saved under the tier it was loaded from; a page with nothing under way shows what the
  server has, unless somebody else wrote or an answer was lost; a filed invoice appears.
  `RowComesBack`: a row's controls come back on.
- `OneSendPerCrossing`, `OneTopUpPerMiss`: the wallet can send twice and the sponsor pay
  twice, and these say how far that goes. A top-up that fails while a send is under way turns
  the send button on again, for one more send and no more; a top-up that was broadcast but
  not answered turns the sponsor button on again, for one more payment. Without such a
  top-up there is one of each. `DripsAreSpaced`: an address is served once
  per cooldown. `KeyIsHeldBack`: a key is kept only while it is on screen, and is visible
  only after a press.

What the six violations say: `worker.go`'s deadline does not cover the settle write;
`CountApprovals` inside the transaction does not, at READ COMMITTED, keep two
approvers apart, and with two eligible approvers an invoice that needs both can get
stuck; and the ignored duplicate key still costs the second approver's decision; on a tier with a Selfie Check the gate asks for
a proof that `Decide` reads for approvals only, so nobody can reject; an approver whose
check went stale is told to verify again and then that the proof was already used; and
the count that guards the last owner does not when two owners step down together. What
each comment says and what the code does is quoted in `PROJECT.json`.

### Bounds

Two pools with one goroutine each are enough for two workers to meet on one row, and
three jobs are more than they can take at once. Every interleaving hazard of `Decide` is
one between two calls, and a third may follow when one of them has ended; three approvers
allow two to decide, and one to reject late. One fault is enough for every crash point
and for one overlap of two workers; a second one repeats it. `MaxAttempts` = 2 has both
a retry and a dead letter. `job_queue` lets a goroutine stall at any step (`Stallable`),
`job_queue_overlap` only in its settle write, which is what its finding is about. The rulebooks are one approval for any amount (above every ceiling); two tiers of the same
ceiling, two approvals with a Selfie Check and three without, beside a tier the amount
does not fit; and one with no tier in force; the rosters differ in an approver who is gone, one who is demoted and a submitter who is
promoted. `approvals` is checked up to permutations of calls and workers, whose names mean
nothing; the liveness run has no symmetry.
`attestation` has two of everything: two submissions of one proof, a challenge of another
member or another invoice, a second person before the same camera, a second check
by the same person; expiries and decisions are not bounded. `admin` has three
addresses so that two owners can act on each other beside somebody else, two tiers so
that the last one can be the target, and one invoice, which is what a reference takes; a
handler that ended may be followed by any other, so two at a time are every pairwise
overlap. Both are checked up to permutations of what means nothing (see `Alike`).
`web` has two accounts with the same address (so that they want the same seat) and two
sign-in requests at a time; a tier that needs two approvals, two proofs under way and one
look of Settling; one tier with two possible terms and two writes, so that a late answer
meets another dialog (creating is the other one); two members and two team requests, so
that the mark moves; two invoices, of which one is filed meanwhile by somebody else; three
slots for sends and three top-ups, so that a flaw that is met once (`MaxCrossed` = 1) could
be followed by one send or payment too many, and one top-up waits for a block; one faucet
form beside anybody who calls the contract directly, two addresses, a cooldown of two ticks on a clock of three, and two
drips in the pool, so that a second one meets the first one's cooldown. These bound what is
under way at a time; except for the clock and the top-ups nothing bounds how often it happens. On the
sign-in and the team page two requests that are alike in everything, and as far, count as one.
In the JobQueue, Approvals and web runs deadlock is not checked (`CHECK_DEADLOCK FALSE`): a system with every job settled, an
invoice nobody acts on, or a page that offers its viewer nothing and of which nobody else
changes anything (a team page rendered before its viewer became the only owner), has
nothing left to do.

### Fairness

JobQueue: clocks advance, pools tick, handlers return by their deadline, settle writes
are tried; `RetryLater` for ever is ruled out, and no handler here returns it.
Approvals: a call in progress goes on (weak fairness of `Advance`), and a call that
waits for an index entry or a row lock gets it if it is let go again and again (strong
fairness of `Insert` and `Flip`: Postgres queues the waiters). Workers take a
deliverable job and go on with it. Nothing is assumed of what members do, of edits, or
of failures, and faults are finitely many.
Web: requests are answered, effects run, timers fire and the server renders what it was
asked for (`SessionProgress`, `CheckProgress`, `TeamProgress`, `RedrawList`,
`FilingMoves`). An answer may be lost at any time instead, and the properties say what is
left then. Nothing is assumed of the person at the tab, of other people or of the chain.

## What is proved

`tlapm` checks, for every value of the constants that meets the named assumptions:

- `JobQueueProofs`: `TypeCorrect`, `LeaseExcludes`, `CapacityRespected`,
  `NoEarlyDeadLetter`, `SettlingIsFinal`. The inductive invariant says what a goroutine
  that holds a job may rely on before any goroutine outlasts its lease: the row is claimed, under
  a live lease, held by it alone and with the attempts it was told.
  - `OneHandlerUntilAStall`: what `job_queue_overlap` violates holds until a goroutine
    stalls, so the stall of its counterexample is needed.
  - `ExtraAttemptsAreFaults`: without stalls a job begins at most `max_attempts` attempts
    and one more for each crash, lost claim or lost settle. Only `Fail` compares the two,
    so what the invariant needs is that whatever is pending, or claimed by nobody, still
    has one to go (`NextAttemptFits`).
  - `ContractKept`: JobQueue implements QueueContract, stalls included. A lease only ever
    runs out under a goroutine that has stalled (`PunctualKeepsLease`); this invariant needs
    no proviso and is separate from the one above.
- `ApprovalsProofs`: `TypeCorrect`, `OutboxHolds`, `QuorumHolds`, `PaidOnce`,
  `SubmitterNeverDecides`, `DecidersAreMembers`, `DoneMeansSettled`, `DecisionsStay`, and `PromiseKept`, that
  Approvals implements PaymentPromise. The invariant has two parts. `CallOK`: a call
  with an inserted row has a member who is not on the record and whom no other call
  carries; one that holds the invoice's lock holds it alone; one that found the quorum
  has at least that many approvers on the record together with its own, and if it is past
  `Enqueue` there is no payout job yet. `MoneyOK`: without a payout job nothing
  was cleared or paid and nobody works; with one, the quorum is on the record and the
  status has moved on; a worker past the transfer left its mark with Privy. A tally stays
  valid because approvals are only ever added.
  - `QueueSideKept`, `QueueSideIsNoTamer`: the payout job and its workers implement
    QueueContract, and the job can be delivered here exactly when it can be there, so the
    reduced queue hides none of the contract's deliveries.
  - `NoWaitCycle`: a call waits for at most one other, and one that waits for a waiting
    call waits for an approvals row while that one waits for the invoice; whoever has the
    invoice waits for nobody. It is the safety behind `CallsEnd`, for any number of calls.
  - `SerialTalliesAreNoticed`, `SerialSubmitsAreNoOps`, `SerialStatusMovesForward`: what it
    takes for the findings. Where transactions of `Decide` do not overlap and the invoice
    keeps needing the same number of approvals, no quorum goes unnoticed
    (`TallyIsWhole`: until it commits, what a call counted are all approvals there are).
    Where calls come one after another, none meets a payout that is already there, and the
    status goes from pending to approved or rejected and from approved to paid and no other
    way. The conditions are hypotheses about the behaviour (`[]OneTransaction`,
    `[]OneCall`) beside the specification, which does not enforce them. Of `AsksFor(k)`
    every rulebook that always asks for one approval is an instance.
  - `CheckedTiersCannotReject`: where every tier asks for a Selfie Check nothing is ever
    rejected, whatever the rosters: `reject_blocked` shows one refusal, this all of them.
  - `RequirementIsReachable`: a tier asks for at least one approval and, when anybody is
    eligible, for no more than those who are. `RoutingIsMonotone`: a tier that is picked is
    in force and covers the amount if any does, and a larger invoice never meets a lower
    ceiling.
- `AttestationProofs`: `TypeCorrect`, `ChallengesAreSingleUse`, `ProofsKeepTheirTarget`,
  `GateHolds`. The invariant follows a proof on its way: a handler between burning and
  banking is the only one with its nonce, which is burned for its own target, is in no
  banked row, and before `Verify` was never sent to World ID (`CarriedOK`,
  `VerifiedOK`); one that found a proof still has it on the record, because rows are
  only ever added (`ProvenOK`).
  - `OneFaceOneProof`, `StaleForGood`: a person has one proof of an approval at most, and
    when it has aged out none of theirs ever counts for that approval again, so what
    `stale_check` shows of one call stays true for good. Another person before the same
    camera would be let through.
- `AdminProofs`: `TypeCorrect`, `OwnersNeverRunOut`, `DefaultsAreWrittenOnce`,
  `InvoicesKeepTheirReferences`, and the step property `DeletionsLeaveATier`. Until edits
  overlap, at most one handler edits, its caller is still an owner, and what it counted
  still stands (`OneEditor`, `EditorRules`, `CountsStand`). Before the org is committed nobody
  has a seat, no tier has a row, and one installation at most is past `CreateOrg`
  (`Unfounded`); afterwards there is a tier and no installation believes the rulebook is
  empty (`Settled`). Owners are counted with the library's theorems on finite sets, so `Members`
  is assumed to be finite.
- `WebSessionProofs`: `SessionTypeCorrect`, `SignedOutLeaves`, `SeatsStay`. Signing out and
  signing in anew are the only steps that change `user`, a dashboard comes on screen for the
  user of that time only, and whoever waits for a logout has its redirect still to come; every one of the page's transitions is followed (`ShowInv`,
  `LandInv`). A seat is written by a claim that finds it open.
- `WebPageProofs`: `CheckTypeCorrect`, `DoneIsTrue`. An answer that grants an approval was
  given for one on the record, and a final one for a quorum (`AnswersAreTrue`); a pending
  invoice has fewer approvals than its tier asks for (`PendingIsShort`), which is what
  bounds `others`. `PolicyTypeCorrect`, `FormsStayApart`, `PolicyIsCurrent`,
  `TeamTypeCorrect`, `RosterIsCurrent`, `ListsTypeCorrect`. What the page
  does not show of the server's rows is always accounted for: by a granted request still
  unanswered, by a refresh not read or not arrived yet, or by the history variable
  (`PolicyTold`, `TeamTold`; `InviteMarked` keeps the one invitation apart).
- `WebMoneyProofs`: `WalletTypeCorrect`, `SendsAreBounded`, `TopUpsAreBounded`, `FaucetTypeCorrect`,
  `DripsAreApart`, `KeysAreHeldBack`. There is at most one send under
  way for each top-up that crossed one, and one more, which keeps the form in "sending"
  (`SendsAreCounted`); a top-up that is not answered yet keeps the button in
  "working" (`TopUpIsWork`), and one that was broadcast is either that one, or was answered
  and left it in "done", or is in doubt (`TopUpsAreCounted`). `lastDrip` is the last entry of
  `minted` (`LastIsLatest`).
- `WebProofs`: the app as `web` checks it. A step of `WebNext` is for each page a step of
  its own or none (`WebStepIsAStepOfEach`), so the pages' invariants hold side by side
  (`WebInv`), and from them `WebTypesCorrect`, `PagesStayRight` (every safety invariant of
  a page) and `SeatsStayInTheApp`. `EveryWaitEnds` is the safety behind the liveness
  properties: in every state in which a page makes its viewer wait - a sync, a proof, a
  busy row, a send, a top-up, a drip, an export, a decision it does not show yet - the
  request, the timer or the refresh that ends the wait is under way
  (`EveryWaitHasARequest`). With the fairness of `WebSpec` that is why the waits end; that
  they do stays with TLC.

Only model-checked: the liveness properties (`EveryJobIsSettled`, `CallsEnd`,
`PayoutEnds`, `SignInEnds`, `DecisionIsShown`, `RowComesBack`, `FiledIsListed`), since
neither fairness nor ENABLED is in the prover's reach. Every safety invariant and every
action property of the passing runs is a theorem. Nor is it proved that `Select` finds a
tier whenever one is in force: that a finite set has a smallest member takes an induction.
Assumed: that Privy remembers an idempotency key for as long as the job is retried, and
that the database does what Postgres documents for READ COMMITTED, unique indexes and
row locks.

## What is not modelled

- **The queue under Approvals.** Approvals has a reduced queue of its own instead of an
  instance of JobQueue: together they are too many states for the bounds at which either
  shows its hazards. Both implement QueueContract. `Approvals` leaves out two things the
  contract allows: `RetryLater`, which no handler returns, and a lost claim in one step,
  which it has as a delivery and a crash.
- **Wallet creation and the payee allowlist** (`service/wallets.go`, `privy/policy.go`). The
  rule set is Privy's, replaced as a whole at each sync; the repository has the request and
  nothing of what answers it. `wallets.go:104` says the list is derived from the roster, and
  line 79 that a failed sync is tried again by the next `Ensure`, which for a member whose
  wallet is recorded returns before it gets there; the hazard is listed without a property.
- **The rest of QuorlyUSD.** Each of its functions is one transaction; only the faucet
  depends on when it happens.
- **The Slack app's intake.** Whether a message is an invoice is a language model's answer.
  The buttons call `Decide`, which Approvals has.
- **What a click leaves behind in the interface.** A fetch that rejects leaves some buttons
  off until the page is loaded again, "Try a different account" leaves the sign-in error on
  screen, the filing dialog keeps what was typed, and the panel that waits for a payout goes
  when the page it is on no longer offers a check. The web modules have these steps; no text
  promises anything else, so no property speaks of them.
- **Demo mode** (no money moves; WebCheck has its button), **cards, wording and markup**, the
  vendored interface components and the public pages, **JSON and signatures**, decimal
  conversion, configuration, the assistant and the command line tools. They keep no state
  the properties speak of. `Backoff` only spreads retries; the queue's properties hold for
  any delay. Connection pools and HTTP timeouts are left out: a request that
  fails for any such reason is `CallFails`, `RequestFails` or a lost answer.
