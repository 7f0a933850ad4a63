------------------------------ MODULE Approvals ------------------------------
(***************************************************************************)
(* One invoice from filing to payment: the Decide calls that gather        *)
(* approvals (server/internal/service/approvals.go), the outbox row they   *)
(* leave, and the worker's handlePayout that turns it into a transfer      *)
(* (server/internal/service/payout.go).                                    *)
(*                                                                         *)
(* Every query of a Decide call is a step of its own.  The first ones run  *)
(* on the pool, outside any transaction; the others in one READ COMMITTED  *)
(* transaction (store.Tx), where a statement sees what is committed plus   *)
(* the call's own writes, an INSERT waits for an uncommitted row with the  *)
(* same unique key, and an UPDATE of the invoice waits for its row lock.   *)
(* A transaction's own writes are in req[r] until Commit applies them.     *)
(*                                                                         *)
(* The job queue is reduced to what JobQueue shows of it: a job is run at  *)
(* least once, by one worker at a time unless some worker outlasts its     *)
(* lease, until it is done or has used up its attempts.                    *)
(***************************************************************************)
EXTENDS PolicyRouting

CONSTANTS
  Members,      \* everyone who was ever on the roster
  Submitter,    \* the member who filed the invoice
  Amount,       \* the invoice's amount
  Rulebooks,    \* the sets of tiers the owners may put in force
  Rosters,      \* the rosters, from members to roles, the org may have
  Requests,     \* Decide calls at a time
  Workers,      \* goroutines that run payout jobs
  MaxAttempts,  \* max_attempts of the payout job
  MaxFaults     \* bound: worker crashes and workers that outlast a lease

ASSUME MembersAssumption == Submitter \in Members /\ IsFiniteSet(Members)
ASSUME RostersAssumption ==
  \A roster \in Rosters : DOMAIN roster \subseteq Members
ASSUME RulebooksAssumption ==
  \A tiers \in Rulebooks : \A t \in tiers :
    /\ t.ceiling \in Nat /\ t.required \in Nat /\ t.maxAge \in Nat
    /\ t.selfie \in BOOLEAN /\ t.blockSelf \in BOOLEAN /\ t.active \in BOOLEAN
ASSUME BoundsAssumption ==
  Amount \in Nat /\ MaxAttempts \in Nat \ {0} /\ MaxFaults \in Nat

VARIABLES
  roster,     \* the roster in force
  status,     \* invoices.status
  decision,   \* the approvals rows: what each member decided, or "none"
  req,        \* each Decide call: where it is and what it has read
  payout,     \* the job "payout:<invoice>"
  work,       \* each worker: where in handlePayout it is
  replayable, \* Privy has seen the idempotency key
  transfers,  \* transfers the treasury has made
  bar,        \* history: the approvals required when the payout was enqueued
  faults

rows == <<status, decision, payout, bar>>
rail == <<replayable, transfers>>
vars == <<roster, rows, req, work, rail, faults>>

NoTier == [ceiling |-> 0, required |-> 1, roles |-> {}, selfie |-> FALSE,
           maxAge |-> 0, blockSelf |-> TRUE, active |-> FALSE]

Tiers == UNION Rulebooks

Reading == {"policies", "members", "proof", "gate"}
InTx == {"insert", "count", "flip", "enqueue", "commit"}
Ended == {"idle", "duplicate"}

Request ==
  [pc: Reading \cup InTx \cup Ended, by: Members,
   verdict: {"approve", "reject"}, tier: Tiers \cup {NoTier},
   eligible: SUBSET Members, required: Nat, age: Nat \cup {NoProof}, collected: Nat]

Blank(pc) ==
  [pc |-> pc, by |-> Submitter, verdict |-> "reject", tier |-> NoTier,
   eligible |-> {}, required |-> 1, age |-> NoProof, collected |-> 0]

\* The call has inserted its approvals row and not yet ended.
HasRow(call) == call.pc \in InTx \ {"insert"}

Worker ==
  [pc: {"idle", "read", "send", "mark", "audit", "complete", "fail"}, attempt: Nat,
   late: BOOLEAN]
Resting == [pc |-> "idle", attempt |-> 0, late |-> FALSE]

(* CreateInvoice has committed, by a submitter who is on the roster.         *)
Init ==
  /\ roster \in {r \in Rosters : Submitter \in DOMAIN r}
  /\ status = "pending_approval"
  /\ decision = [m \in Members |-> "none"]
  /\ req = [r \in Requests |-> Blank("idle")]
  /\ payout = [state |-> "none", attempts |-> 0]
  /\ work = [w \in Workers |-> Resting]
  /\ replayable = FALSE
  /\ transfers = 0
  /\ bar = 0
  /\ faults = 0

Approvers == {m \in Members : decision[m] = "approve"}

-----------------------------------------------------------------------------
(* What goes on around a Decide call: owners and admins edit the roster.     *)
(* They edit the rulebook as well, and members' proofs come and age out; a   *)
(* call reads each of these once, so it finds any rulebook of Rulebooks in   *)
(* force and a proof or none.                                                *)

\* A member with an approvals row, committed or not, cannot be deleted
\* (approver_id REFERENCES members), nor can the submitter.
Referenced == {m \in Members : \/ m = Submitter
                               \/ decision[m] # "none"
                               \/ \E r \in Requests : req[r].by = m /\ HasRow(req[r])}

ChangeRoster ==
  /\ roster' \in {r \in Rosters \ {roster} : Referenced \subseteq DOMAIN r}
  /\ UNCHANGED <<rows, req, work, rail, faults>>

-----------------------------------------------------------------------------
(* Decide, before the transaction.                                           *)

Goes(r, fields) ==
  /\ req' = [req EXCEPT ![r] = fields]
  /\ UNCHANGED <<roster, rows, work, rail, faults>>

(* Invoice and Member: only a pending invoice and an existing member go on.  *)
Begin(r, m, verdict) ==
  /\ req[r].pc \in Ended
  /\ status = "pending_approval"
  /\ m \in DOMAIN roster
  /\ Goes(r, [Blank("policies") EXCEPT !.by = m, !.verdict = verdict])

(* Route picks a tier; with none in force it fails (ErrNoPolicy).            *)
LoadPolicies(r) ==
  /\ req[r].pc = "policies"
  /\ \E book \in Rulebooks :
       \/ \E t \in Select(book, Amount) : Goes(r, [req[r] EXCEPT !.pc = "members", !.tier = t])
       \/ Select(book, Amount) = {} /\ Goes(r, Blank("idle"))

NeedsProof(r) == req[r].verdict = "approve" /\ req[r].tier.selfie

LoadMembers(r) ==
  /\ req[r].pc = "members"
  /\ LET eligible == Eligible(req[r].tier, roster, Submitter)
     IN  Goes(r, [req[r] EXCEPT !.pc = IF NeedsProof(r) THEN "proof" ELSE "gate",
                                !.eligible = eligible,
                                !.required = RequiredApprovals(req[r].tier, eligible)])

(* FreshAttestationAge only answers with a proof inside the tier's window.   *)
ReadProof(r) ==
  /\ req[r].pc = "proof"
  /\ \E age \in {NoProof, req[r].tier.maxAge} :
       Goes(r, [req[r] EXCEPT !.pc = "gate", !.age = age])

-----------------------------------------------------------------------------
(* Decide's transaction.                                                     *)

(* HasDecided and the gate.                                                  *)
GateCheck(r) ==
  /\ req[r].pc = "gate"
  /\ LET open == Gate(req[r].tier, req[r].eligible, req[r].by, Submitter,
                      decision[req[r].by] # "none", req[r].age)
     IN  Goes(r, IF open THEN [Blank("insert") EXCEPT !.by = req[r].by,
                                                      !.verdict = req[r].verdict,
                                                      !.required = req[r].required]
                         ELSE Blank("idle"))

AfterRow(r) == IF req[r].verdict = "reject" THEN "flip" ELSE "count"

InsertUnchecked(r) ==
  /\ req[r].pc = "insert"
  /\ Goes(r, [req[r] EXCEPT !.pc = AfterRow(r)])

InsertOrphan(r) ==
  /\ req[r].pc = "insert"
  /\ \A q \in Requests : HasRow(req[q]) => req[q].by # req[r].by
  /\ Goes(r, IF decision[req[r].by] # "none" THEN Blank("idle")
                                            ELSE [req[r] EXCEPT !.pc = AfterRow(r)])

(* RecordApproval: the unique index on (invoice, approver) holds it up while *)
(* another call's row is uncommitted, and refuses it after that committed.   *)
(* A foreign key refuses an approver who has left the roster.                *)
Insert(r) ==
  /\ req[r].pc = "insert"
  /\ \A q \in Requests : HasRow(req[q]) => req[q].by # req[r].by
  /\ IF decision[req[r].by] # "none" \/ req[r].by \notin DOMAIN roster
       THEN Goes(r, Blank("idle"))
       ELSE Goes(r, [req[r] EXCEPT !.pc = AfterRow(r)])

QuorumOneShort(call) == call.collected + 1 >= call.required
Quorum(call) == call.collected >= call.required

Counted(r, members) ==
  LET call == [req[r] EXCEPT !.collected = Cardinality(members)]
  IN  Goes(r, [call EXCEPT !.pc = IF Quorum(call) THEN "flip" ELSE "commit"])

CountEveryRow(r) ==
  /\ req[r].pc = "count"
  /\ Counted(r, {m \in Members : decision[m] # "none"} \cup {req[r].by})

(* CountApprovals: the committed approvals and the call's own.               *)
Count(r) ==
  /\ req[r].pc = "count"
  /\ Counted(r, Approvers \cup {req[r].by})

HoldsInvoiceFromInsert(call) == HasRow(call)

\* The call has updated the invoice row and not yet ended.
HoldsInvoice(call) ==
  \/ call.pc = "enqueue"
  \/ call.pc = "commit" /\ (call.verdict = "reject" \/ Quorum(call))

(* SetInvoiceStatus, to rejected or to approved, whatever the status is now. *)
Flip(r) ==
  /\ req[r].pc = "flip"
  /\ \A q \in Requests \ {r} : ~HoldsInvoice(req[q])
  /\ Goes(r, [req[r] EXCEPT !.pc = IF req[r].verdict = "reject" THEN "commit" ELSE "enqueue"])

(* EnqueueTx.  A second job with the key is ErrDuplicate, which Decide lets  *)
(* pass; but the failed INSERT has aborted the transaction, so the audit row *)
(* that follows fails too and everything is rolled back.                     *)
Enqueue(r) ==
  /\ req[r].pc = "enqueue"
  /\ Goes(r, IF payout.state = "none" THEN [req[r] EXCEPT !.pc = "commit"]
                                      ELSE Blank("duplicate"))

Records(r) ==
  /\ req[r].pc = "commit"
  /\ decision' = [decision EXCEPT ![req[r].by] = req[r].verdict]
  /\ req' = [req EXCEPT ![r] = Blank("idle")]
  /\ UNCHANGED <<roster, work, rail, faults>>

CommitDecisionAsStatus(r) ==
  /\ Records(r)
  /\ req[r].verdict = "reject"
  /\ status' = req[r].verdict
  /\ UNCHANGED <<payout, bar>>

CommitRejection(r) ==
  /\ Records(r)
  /\ req[r].verdict = "reject"
  /\ status' = "rejected"
  /\ UNCHANGED <<payout, bar>>

CommitApproval(r) ==
  /\ Records(r)
  /\ req[r].verdict = "approve"
  /\ ~Quorum(req[r])
  /\ UNCHANGED <<status, payout, bar>>

CommitWithoutOutbox(r) ==
  /\ Records(r)
  /\ req[r].verdict = "approve"
  /\ Quorum(req[r])
  /\ status' = "approved"
  /\ UNCHANGED <<payout, bar>>

(* The approval, the status and the payout job become visible together.      *)
CommitQuorum(r) ==
  /\ Records(r)
  /\ req[r].verdict = "approve"
  /\ Quorum(req[r])
  /\ status' = "approved"
  /\ payout' = [state |-> "queued", attempts |-> 0]
  /\ bar' = req[r].required

(* A query fails, the client goes away or the server dies: rolled back.      *)
RequestFails(r) ==
  /\ req[r].pc \in Reading \cup InTx
  /\ Goes(r, Blank("idle"))

Advance(r) ==
  \/ LoadPolicies(r) \/ LoadMembers(r) \/ ReadProof(r) \/ GateCheck(r)
  \/ Insert(r) \/ Count(r) \/ Flip(r) \/ Enqueue(r)
  \/ CommitRejection(r) \/ CommitApproval(r) \/ CommitQuorum(r)

-----------------------------------------------------------------------------
(* The worker's side: claim, handlePayout, settle.                           *)

Untouched == UNCHANGED <<roster, decision, req, bar>>

Moves(w, pc) == work' = [work EXCEPT ![w].pc = pc]

DeliverableQueuedOnly == payout.state = "queued"

(* The queue hands out a due job, and a leased one once its lease has run    *)
(* out: whoever has it is gone, or late.                                     *)
Deliverable ==
  \/ payout.state = "queued"
  \/ payout.state = "claimed" /\ \A w \in Workers : work[w].pc = "idle" \/ work[w].late

Deliver(w) ==
  /\ Deliverable
  /\ work[w].pc = "idle"
  /\ payout' = [state |-> "claimed", attempts |-> payout.attempts + 1]
  /\ work' = [work EXCEPT ![w] = [pc |-> "read", attempt |-> payout.attempts + 1,
                                 late |-> FALSE]]
  /\ UNCHANGED <<status, rail, faults>> /\ Untouched

(* A worker takes longer than its lease: the answer to its claim was slow,   *)
(* or a call that does not heed the handler's deadline, or its settle write. *)
Outlasts(w) ==
  /\ work[w].pc # "idle"
  /\ ~work[w].late
  /\ faults < MaxFaults
  /\ faults' = faults + 1
  /\ work' = [work EXCEPT ![w].late = TRUE]
  /\ UNCHANGED <<status, payout, rail>> /\ Untouched

PayableScheduledOnly == status \in {"scheduled", "failed"}
Payable == status \in {"approved", "scheduled", "failed"}

(* A paid invoice, or one rejected since, completes the job as it is.        *)
PayoutRead(w) ==
  /\ work[w].pc = "read"
  /\ Moves(w, IF Payable THEN "send" ELSE "complete")
  /\ UNCHANGED <<status, payout, rail, faults>> /\ Untouched

SendWithoutKey(w) ==
  /\ work[w].pc = "send"
  /\ Moves(w, "mark")
  /\ transfers' = transfers + 1
  /\ UNCHANGED <<replayable, status, payout, faults>> /\ Untouched

(* SendTransaction under the key "payout:<invoice>": Privy answers a key it  *)
(* has seen with the transaction it made the first time.                     *)
PayoutSend(w) ==
  /\ work[w].pc = "send"
  /\ Moves(w, "mark")
  /\ replayable' = TRUE
  /\ transfers' = IF replayable THEN transfers ELSE transfers + 1
  /\ UNCHANGED <<status, payout, faults>> /\ Untouched

(* MarkInvoicePaid, whatever the status is now.                              *)
PayoutMark(w) ==
  /\ work[w].pc = "mark"
  /\ \A r \in Requests : ~HoldsInvoice(req[r])
  /\ Moves(w, "audit")
  /\ status' = "paid"
  /\ UNCHANGED <<payout, rail, faults>> /\ Untouched

PayoutAudit(w) ==
  /\ work[w].pc = "audit"
  /\ Moves(w, "complete")
  /\ UNCHANGED <<status, payout, rail, faults>> /\ Untouched

(* A query fails, Privy refuses, or its answer is lost after the transfer.   *)
PayoutFails(w) ==
  /\ work[w].pc \in {"read", "send", "mark", "audit"}
  /\ Moves(w, "fail")
  /\ UNCHANGED <<status, payout, rail, faults>> /\ Untouched

(* Complete or Fail, by the job's id alone: it lands even when the lease has *)
(* run out and another worker holds the job.                                 *)
Settle(w) ==
  /\ work[w].pc \in {"complete", "fail"}
  /\ payout' = [payout EXCEPT !.state =
       IF work[w].pc = "complete" THEN "done"
       ELSE IF work[w].attempt >= MaxAttempts THEN "dead" ELSE "queued"]
  /\ work' = [work EXCEPT ![w] = Resting]
  /\ UNCHANGED <<status, rail, faults>> /\ Untouched

(* The process dies, or the settle write fails: the job stays leased.        *)
WorkerCrash(w) ==
  /\ work[w].pc # "idle"
  /\ faults < MaxFaults
  /\ faults' = faults + 1
  /\ work' = [work EXCEPT ![w] = Resting]
  /\ UNCHANGED <<status, payout, rail>> /\ Untouched

Works(w) ==
  \/ PayoutRead(w) \/ PayoutSend(w) \/ PayoutMark(w) \/ PayoutAudit(w) \/ Settle(w)

-----------------------------------------------------------------------------
Next ==
  \/ ChangeRoster
  \/ \E r \in Requests :
       \/ \E m \in Members, verdict \in {"approve", "reject"} : Begin(r, m, verdict)
       \/ Advance(r)
       \/ RequestFails(r)
  \/ \E w \in Workers : Deliver(w) \/ Outlasts(w) \/ Works(w) \/ PayoutFails(w) \/ WorkerCrash(w)

Spec == Init /\ [][Next]_vars

(* The server and the database go on with the calls and jobs they have; when *)
(* members act, what owners change and what fails is up to them.  A call     *)
(* that waits for another's row gets its turn when the row is let go again   *)
(* and again: Postgres wakes those who wait for a lock.                      *)
FairSpec ==
  /\ Spec
  /\ \A r \in Requests : WF_vars(Advance(r)) /\ SF_vars(Insert(r)) /\ SF_vars(Flip(r))
  /\ \A w \in Workers : WF_vars(Deliver(w)) /\ WF_vars(Works(w))

-----------------------------------------------------------------------------
TypeOK ==
  /\ roster \in Rosters
  /\ status \in {"pending_approval", "approved", "rejected", "paid"}
  /\ decision \in [Members -> {"none", "approve", "reject"}]
  /\ req \in [Requests -> Request]
  /\ payout \in [state: {"none", "queued", "claimed", "done", "dead"}, attempts: Nat]
  /\ work \in [Workers -> Worker]
  /\ replayable \in BOOLEAN
  /\ transfers \in Nat
  /\ bar \in Nat
  /\ faults \in 0..MaxFaults

(* The outbox: an invoice is past its approval by quorum exactly when its    *)
(* payout job exists; one never shows without the other (approvals.go's      *)
(* "an approval can never be recorded without its payout being queued, and a *)
(* payout can never exist without its approval").                            *)
OutboxAgrees ==
  /\ status \in {"approved", "paid"} => payout.state # "none"
  /\ payout.state # "none" => status # "pending_approval"

(* Behind every payout job stand as many different approvals on the record   *)
(* as the deciding call was asked for, and at least one: calls that ran at   *)
(* the same time or on another rulebook never pool into a smaller quorum.    *)
QuorumBacksPayout ==
  payout.state # "none" => bar >= 1 /\ Cardinality(Approvers) >= bar

(* However often the job is retried, run twice at once or replayed after a   *)
(* crash between the transfer and its record, the treasury pays once.        *)
PaysOnce == transfers <= 1

\* Where every tier blocks self-approval the submitter has not decided.
SubmitterStaysOut ==
  (\A t \in Tiers : t.blockSelf) => decision[Submitter] = "none"

(* However the rulebook and the roster are edited between what a call read   *)
(* and its commit, no decision of the submitter's gets onto the record, and  *)
(* nobody's whose seat is gone: a decision and a removal that cross never    *)
(* both go through.  (With which role somebody decided is another matter: it *)
(* is the one the call read.)                                                *)
DecidersBelong ==
  /\ SubmitterStaysOut
  /\ \A m \in Members : decision[m] # "none" => m \in DOMAIN roster

(* A payout job that is done has paid, or left an invoice somebody rejected: *)
(* it is never completed over an invoice that still waits for its money, and *)
(* paid is only ever written over a transfer that was made.                  *)
DoneIsSettled ==
  /\ payout.state = "done" => status \in {"paid", "rejected"}
  /\ status = "paid" => transfers > 0

(* A decision on the record is neither changed nor withdrawn, whatever calls *)
(* of the same member run against each other.                                *)
DecisionsAreFinal ==
  [][\A m \in Members : decision[m] # "none" => decision'[m] = decision[m]]_vars

(* Every Decide call ends: the waits for the unique index and for the        *)
(* invoice's row lock never form a cycle.                                    *)
CallsEnd == \A r \in Requests : req[r].pc \notin Ended ~> req[r].pc \in Ended

(* A payout that was scheduled comes to its end and stays there, paid,       *)
(* passed over or dead-lettered, whatever workers crashed on the way.        *)
PayoutEnds == payout.state # "none" ~> [](payout.state \in {"done", "dead"})

(* The pipeline keeps its promise about the money.                           *)
Payment == INSTANCE PaymentPromise WITH approvers <- Approvers
PaymentSpec == Payment!Spec

(* And its worker and payout job are what QueueContract says of a queue.     *)
Holds(w) ==
  [phase |-> CASE work[w].pc = "idle" -> "idle"
               [] work[w].pc \in {"complete", "fail"} -> "settling"
               [] OTHER -> "handling",
   attempt |-> work[w].attempt, late |-> work[w].late]

Queue == INSTANCE QueueContract
  WITH Limit <- MaxAttempts, state <- payout.state, attempts <- payout.attempts,
       holder <- [w \in Workers |-> Holds(w)]
QueueSpec == Queue!Spec

-----------------------------------------------------------------------------
(* What the code's comments say and the code does not do.                    *)

(* "the quorum tally and the status flip can't interleave with a concurrent  *)
(* approval" (store/queries.go): with one rulebook and one roster, once the  *)
(* calls are over a pending invoice still lacks approvals.                   *)
QuorumIsNoticed ==
  (status = "pending_approval" /\ \A r \in Requests : req[r].pc \in Ended)
    => \A book \in Rulebooks : \A t \in Select(book, Amount) :
         Cardinality(Approvers) < RequiredApprovals(t, Eligible(t, roster, Submitter))

(* "the UNIQUE index turns a double-submit into a no-op" (approvals.go): no  *)
(* approval is lost because the payout is already there.                     *)
DoubleSubmitIsNoOp == \A r \in Requests : req[r].pc # "duplicate"

(* "This tier requires a live *Selfie Check* at the moment of approval."     *)
(* (slackapp/blocks.go): whether a rejection passes the gate does not depend *)
(* on the tier's Selfie Check.                                               *)
RejectionNeedsNoCheck ==
  \A r \in Requests :
    LET call == req[r]
        Passes(tier) == Gate(tier, call.eligible, call.by, Submitter,
                             decision[call.by] # "none", call.age)
    IN  call.pc = "gate" /\ call.verdict = "reject" /\ Passes([call.tier EXCEPT !.selfie = FALSE])
          => Passes(call.tier)
=============================================================================
