------------------------------ MODULE JobQueue ------------------------------
(***************************************************************************)
(* The durable job queue and the worker pools that drain it                *)
(* (server/internal/queue, server/internal/worker).                        *)
(*                                                                         *)
(* job[j] is the row of the jobs table for one idempotency key.  Time is   *)
(* abstracted to the two comparisons the claim query makes: "due" stands   *)
(* for run_at <= now() and "leased" for leased_until >= now().  run[s] is  *)
(* one worker goroutine: a place in a pool's semaphore together with the   *)
(* queue.Job value the claim returned to it, whose attempts are those of   *)
(* the moment of the claim.                                                *)
(*                                                                         *)
(* worker_id and last_error are written and never read back: left out.     *)
(***************************************************************************)
EXTENDS Integers, FiniteSets

CONSTANTS
  Jobs,         \* the idempotency keys in play
  NoJob,        \* what a free goroutine runs
  Pools,        \* processes that run a worker pool on this database
  Concurrency,  \* Pool.Concurrency
  MaxAttempts,  \* max_attempts of each row
  Handled,      \* the jobs whose kind some handler is registered for
  Stallable,    \* the phases of a goroutine that may outlast its lease
  MaxFaults,    \* bound: crashes, lost claims and lost settle writes
  MaxStalls     \* bound: goroutines that outlast their lease

ASSUME JobsAssumption == NoJob \notin Jobs /\ Handled \subseteq Jobs
ASSUME AttemptsAssumption == MaxAttempts \in [Jobs -> Nat \ {0}]
ASSUME StallableAssumption == "idle" \notin Stallable
ASSUME BoundsAssumption ==
  Concurrency \in Nat \ {0} /\ MaxFaults \in Nat /\ MaxStalls \in Nat

VARIABLES job, run, faults, stalls

vars == <<job, run, faults, stalls>>

Slots == Pools \X (1..Concurrency)

Status == {"absent", "pending", "claimed", "done", "dead"}
Row == [status: Status, attempts: Nat, due: BOOLEAN, leased: BOOLEAN]

\* The settle statement a goroutine goes on to once its handler has returned.
Verdict == {"complete", "reschedule", "fail"}
Run == [job: Jobs \cup {NoJob}, attempts: Nat,
        phase: {"idle", "running"} \cup Verdict, slow: BOOLEAN]

Absent == [status |-> "absent", attempts |-> 0, due |-> FALSE, leased |-> FALSE]
Idle == [job |-> NoJob, attempts |-> 0, phase |-> "idle", slow |-> FALSE]

Init ==
  /\ job = [j \in Jobs |-> Absent]
  /\ run = [s \in Slots |-> Idle]
  /\ faults = 0
  /\ stalls = 0

-----------------------------------------------------------------------------
(* EnqueueTx: the UNIQUE key makes a second insert of the same work collide  *)
(* and change nothing, which is a stuttering step.                           *)

EnqueueUpsert(j) ==
  /\ job' = [job EXCEPT ![j] = [Absent EXCEPT !.status = "pending", !.due = TRUE]]
  /\ UNCHANGED <<run, faults, stalls>>

Enqueue(j) ==
  /\ job[j].status = "absent"
  /\ job' = [job EXCEPT ![j] = [Absent EXCEPT !.status = "pending", !.due = TRUE]]
  /\ UNCHANGED <<run, faults, stalls>>

(* run_at, pushed into the future by Reschedule and Fail, is reached.        *)
BecomesDue(j) ==
  /\ job[j].status = "pending"
  /\ ~job[j].due
  /\ job' = [job EXCEPT ![j].due = TRUE]
  /\ UNCHANGED <<run, faults, stalls>>

(* leased_until is reached.  A handler is cancelled ten seconds before its   *)
(* lease ends (runCtx) and settles at once, so whoever still has the job is  *)
(* one that stalled.                                                         *)
LeaseLapses(j) ==
  /\ job[j].status = "claimed"
  /\ job[j].leased
  /\ \A s \in Slots : run[s].job = j => run[s].slow
  /\ job' = [job EXCEPT ![j].leased = FALSE]
  /\ UNCHANGED <<run, faults, stalls>>

-----------------------------------------------------------------------------
(* Claim: one UPDATE over a FOR UPDATE SKIP LOCKED subselect, so atomic row  *)
(* by row; LIMIT is the pool's free capacity.  Which of several runnable     *)
(* rows come first (ORDER BY run_at) is left open.                           *)

ClaimableIgnoringLease(j) == job[j].due /\ job[j].status \in {"pending", "claimed"}
ClaimablePendingOnly(j) == job[j].due /\ job[j].status = "pending"

Claimable(j) ==
  /\ job[j].due
  /\ \/ job[j].status = "pending"
     \/ job[j].status = "claimed" /\ ~job[j].leased

Leased(row) == [row EXCEPT !.status = "claimed", !.attempts = @ + 1, !.leased = TRUE]

Free(p) == {s \in Slots : s[1] = p /\ run[s].phase = "idle"}
Runnable == {j \in Jobs : Claimable(j)}

\* The ways to hand at most as many runnable jobs as p has room for to its
\* free goroutines, one job each.
Batches(p) ==
  {b \in UNION {[ss -> Runnable] : ss \in SUBSET Free(p)} :
     /\ \A s, t \in DOMAIN b : b[s] = b[t] => s = t
     /\ \/ DOMAIN b = Free(p)
        \/ {b[s] : s \in DOMAIN b} = Runnable}

Started(j) == [job |-> j, attempts |-> job[j].attempts + 1,
               phase |-> "running", slow |-> FALSE]

Starts(b) == run' = [s \in Slots |-> IF s \in DOMAIN b THEN Started(b[s]) ELSE run[s]]

MarksEveryRunnable(b) ==
  job' = [j \in Jobs |-> IF j \in Runnable THEN Leased(job[j]) ELSE job[j]]
Marks(b) ==
  job' = [j \in Jobs |-> IF \E s \in DOMAIN b : b[s] = j THEN Leased(job[j]) ELSE job[j]]

Claim(p) ==
  \E b \in Batches(p) :
    /\ DOMAIN b # {}
    /\ Marks(b)
    /\ Starts(b)
    /\ UNCHANGED <<faults, stalls>>

(* The UPDATE commits and reading its rows back fails: Run logs "claim       *)
(* failed" and the rows stay leased with nobody working on them.             *)
ClaimIsLost(p) ==
  \E b \in Batches(p) :
    /\ DOMAIN b # {}
    /\ faults < MaxFaults
    /\ Marks(b)
    /\ faults' = faults + 1
    /\ UNCHANGED <<run, stalls>>

-----------------------------------------------------------------------------
(* Pool.run, up to the verdict.  A panic and an expired runCtx both end in   *)
(* Fail, as an ordinary error does.                                          *)

HandlerReturns(s, verdict) ==
  /\ run[s].phase = "running"
  /\ run[s].job \in Handled
  /\ run' = [run EXCEPT ![s].phase = verdict]
  /\ UNCHANGED <<job, faults, stalls>>

(* No handler for the kind: Fail is called with attempts = max_attempts.     *)
NoHandler(s) ==
  /\ run[s].phase = "running"
  /\ run[s].job \notin Handled
  /\ run' = [run EXCEPT ![s].phase = "fail", ![s].attempts = MaxAttempts[run[s].job]]
  /\ UNCHANGED <<job, faults, stalls>>

-----------------------------------------------------------------------------
(* The settle statements.  Each is UPDATE jobs ... WHERE id = $1: it looks   *)
(* neither at the row's status nor at who holds the lease.                   *)

Ends(s) == run' = [run EXCEPT ![s] = Idle] /\ UNCHANGED <<faults, stalls>>

Closed(row, status) == [row EXCEPT !.status = status, !.leased = FALSE]
Requeued(row) == [Closed(row, "pending") EXCEPT !.due = FALSE]
Refunded(row) == [Requeued(row) EXCEPT !.attempts = IF @ > 0 THEN @ - 1 ELSE 0]

Writes(j, row) == job' = [job EXCEPT ![j] = row]

Complete(s) ==
  /\ run[s].phase = "complete"
  /\ Writes(run[s].job, Closed(job[run[s].job], "done"))
  /\ Ends(s)

Reschedule(s) ==
  /\ run[s].phase = "reschedule"
  /\ Writes(run[s].job, Refunded(job[run[s].job]))
  /\ Ends(s)

ExhaustedOneEarly(s) == run[s].attempts + 1 >= MaxAttempts[run[s].job]
Exhausted(s) == run[s].attempts >= MaxAttempts[run[s].job]

DeadLetteredAsFailed(row) == Closed(row, "failed")
DeadLettered(row) == Closed(row, "dead")

Fail(s) ==
  /\ run[s].phase = "fail"
  /\ LET row == job[run[s].job]
     IN  Writes(run[s].job, IF Exhausted(s) THEN DeadLettered(row) ELSE Requeued(row))
  /\ Ends(s)

(* The settle write fails: run only logs it, and the lease has to lapse.     *)
SettleIsLost(s) ==
  /\ run[s].phase \in Verdict
  /\ faults < MaxFaults
  /\ faults' = faults + 1
  /\ run' = [run EXCEPT ![s] = Idle]
  /\ UNCHANGED <<job, stalls>>

(* A goroutine takes longer than its lease.  The settle write has no         *)
(* deadline (context.WithoutCancel); and the lease runs from the claim's     *)
(* UPDATE, while runCtx's clock starts when its answer has arrived and stops *)
(* no handler that does not heed its context.                                *)
Stalls(s) ==
  /\ run[s].phase \in Stallable
  /\ ~run[s].slow
  /\ stalls < MaxStalls
  /\ stalls' = stalls + 1
  /\ run' = [run EXCEPT ![s].slow = TRUE]
  /\ UNCHANGED <<job, faults>>

(* The process dies with everything it runs, and comes back with none of it. *)
Crash(p) ==
  /\ faults < MaxFaults
  /\ faults' = faults + 1
  /\ run' = [s \in Slots |-> IF s[1] = p THEN Idle ELSE run[s]]
  /\ UNCHANGED <<job, stalls>>

-----------------------------------------------------------------------------
Settle(s) == Complete(s) \/ Reschedule(s) \/ Fail(s)

Next ==
  \/ \E j \in Jobs : Enqueue(j) \/ BecomesDue(j) \/ LeaseLapses(j)
  \/ \E p \in Pools : Claim(p) \/ ClaimIsLost(p) \/ Crash(p)
  \/ \E s \in Slots :
       \/ \E verdict \in Verdict : HandlerReturns(s, verdict)
       \/ NoHandler(s)
       \/ Settle(s)
       \/ SettleIsLost(s)
       \/ Stalls(s)

Spec == Init /\ [][Next]_vars

(* Clocks advance, every pool keeps ticking, every handler returns by its    *)
(* deadline and every settle write is tried.  No handler of this program     *)
(* returns RetryLater, so one that does so for ever is ruled out (SF).       *)
Fairness ==
  /\ \A j \in Jobs : WF_vars(BecomesDue(j)) /\ WF_vars(LeaseLapses(j))
  /\ \A p \in Pools : WF_vars(Claim(p))
  /\ \A s \in Slots :
       /\ WF_vars(NoHandler(s))
       /\ SF_vars(\E verdict \in {"complete", "fail"} : HandlerReturns(s, verdict))
       /\ WF_vars(Settle(s))

FairSpec == Spec /\ Fairness

-----------------------------------------------------------------------------
\* The rows and goroutines hold values of their columns and fields.
TypeOK ==
  /\ job \in [Jobs -> Row]
  /\ run \in [Slots -> Run]
  /\ faults \in Nat
  /\ stalls \in Nat

(* As long as no goroutine outlasts its lease, no two of any pools hold the  *)
(* same job, through crashes, lost claims and lost settles:                  *)
(* worker.go, "A handler must not outlive its lease, or two workers could    *)
(* run it at once".                                                          *)
Exclusive ==
  stalls = 0 =>
    \A s, t \in Slots : run[s].job # NoJob /\ run[s].job = run[t].job => s = t

(* The same without the proviso: what worker.go's comment says of any two    *)
(* workers, with handlers that stay within their leases (Stallable =         *)
(* Verdict) and settle writes that may not.                                  *)
NoTwoHandlersAtOnce ==
  \A s, t \in Slots :
    run[s].phase = "running" /\ run[t].phase = "running" /\ run[s].job = run[t].job
      => s = t

(* Never claim more than there is capacity to run (worker.go): a leased row  *)
(* nobody works on takes a crash, a lost claim or a stall.                   *)
LeasedIsWorkedOn ==
  faults = 0 /\ stalls = 0 =>
    \A j \in Jobs : job[j].status = "claimed" => \E s \in Slots : run[s].job = j

(* "Nothing is ever silently dropped": a job is dead only once every attempt *)
(* it is entitled to was used, or when nobody could ever run it.             *)
DeadOnlyWhenExhausted ==
  stalls = 0 =>
    \A j \in Jobs \cap Handled :
      job[j].status = "dead" => job[j].attempts >= MaxAttempts[j]

(* A job that was settled stays settled: a late write of an earlier worker   *)
(* does not bring it back, unless some goroutine outlasted its lease.        *)
SettledStaysSettled ==
  [][\A j \in Jobs :
       stalls' = 0 /\ job[j].status \in {"done", "dead"} => job'[j] = job[j]]_vars

(* Every job that was enqueued ends done or dead, whatever crashes and       *)
(* stalls there are, as long as there are finitely many of them.             *)
EveryJobIsSettled ==
  \A j \in Jobs :
    job[j].status # "absent" ~> job[j].status \in {"done", "dead"}

(* To the handler of one of its jobs, all this is QueueContract.             *)
Shown == [absent |-> "none", pending |-> "queued", claimed |-> "claimed",
          done |-> "done", dead |-> "dead"]

Holds(s, j) ==
  IF run[s].job # j THEN [phase |-> "idle", attempt |-> 0, late |-> FALSE]
  ELSE [phase |-> IF run[s].phase = "running" THEN "handling" ELSE "settling",
        attempt |-> run[s].attempts, late |-> run[s].slow]

Contract(j) == INSTANCE QueueContract
  WITH Workers <- Slots, Limit <- MaxAttempts[j], state <- Shown[job[j].status],
       attempts <- job[j].attempts, holder <- [s \in Slots |-> Holds(s, j)]
=============================================================================
