--------------------------- MODULE JobQueueProofs ---------------------------
(***************************************************************************)
(* What JobQueue guarantees for every set of jobs and pools, every         *)
(* concurrency and every number of faults.                                 *)
(*                                                                         *)
(* Exclusive is not inductive: that a second claim finds no holder needs   *)
(* to know that the row of a held job is claimed and under a live lease,   *)
(* which in turn needs that no goroutine has outlasted its lease.        *)
(***************************************************************************)
EXTENDS JobQueue, TLAPS

Busy(s) == run[s].phase # "idle"

\* A goroutine has a job exactly while it is at work.
BusyHasJob == \A s \in Slots : Busy(s) <=> run[s].job \in Jobs

\* Before anybody stalls, nobody is slow,
NobodySlow == \A s \in Slots : ~run[s].slow

\* and a job in the hands of a goroutine is claimed, under a live lease, and
\* has the attempts the goroutine was told.
HeldIsLeased ==
  \A s \in Slots : Busy(s) =>
    /\ job[run[s].job].status = "claimed"
    /\ job[run[s].job].leased
    /\ run[s].job \in Handled => job[run[s].job].attempts = run[s].attempts

OneHolder ==
  \A s, t \in Slots : Busy(s) /\ Busy(t) /\ run[s].job = run[t].job => s = t

ClaimedIsHeld ==
  \A j \in Jobs : job[j].status = "claimed" => \E s \in Slots : run[s].job = j

DeadIsExhausted ==
  \A j \in Jobs \cap Handled :
    job[j].status = "dead" => job[j].attempts >= MaxAttempts[j]

IInv ==
  /\ TypeOK
  /\ BusyHasJob
  /\ stalls = 0 => NobodySlow /\ HeldIsLeased /\ OneHolder /\ DeadIsExhausted
  /\ faults = 0 /\ stalls = 0 => ClaimedIsHeld
-----------------------------------------------------------------------------
LEMMA InitIInv == Init => IInv
  BY JobsAssumption
  DEF Init, IInv, TypeOK, Row, Run, Status, Absent, Idle, BusyHasJob, Busy,
      NobodySlow, HeldIsLeased, OneHolder, ClaimedIsHeld, DeadIsExhausted

(* A batch gives each of some free goroutines one runnable job of its own.   *)
LEMMA BatchFacts ==
  ASSUME NEW p \in Pools, NEW b \in Batches(p)
  PROVE  /\ DOMAIN b \subseteq Slots
         /\ \A s \in DOMAIN b : ~Busy(s) /\ b[s] \in Jobs /\ Claimable(b[s])
         /\ \A s, t \in DOMAIN b : b[s] = b[t] => s = t
  <1>1. PICK ss \in SUBSET Free(p) : b \in [ss -> Runnable]
    BY DEF Batches
  <1>2. \A s, t \in DOMAIN b : b[s] = b[t] => s = t
    BY DEF Batches
  <1> QED
    BY <1>1, <1>2 DEF Free, Runnable, Busy

(* What the statements of the queue make of a row is a row again,            *)
LEMMA RowWrites ==
  ASSUME NEW r \in Row
  PROVE  /\ [r EXCEPT !.due = TRUE] \in Row
         /\ [r EXCEPT !.leased = FALSE] \in Row
         /\ Leased(r) \in Row
         /\ Closed(r, "done") \in Row
         /\ DeadLettered(r) \in Row
         /\ Requeued(r) \in Row
         /\ Refunded(r) \in Row
  <1>1. r.attempts + 1 \in Nat
    BY DEF Row
  <1>2. \A x \in Status : Closed(r, x) \in Row
    BY DEF Closed, Row
  <1>3. Requeued(r) \in Row
    BY <1>2 DEF Requeued, Row, Status
  <1>4. Refunded(r) \in Row
    BY <1>3 DEF Refunded, Row
  <1> QED
    BY <1>1, <1>2, <1>3, <1>4 DEF Leased, DeadLettered, Row, Status

(* and what happens to a goroutine leaves it a goroutine at work.            *)
LEMMA RunWrites ==
  ASSUME NEW r \in Run
  PROVE  /\ \A x \in Nat, y \in Verdict :
              [r EXCEPT !.phase = y, !.attempts = x] \in Run
         /\ \A y \in Verdict : [r EXCEPT !.phase = y] \in Run
         /\ [r EXCEPT !.slow = TRUE] \in Run
  BY DEF Run

LEMMA TypeStep == TypeOK /\ BusyHasJob /\ [Next]_vars => TypeOK' /\ BusyHasJob'
  <1> SUFFICES ASSUME TypeOK, BusyHasJob, [Next]_vars
               PROVE  TypeOK' /\ BusyHasJob'
    OBVIOUS
  <1> USE JobsAssumption, AttemptsAssumption, BoundsAssumption
      DEF TypeOK, BusyHasJob, Busy
  <1> DEFINE Kept == UNCHANGED run \/ \E s \in Slots : run' = [run EXCEPT ![s] = Idle]
  <1>1. ASSUME NEW j \in Jobs, NEW r \in Row, job' = [job EXCEPT ![j] = r]
        PROVE  job' \in [Jobs -> Row]
    BY <1>1
  <1>2. Idle \in Run /\ Idle.job = NoJob /\ Idle.phase = "idle"
    BY DEF Idle, Run
  <1>3. ASSUME Kept PROVE run' \in [Slots -> Run] /\ BusyHasJob'
    BY <1>2, <1>3
  <1>3a. ASSUME NEW s \in Slots, NEW q \in Run, run[s].phase # "idle",
               q.job = run[s].job, q.phase # "idle", run' = [run EXCEPT ![s] = q]
         PROVE  run' \in [Slots -> Run] /\ BusyHasJob'
    BY <1>3a
  <1>4. ASSUME NEW j \in Jobs, Enqueue(j) PROVE TypeOK' /\ BusyHasJob'
    <2>1. [Absent EXCEPT !.status = "pending", !.due = TRUE] \in Row
      BY DEF Absent, Row, Status
    <2>2. QED
      BY <1>1, <1>3, <1>4, <2>1 DEF Enqueue
  <1>5. ASSUME NEW j \in Jobs, BecomesDue(j) PROVE TypeOK' /\ BusyHasJob'
    BY <1>1, <1>3, <1>5, RowWrites DEF BecomesDue
  <1>6. ASSUME NEW j \in Jobs, LeaseLapses(j) PROVE TypeOK' /\ BusyHasJob'
    BY <1>1, <1>3, <1>6, RowWrites DEF LeaseLapses
  <1>7. ASSUME NEW p \in Pools, NEW b \in Batches(p), Marks(b)
        PROVE  job' \in [Jobs -> Row]
    <2>1. \A j \in Jobs : Leased(job[j]) \in Row
      BY RowWrites
    <2>2. QED
      BY <1>7, <2>1 DEF Marks
  <1>8. ASSUME NEW p \in Pools, Claim(p) PROVE TypeOK' /\ BusyHasJob'
    <2>1. PICK b \in Batches(p) : Marks(b) /\ Starts(b) /\ UNCHANGED <<faults, stalls>>
      BY <1>8 DEF Claim
    <2>2. \A s \in DOMAIN b : /\ Started(b[s]) \in Run
                              /\ Started(b[s]).job \in Jobs
                              /\ Started(b[s]).phase = "running"
      <3>1. TAKE s \in DOMAIN b
      <3>2. job[b[s]].attempts + 1 \in Nat /\ b[s] \in Jobs
        BY BatchFacts DEF Row
      <3>3. QED
        BY <3>2 DEF Started, Run
    <2>3. run' \in [Slots -> Run] /\ BusyHasJob'
      BY <2>1, <2>2, BatchFacts DEF Starts
    <2>4. QED
      BY <1>7, <2>1, <2>3
  <1>9. ASSUME NEW p \in Pools, ClaimIsLost(p) PROVE TypeOK' /\ BusyHasJob'
    BY <1>3, <1>7, <1>9 DEF ClaimIsLost
  <1>10. ASSUME NEW p \in Pools, Crash(p) PROVE TypeOK' /\ BusyHasJob'
    BY <1>2, <1>10 DEF Crash
  <1>11. ASSUME NEW s \in Slots, NEW verdict \in Verdict, HandlerReturns(s, verdict)
         PROVE  TypeOK' /\ BusyHasJob'
    <2>1. PICK q \in Run : q = [run[s] EXCEPT !.phase = verdict]
      BY RunWrites
    <2>2. q.job = run[s].job /\ q.phase # "idle"
      BY <2>1 DEF Run, Verdict
    <2>3. run' = [run EXCEPT ![s] = q] /\ run[s].phase # "idle" /\ UNCHANGED <<job, faults, stalls>>
      BY <1>11, <2>1 DEF HandlerReturns
    <2>4. QED
      BY <1>3a, <2>2, <2>3
  <1>12. ASSUME NEW s \in Slots, NoHandler(s) PROVE TypeOK' /\ BusyHasJob'
    <2>1. MaxAttempts[run[s].job] \in Nat /\ "fail" \in Verdict
      BY <1>12 DEF NoHandler, Verdict
    <2>2. PICK q \in Run : q = [run[s] EXCEPT !.phase = "fail", !.attempts = MaxAttempts[run[s].job]]
      BY <2>1, RunWrites
    <2>3. q.job = run[s].job /\ q.phase # "idle"
      BY <2>1, <2>2 DEF Run
    <2>4. run' = [run EXCEPT ![s] = q] /\ run[s].phase # "idle" /\ UNCHANGED <<job, faults, stalls>>
      BY <1>12, <2>2 DEF NoHandler
    <2>5. QED
      BY <1>3a, <2>3, <2>4
  <1>13. ASSUME NEW s \in Slots, Stalls(s) PROVE TypeOK' /\ BusyHasJob'
    <2>1. PICK q \in Run : q = [run[s] EXCEPT !.slow = TRUE]
      BY RunWrites
    <2>2. q.job = run[s].job /\ q.phase = run[s].phase /\ run[s].phase # "idle"
      BY <1>13, <2>1, StallableAssumption DEF Stalls, Run
    <2>3. run' = [run EXCEPT ![s] = q] /\ UNCHANGED <<job, faults>> /\ stalls' \in Nat
      BY <1>13, <2>1 DEF Stalls
    <2>4. QED
      BY <1>3a, <2>2, <2>3
  <1>14. ASSUME NEW s \in Slots, Settle(s) PROVE TypeOK' /\ BusyHasJob'
    <2>1. run[s].job \in Jobs
      BY <1>14 DEF Settle, Complete, Reschedule, Fail
    <2>2. PICK r \in Row : Writes(run[s].job, r)
      BY <1>14, <2>1, RowWrites DEF Settle, Complete, Reschedule, Fail
    <2>3. Kept /\ UNCHANGED <<faults, stalls>>
      BY <1>14 DEF Settle, Complete, Reschedule, Fail, Ends
    <2>4. QED
      BY <1>1, <1>3, <2>1, <2>2, <2>3 DEF Writes
  <1>17. ASSUME NEW s \in Slots, SettleIsLost(s) PROVE TypeOK' /\ BusyHasJob'
    <2>1. Kept
      BY <1>17 DEF SettleIsLost
    <2>2. UNCHANGED <<job, stalls>> /\ faults' \in Nat
      BY <1>17 DEF SettleIsLost
    <2>3. QED
      BY <1>3, <2>1, <2>2
  <1>18. CASE UNCHANGED vars
    BY <1>18 DEF vars
  <1>19. QED
    BY <1>4, <1>5, <1>6, <1>8, <1>9, <1>10, <1>11, <1>12, <1>13, <1>14,
       <1>17, <1>18 DEF Next

(* Faults and stalls are counted and never forgotten; a row changes only     *)
(* through one of the statements.                                            *)
LEMMA CountersGrow ==
  ASSUME [Next]_vars
  PROVE  /\ stalls' = stalls \/ stalls' = stalls + 1
         /\ faults' = faults \/ faults' = faults + 1
  <1>1. ASSUME NEW j \in Jobs, Enqueue(j) \/ BecomesDue(j) \/ LeaseLapses(j)
        PROVE  stalls' = stalls /\ faults' = faults
    BY <1>1 DEF Enqueue, BecomesDue, LeaseLapses
  <1>2. ASSUME NEW p \in Pools, Claim(p) \/ ClaimIsLost(p) \/ Crash(p)
        PROVE  stalls' = stalls /\ (faults' = faults \/ faults' = faults + 1)
    BY <1>2 DEF Claim, ClaimIsLost, Crash
  <1>3. ASSUME NEW s \in Slots, \E verdict \in Verdict : HandlerReturns(s, verdict)
        PROVE  stalls' = stalls /\ faults' = faults
    BY <1>3 DEF HandlerReturns
  <1>4. ASSUME NEW s \in Slots, NoHandler(s) \/ Settle(s)
        PROVE  stalls' = stalls /\ faults' = faults
    BY <1>4 DEF NoHandler, Settle, Complete, Reschedule, Fail, Ends
  <1>5. ASSUME NEW s \in Slots, SettleIsLost(s)
        PROVE  stalls' = stalls /\ faults' = faults + 1
    BY <1>5 DEF SettleIsLost
  <1>6. ASSUME NEW s \in Slots, Stalls(s)
        PROVE  stalls' = stalls + 1 /\ faults' = faults
    BY <1>6 DEF Stalls
  <1>7. QED
    BY <1>1, <1>2, <1>3, <1>4, <1>5, <1>6 DEF Next, vars

(* The rest of the invariant.  Nothing un-stalls, so only steps that start   *)
(* and end with stalls = 0 matter.                                           *)
LEMMA HeldStep ==
  IInv /\ [Next]_vars /\ stalls' = 0 =>
    NobodySlow' /\ HeldIsLeased' /\ OneHolder' /\ DeadIsExhausted'
  <1> SUFFICES ASSUME IInv, [Next]_vars, stalls' = 0
               PROVE  NobodySlow' /\ HeldIsLeased' /\ OneHolder' /\ DeadIsExhausted'
    OBVIOUS
  <1> DEFINE Goal == NobodySlow' /\ HeldIsLeased' /\ OneHolder' /\ DeadIsExhausted'
  <1> USE JobsAssumption, AttemptsAssumption
  <1>1. TypeOK /\ BusyHasJob /\ TypeOK' /\ BusyHasJob'
    BY TypeStep DEF IInv
  <1>2. stalls = 0
    BY <1>1, CountersGrow DEF TypeOK
  <1>3. NobodySlow /\ HeldIsLeased /\ OneHolder /\ DeadIsExhausted
    BY <1>2 DEF IInv
  <1> USE DEF TypeOK, Busy
  <1>4. \A s \in Slots : Busy(s) => run[s].job \in Jobs
    BY <1>1 DEF BusyHasJob
  (* A step that touches only the row of a job nobody holds.                 *)
  <1>5. ASSUME NEW j \in Jobs, NEW r, Writes(j, r), UNCHANGED run,
               \A s \in Slots : run[s].job # j,
               r.status = "dead" => job[j].status = "dead" /\ r.attempts = job[j].attempts
        PROVE  Goal
    BY <1>1, <1>3, <1>4, <1>5
    DEF Writes, NobodySlow, HeldIsLeased, OneHolder, DeadIsExhausted
  (* A goroutine that lets go of its job, whatever it writes to its row.     *)
  <1>6. ASSUME NEW s \in Slots, Busy(s), run' = [run EXCEPT ![s] = Idle], NEW r,
               Writes(run[s].job, r),
               run[s].job \in Handled /\ r.status = "dead"
                 => r.attempts >= MaxAttempts[run[s].job]
        PROVE  Goal
    BY <1>1, <1>3, <1>4, <1>6
    DEF Writes, NobodySlow, HeldIsLeased, OneHolder, DeadIsExhausted, Idle
  <1>7. \A j \in Jobs : Claimable(j) => \A s \in Slots : run[s].job # j
    BY <1>1, <1>3 DEF Claimable, HeldIsLeased, BusyHasJob
  <1>8. \A j \in Jobs : /\ Leased(job[j]).status = "claimed"
                       /\ Leased(job[j]).leased
                       /\ Leased(job[j]).attempts = job[j].attempts + 1
    BY <1>1 DEF Leased, Row
  <1>9. ASSUME NEW p \in Pools, NEW b \in Batches(p), Marks(b)
        PROVE  /\ DeadIsExhausted'
               /\ \A s \in Slots : Busy(s) => job'[run[s].job] = job[run[s].job]
    <2>1. \A j \in Jobs : job'[j] = job[j] \/ job'[j].status = "claimed"
      BY <1>8, <1>9 DEF Marks
    <2>2. \A s \in Slots : Busy(s) => job'[run[s].job] = job[run[s].job]
      BY <1>4, <1>7, <1>9, BatchFacts DEF Marks
    <2>3. QED
      BY <1>3, <2>1, <2>2 DEF DeadIsExhausted
  <1>10. ASSUME NEW p \in Pools, Claim(p) PROVE Goal
    <2>1. PICK b \in Batches(p) : Marks(b) /\ Starts(b)
      BY <1>10 DEF Claim
    <2>2. \A s \in DOMAIN b :
            /\ s \in Slots
            /\ b[s] \in Jobs
            /\ run'[s].job = b[s]
            /\ run'[s].attempts = job[b[s]].attempts + 1
            /\ ~run'[s].slow
            /\ job'[b[s]] = Leased(job[b[s]])
            /\ \A t \in Slots : run[t].job # b[s]
      BY <1>7, <2>1, BatchFacts DEF Marks, Starts, Started
    <2>3. \A s \in Slots : s \notin DOMAIN b => run'[s] = run[s]
      BY <2>1 DEF Starts
    <2>4. NobodySlow'
      <3>1. SUFFICES ASSUME NEW s \in Slots PROVE ~run'[s].slow
        BY DEF NobodySlow
      <3>2. QED
        BY <1>3, <2>2, <2>3 DEF NobodySlow
    <2>5. HeldIsLeased'
      <3>1. SUFFICES ASSUME NEW s \in Slots, run'[s].phase # "idle"
                     PROVE  LET j == run'[s].job
                            IN  /\ job'[j].status = "claimed"
                                /\ job'[j].leased
                                /\ j \in Handled => job'[j].attempts = run'[s].attempts
        BY DEF HeldIsLeased
      <3>2. CASE s \in DOMAIN b
        BY <1>8, <2>2, <3>2
      <3>3. CASE s \notin DOMAIN b
        BY <1>3, <1>9, <2>1, <2>3, <3>1, <3>3 DEF HeldIsLeased
      <3>4. QED
        BY <3>2, <3>3
    <2>6. OneHolder'
      <3>1. SUFFICES ASSUME NEW s \in Slots, NEW t \in Slots, run'[s].phase # "idle",
                            run'[t].phase # "idle", run'[s].job = run'[t].job
                     PROVE  s = t
        BY DEF OneHolder
      <3>2. CASE s \in DOMAIN b /\ t \in DOMAIN b
        BY <2>2, <3>1, <3>2, BatchFacts
      <3>3. CASE s \notin DOMAIN b /\ t \notin DOMAIN b
        BY <1>3, <2>3, <3>1, <3>3 DEF OneHolder
      <3>4. QED
        BY <2>2, <2>3, <3>1, <3>2, <3>3
    <2>7. QED
      BY <1>9, <2>1, <2>4, <2>5, <2>6
  <1>11. ASSUME NEW p \in Pools, ClaimIsLost(p) PROVE Goal
    <2>1. PICK b \in Batches(p) : Marks(b) /\ UNCHANGED run
      BY <1>11 DEF ClaimIsLost
    <2>2. QED
      BY <1>3, <1>9, <2>1 DEF NobodySlow, HeldIsLeased, OneHolder
  <1>12. ASSUME NEW j \in Jobs, Enqueue(j) PROVE Goal
    <2>1. \A s \in Slots : run[s].job # j
      BY <1>1, <1>3, <1>12 DEF Enqueue, HeldIsLeased, BusyHasJob
    <2>2. [Absent EXCEPT !.status = "pending", !.due = TRUE].status # "dead"
      BY DEF Absent
    <2>3. QED
      BY <1>5, <1>12, <2>1, <2>2 DEF Enqueue, Writes
  <1>13. ASSUME NEW j \in Jobs, BecomesDue(j) PROVE Goal
    <2>1. \A s \in Slots : run[s].job # j
      BY <1>1, <1>3, <1>13 DEF BecomesDue, HeldIsLeased, BusyHasJob
    <2>2. [job[j] EXCEPT !.due = TRUE].status # "dead"
      BY <1>1, <1>13 DEF BecomesDue, Row
    <2>3. QED
      BY <1>5, <1>13, <2>1, <2>2 DEF BecomesDue, Writes
  <1>14. ASSUME NEW j \in Jobs, LeaseLapses(j) PROVE Goal
    <2>1. \A s \in Slots : run[s].job # j
      BY <1>3, <1>14 DEF LeaseLapses, NobodySlow
    <2>2. [job[j] EXCEPT !.leased = FALSE].status # "dead"
      BY <1>1, <1>14 DEF LeaseLapses, Row
    <2>3. QED
      BY <1>5, <1>14, <2>1, <2>2 DEF LeaseLapses, Writes
  <1>15. ASSUME NEW s \in Slots, Settle(s) PROVE Goal
    <2>1. Busy(s) /\ run' = [run EXCEPT ![s] = Idle] /\ run[s].job \in Jobs
      BY <1>4, <1>15 DEF Settle, Complete, Reschedule, Fail, Ends
    <2>2. /\ Closed(job[run[s].job], "done").status = "done"
          /\ Refunded(job[run[s].job]).status = "pending"
          /\ Requeued(job[run[s].job]).status = "pending"
          /\ DeadLettered(job[run[s].job]).attempts = job[run[s].job].attempts
      BY <1>1, <2>1 DEF Closed, Refunded, Requeued, DeadLettered, Row
    <2>3. CASE Complete(s)
      BY <1>6, <2>1, <2>2, <2>3 DEF Complete
    <2>4. CASE Reschedule(s)
      BY <1>6, <2>1, <2>2, <2>4 DEF Reschedule
    <2>5. CASE Fail(s) /\ ~Exhausted(s)
      BY <1>6, <2>1, <2>2, <2>5 DEF Fail
    <2>6. CASE Fail(s) /\ Exhausted(s)
      <3>1. run[s].job \in Handled =>
              DeadLettered(job[run[s].job]).attempts >= MaxAttempts[run[s].job]
        BY <1>3, <2>1, <2>2, <2>6 DEF Exhausted, HeldIsLeased
      <3>2. QED
        BY <1>6, <2>1, <2>6, <3>1 DEF Fail
    <2>7. QED
      BY <1>15, <2>3, <2>4, <2>5, <2>6 DEF Settle
  (* Steps that leave every row alone.                                       *)
  <1>16. ASSUME NEW s \in Slots, SettleIsLost(s) PROVE Goal
    BY <1>3, <1>16
    DEF SettleIsLost, NobodySlow, HeldIsLeased, OneHolder, DeadIsExhausted, Idle
  <1>17. ASSUME NEW p \in Pools, Crash(p) PROVE Goal
    BY <1>1, <1>3, <1>17
    DEF Crash, NobodySlow, HeldIsLeased, OneHolder, DeadIsExhausted, Idle
  <1>18. ASSUME NEW s \in Slots, NEW verdict \in Verdict, HandlerReturns(s, verdict)
         PROVE  Goal
    BY <1>1, <1>3, <1>18
    DEF HandlerReturns, NobodySlow, HeldIsLeased, OneHolder, DeadIsExhausted, Run, Verdict
  <1>19. ASSUME NEW s \in Slots, NoHandler(s) PROVE Goal
    BY <1>1, <1>3, <1>19
    DEF NoHandler, NobodySlow, HeldIsLeased, OneHolder, DeadIsExhausted, Run
  <1>20. ASSUME NEW s \in Slots, Stalls(s) PROVE Goal
    BY <1>1, <1>2, <1>20 DEF Stalls
  <1>21. CASE UNCHANGED vars
    BY <1>3, <1>21 DEF vars, NobodySlow, HeldIsLeased, OneHolder, DeadIsExhausted
  <1>22. QED
    BY <1>10, <1>11, <1>12, <1>13, <1>14, <1>15, <1>16, <1>17, <1>18, <1>19, <1>20,
       <1>21 DEF Next

(* While nothing has gone wrong, every claimed row has its goroutine.        *)
LEMMA ClaimedStep ==
  IInv /\ [Next]_vars /\ faults' = 0 /\ stalls' = 0 => ClaimedIsHeld'
  <1> SUFFICES ASSUME IInv, [Next]_vars, faults' = 0, stalls' = 0,
                      NEW j \in Jobs, job'[j].status = "claimed"
               PROVE  \E s \in Slots : run'[s].job = j
    BY DEF ClaimedIsHeld
  <1>1. TypeOK /\ faults = 0 /\ stalls = 0
    BY CountersGrow DEF IInv, TypeOK
  <1>2. BusyHasJob /\ ClaimedIsHeld
    BY <1>1 DEF IInv
  <1> USE <1>1, <1>2 DEF TypeOK, BusyHasJob, ClaimedIsHeld, Busy
  <1>3. ASSUME UNCHANGED run, job[j].status = "claimed"
        PROVE  \E s \in Slots : run'[s].job = j
    BY <1>3
  <1>4. ASSUME NEW i \in Jobs, Enqueue(i) \/ BecomesDue(i) \/ LeaseLapses(i)
        PROVE  \E s \in Slots : run'[s].job = j
    <2>1. job[j].status = "claimed"
      BY <1>4 DEF Enqueue, BecomesDue, LeaseLapses, Absent, Row
    <2>2. QED
      BY <1>3, <1>4, <2>1 DEF Enqueue, BecomesDue, LeaseLapses
  <1>5. ASSUME NEW p \in Pools, Claim(p)
        PROVE  \E s \in Slots : run'[s].job = j
    <2>1. PICK b \in Batches(p) : Marks(b) /\ Starts(b)
      BY <1>5 DEF Claim
    <2>2. CASE \E s \in DOMAIN b : b[s] = j
      BY <2>1, <2>2, BatchFacts DEF Starts, Started
    <2>3. CASE ~\E s \in DOMAIN b : b[s] = j
      <3>1. job[j].status = "claimed"
        BY <2>1, <2>3 DEF Marks
      <3>2. PICK s \in Slots : run[s].job = j
        BY <3>1
      <3>3. s \notin DOMAIN b
        BY <3>2, BatchFacts
      <3>4. QED
        BY <2>1, <3>2, <3>3 DEF Starts
    <2>4. QED
      BY <2>2, <2>3
  <1>6. ASSUME NEW p \in Pools, ClaimIsLost(p) \/ Crash(p) PROVE FALSE
    BY <1>6 DEF ClaimIsLost, Crash
  <1>7. ASSUME NEW s \in Slots, SettleIsLost(s) \/ Stalls(s) PROVE FALSE
    BY <1>7 DEF SettleIsLost, Stalls
  <1>8. ASSUME NEW t \in Slots, Settle(t)
        PROVE  \E s \in Slots : run'[s].job = j
    <2>1. run[t].job \in Jobs /\ run' = [run EXCEPT ![t] = Idle]
      BY <1>8 DEF Settle, Complete, Reschedule, Fail, Ends
    <2>2. PICK r : Writes(run[t].job, r) /\ r.status # "claimed"
      <3>1. \A x \in {"done", "dead", "pending"} :
              Closed(job[run[t].job], x).status # "claimed"
        BY <2>1 DEF Closed, Row
      <3>2. /\ Requeued(job[run[t].job]).status # "claimed"
            /\ Refunded(job[run[t].job]).status # "claimed"
        BY <2>1 DEF Requeued, Refunded, Closed, Row
      <3>3. QED
        BY <1>8, <3>1, <3>2 DEF Settle, Complete, Reschedule, Fail, DeadLettered
    <2>3. run[t].job # j /\ job[j].status = "claimed"
      BY <2>1, <2>2 DEF Writes
    <2>4. QED
      BY <2>1, <2>3
  <1>9. ASSUME NEW t \in Slots, \E verdict \in Verdict : HandlerReturns(t, verdict)
        PROVE  \E s \in Slots : run'[s].job = j
    BY <1>9 DEF HandlerReturns, Run
  <1>10. ASSUME NEW t \in Slots, NoHandler(t)
         PROVE  \E s \in Slots : run'[s].job = j
    BY <1>10 DEF NoHandler, Run
  <1>11. CASE UNCHANGED vars
    BY <1>3, <1>11 DEF vars
  <1>12. QED
    BY <1>4, <1>5, <1>6, <1>7, <1>8, <1>9, <1>10, <1>11 DEF Next

LEMMA Inductive == Spec => []IInv
  <1>1. IInv /\ [Next]_vars => IInv'
    BY TypeStep, HeldStep, ClaimedStep DEF IInv
  <1>2. QED
    BY InitIInv, <1>1, PTL DEF Spec
-----------------------------------------------------------------------------
(* Rows and goroutines always hold values of their types.                    *)
THEOREM TypeCorrect == Spec => []TypeOK
  <1>1. IInv => TypeOK
    BY DEF IInv
  <1>2. QED
    BY Inductive, <1>1, PTL

(* The lease is an exclusive lock on the job, through crashes, lost claims   *)
(* and lost settle writes, until some goroutine outlasts its lease.          *)
THEOREM LeaseExcludes == Spec => []Exclusive
  <1>1. IInv => Exclusive
    BY JobsAssumption DEF IInv, BusyHasJob, OneHolder, Exclusive, Busy, TypeOK, Run
  <1>2. QED
    BY Inductive, <1>1, PTL

(* A pool never leases a row it has no goroutine for.                        *)
THEOREM CapacityRespected == Spec => []LeasedIsWorkedOn
  <1>1. IInv => LeasedIsWorkedOn
    BY DEF IInv, ClaimedIsHeld, LeasedIsWorkedOn
  <1>2. QED
    BY Inductive, <1>1, PTL

(* No job that some handler could run is given up before its last attempt.   *)
THEOREM NoEarlyDeadLetter == Spec => []DeadOnlyWhenExhausted
  <1>1. IInv => DeadOnlyWhenExhausted
    BY DEF IInv, DeadIsExhausted, DeadOnlyWhenExhausted
  <1>2. QED
    BY Inductive, <1>1, PTL

(* Done and dead are final as long as no goroutine outlasts its lease.       *)
THEOREM SettlingIsFinal == Spec => SettledStaysSettled
  <1>1. ASSUME IInv, [Next]_vars, NEW j \in Jobs, stalls' = 0,
               job[j].status \in {"done", "dead"}
        PROVE  job'[j] = job[j]
    <2>1. TypeOK /\ stalls = 0
      BY <1>1, CountersGrow DEF IInv, TypeOK
    <2>2. BusyHasJob /\ HeldIsLeased
      BY <1>1, <2>1 DEF IInv
    <2> USE <1>1, <2>1, <2>2 DEF TypeOK
    <2>3. \A s \in Slots : Busy(s) => run[s].job # j
      BY DEF HeldIsLeased
    <2>4. ASSUME NEW i \in Jobs, Enqueue(i) \/ BecomesDue(i) \/ LeaseLapses(i)
          PROVE  job'[j] = job[j]
      BY <2>4 DEF Enqueue, BecomesDue, LeaseLapses
    <2>5. ASSUME NEW p \in Pools, NEW b \in Batches(p), Marks(b)
          PROVE  job'[j] = job[j]
      BY <2>5, BatchFacts DEF Marks, Claimable
    <2>6. ASSUME NEW p \in Pools, Claim(p) \/ ClaimIsLost(p) \/ Crash(p)
          PROVE  job'[j] = job[j]
      BY <2>5, <2>6 DEF Claim, ClaimIsLost, Crash
    <2>7. ASSUME NEW s \in Slots, Settle(s) PROVE job'[j] = job[j]
      BY <2>3, <2>7 DEF Settle, Complete, Reschedule, Fail, Writes, Busy
    <2>8. ASSUME NEW s \in Slots,
                 \/ \E verdict \in Verdict : HandlerReturns(s, verdict)
                 \/ NoHandler(s) \/ SettleIsLost(s) \/ Stalls(s)
          PROVE  job'[j] = job[j]
      BY <2>8 DEF HandlerReturns, NoHandler, SettleIsLost, Stalls
    <2>9. QED
      BY <2>4, <2>6, <2>7, <2>8 DEF Next, vars
  <1>2. IInv /\ [Next]_vars =>
          [\A j \in Jobs :
             stalls' = 0 /\ job[j].status \in {"done", "dead"} => job'[j] = job[j]]_vars
    BY <1>1
  <1>3. QED
    BY Inductive, <1>2, PTL DEF Spec, SettledStaysSettled

(* Until a goroutine stalls no two handlers of one job are at work at        *)
(* once: what worker.go says of any two takes a stall to be wrong.           *)
THEOREM OneHandlerUntilAStall == Spec => [](stalls = 0 => NoTwoHandlersAtOnce)
  <1>1. IInv => (stalls = 0 => NoTwoHandlersAtOnce)
    BY DEF IInv, OneHolder, Busy, NoTwoHandlersAtOnce
  <1>2. QED
    BY Inductive, <1>1, PTL
-----------------------------------------------------------------------------
(* How often a job is run.  Only Fail looks at max_attempts, so what takes   *)
(* the place of Fail, a crash or a lost write, buys a job one more attempt.  *)

\* A row on its way to another attempt is below the limit.
NextAttemptFits ==
  \A j \in Jobs \cap Handled :
    /\ job[j].attempts <= MaxAttempts[j] + faults
    /\ job[j].status = "pending" => job[j].attempts < MaxAttempts[j] + faults
    /\ job[j].status = "claimed" /\ (\A s \in Slots : run[s].job # j)
         => job[j].attempts < MaxAttempts[j] + faults

AttemptsAreCounted ==
  stalls = 0 =>
    \A j \in Jobs \cap Handled : job[j].attempts <= MaxAttempts[j] + faults

LEMMA AttemptStep ==
  ASSUME IInv, [Next]_vars, stalls' = 0, NextAttemptFits
  PROVE  NextAttemptFits'
  <1> DEFINE Fits(j) ==
        /\ job'[j].attempts <= MaxAttempts[j] + faults'
        /\ job'[j].status = "pending" => job'[j].attempts < MaxAttempts[j] + faults'
        /\ job'[j].status = "claimed" /\ (\A s \in Slots : run'[s].job # j)
             => job'[j].attempts < MaxAttempts[j] + faults'
  <1> SUFFICES ASSUME NEW j \in Jobs, j \in Handled PROVE Fits(j)
    BY DEF NextAttemptFits
  <1> USE JobsAssumption, AttemptsAssumption
  <1>1. /\ TypeOK /\ BusyHasJob /\ faults \in Nat /\ MaxAttempts[j] \in Nat \ {0}
        /\ job[j] \in Row /\ job[j].attempts \in Nat
        /\ j # NoJob
    BY DEF IInv, TypeOK, Row
  <1>2. stalls = 0 /\ HeldIsLeased /\ OneHolder
    BY <1>1, CountersGrow DEF IInv, TypeOK
  <1>3. /\ job[j].attempts <= MaxAttempts[j] + faults
        /\ job[j].status = "pending" => job[j].attempts < MaxAttempts[j] + faults
        /\ job[j].status = "claimed" /\ (\A s \in Slots : run[s].job # j)
             => job[j].attempts < MaxAttempts[j] + faults
    BY DEF NextAttemptFits
  <1> USE <1>1 DEF TypeOK
  (* A step that does not take the job from whoever holds it.                *)
  <1>4. ASSUME job'[j].status = job[j].status, job'[j].attempts = job[j].attempts,
               faults' = faults,
               \A s \in Slots : run[s].job = j => run'[s].job = j
        PROVE  Fits(j)
    BY <1>1, <1>3, <1>4
  (* A step that counts as a fault and leaves the row as it was.             *)
  <1>5. ASSUME job'[j] = job[j], faults' = faults + 1 PROVE Fits(j)
    BY <1>1, <1>3, <1>5
  <1>6. ASSUME NEW i \in Jobs, Enqueue(i) PROVE Fits(j)
    <2>1. CASE i = j
      BY <1>1, <1>6, <2>1 DEF Enqueue, Absent
    <2>2. CASE i # j
      BY <1>4, <1>6, <2>2 DEF Enqueue
    <2>3. QED
      BY <2>1, <2>2
  <1>7. ASSUME NEW i \in Jobs, BecomesDue(i) \/ LeaseLapses(i) PROVE Fits(j)
    <2>1. job'[j].status = job[j].status /\ job'[j].attempts = job[j].attempts
      BY <1>1, <1>7 DEF BecomesDue, LeaseLapses, Row
    <2>2. QED
      BY <1>4, <1>7, <2>1 DEF BecomesDue, LeaseLapses
  <1>8. ASSUME NEW p \in Pools, NEW b \in Batches(p), Marks(b), \E s \in DOMAIN b : b[s] = j
        PROVE  /\ job'[j].attempts = job[j].attempts + 1
               /\ job'[j].status = "claimed"
               /\ job[j].attempts < MaxAttempts[j] + faults
    <2>1. Claimable(j) /\ job'[j] = Leased(job[j])
      BY <1>8, BatchFacts DEF Marks
    <2>2. \A s \in Slots : run[s].job # j
      BY <1>1, <1>2, <2>1 DEF Claimable, HeldIsLeased, BusyHasJob
    <2>3. QED
      BY <1>1, <1>3, <2>1, <2>2 DEF Claimable, Leased, Row
  <1>9. ASSUME NEW p \in Pools, Claim(p) PROVE Fits(j)
    <2>1. PICK b \in Batches(p) : Marks(b) /\ Starts(b) /\ faults' = faults
      BY <1>9 DEF Claim
    <2>2. CASE \E s \in DOMAIN b : b[s] = j
      <3>1. \E s \in Slots : run'[s].job = j
        BY <2>1, <2>2, BatchFacts DEF Starts, Started
      <3>2. QED
        BY <1>1, <1>8, <2>1, <2>2, <3>1
    <2>3. CASE \A s \in DOMAIN b : b[s] # j
      <3>1. job'[j] = job[j]
        BY <2>1, <2>3 DEF Marks
      <3>2. \A s \in Slots : run[s].job = j => run'[s].job = j
        BY <1>1, <2>1, BatchFacts DEF Starts, BusyHasJob
      <3>3. QED
        BY <1>4, <2>1, <3>1, <3>2
    <2>4. QED
      BY <2>2, <2>3
  <1>10. ASSUME NEW p \in Pools, ClaimIsLost(p) PROVE Fits(j)
    <2>1. PICK b \in Batches(p) : Marks(b) /\ faults' = faults + 1
      BY <1>10 DEF ClaimIsLost
    <2>2. CASE \E s \in DOMAIN b : b[s] = j
      BY <1>1, <1>8, <2>1, <2>2
    <2>3. CASE \A s \in DOMAIN b : b[s] # j
      <3>1. job'[j] = job[j]
        BY <2>1, <2>3 DEF Marks
      <3>2. QED
        BY <1>5, <2>1, <3>1
    <2>4. QED
      BY <2>2, <2>3
  <1>11. ASSUME \/ \E p \in Pools : Crash(p)
                \/ \E s \in Slots : SettleIsLost(s)
         PROVE  Fits(j)
    BY <1>5, <1>11 DEF Crash, SettleIsLost
  <1>12. ASSUME NEW s \in Slots,
                \/ \E verdict \in Verdict : HandlerReturns(s, verdict)
                \/ NoHandler(s)
         PROVE  Fits(j)
    <2>1. UNCHANGED <<job, faults>> /\ \A t \in Slots : run'[t].job = run[t].job
      BY <1>12 DEF HandlerReturns, NoHandler, Run
    <2>2. QED
      BY <1>4, <2>1
  <1>13. ASSUME NEW s \in Slots, Stalls(s) PROVE FALSE
    BY <1>2, <1>13 DEF Stalls
  <1>14. ASSUME NEW s \in Slots, Settle(s) PROVE Fits(j)
    <2>1. /\ run[s].job \in Jobs /\ Busy(s) /\ faults' = faults
          /\ run' = [run EXCEPT ![s] = Idle]
      BY <1>1, <1>14
      DEF Settle, Complete, Reschedule, Fail, Ends, BusyHasJob, Busy
    <2>2. CASE run[s].job # j
      <3>1. job'[j] = job[j]
        BY <1>14, <2>1, <2>2 DEF Settle, Complete, Reschedule, Fail, Writes
      <3>2. \A t \in Slots : run[t].job = j => run'[t].job = j
        BY <2>1, <2>2
      <3>3. QED
        BY <1>4, <2>1, <3>1, <3>2
    <2>3. CASE run[s].job = j
      <3>1. job[j].attempts = run[s].attempts
        BY <1>2, <2>1, <2>3 DEF HeldIsLeased
      <3>2. \A x \in {"done", "dead", "pending"} :
              Closed(job[j], x).status = x /\ Closed(job[j], x).attempts = job[j].attempts
        BY <1>1 DEF Closed, Row
      <3>3. CASE Complete(s)
        <4>1. job'[j] = Closed(job[j], "done")
          BY <2>3, <3>3 DEF Complete, Writes
        <4>2. QED
          BY <1>3, <2>1, <3>2, <4>1
      <3>4. CASE Reschedule(s)
        <4>1. job'[j] = Refunded(job[j])
          BY <2>3, <3>4 DEF Reschedule, Writes
        <4>2. job'[j].attempts = IF job[j].attempts > 0 THEN job[j].attempts - 1 ELSE 0
          BY <1>1, <4>1 DEF Refunded, Requeued, Closed, Row
        <4>3. job'[j].attempts < MaxAttempts[j] + faults
          BY <1>1, <1>3, <4>2
        <4>4. QED
          BY <1>1, <2>1, <4>2, <4>3
      <3>5. CASE Fail(s) /\ Exhausted(s)
        <4>1. job'[j] = Closed(job[j], "dead")
          BY <2>3, <3>5 DEF Fail, Writes, DeadLettered
        <4>2. QED
          BY <1>3, <2>1, <3>2, <4>1
      <3>6. CASE Fail(s) /\ ~Exhausted(s)
        <4>1. job'[j] = Requeued(job[j])
          BY <2>3, <3>6 DEF Fail, Writes
        <4>2. job'[j].attempts = job[j].attempts
          BY <1>1, <4>1 DEF Requeued, Closed, Row
        <4>3. job[j].attempts < MaxAttempts[j]
          BY <1>1, <2>3, <3>1, <3>6 DEF Exhausted
        <4>4. QED
          BY <1>1, <2>1, <4>2, <4>3
      <3>7. QED
        BY <1>14, <3>3, <3>4, <3>5, <3>6 DEF Settle
    <2>4. QED
      BY <2>2, <2>3
  <1>15. CASE UNCHANGED vars
    BY <1>4, <1>15 DEF vars
  <1>16. QED
    BY <1>6, <1>7, <1>9, <1>10, <1>11, <1>12, <1>13, <1>14, <1>15 DEF Next

(* While no goroutine stalls, a job somebody handles begins no more          *)
(* attempts than max_attempts and one for each crash, lost claim or lost     *)
(* settle: max_attempts alone bounds nothing, since only Fail compares them  *)
(* (queue.go:136), and nothing but faults goes beyond it.                    *)
THEOREM ExtraAttemptsAreFaults == Spec => []AttemptsAreCounted
  <1> DEFINE Inv == stalls = 0 => NextAttemptFits
  <1>1. Init => Inv
    BY JobsAssumption, AttemptsAssumption DEF Init, NextAttemptFits, Absent
  <1>2. IInv /\ Inv /\ [Next]_vars => Inv'
    <2>1. ASSUME IInv, [Next]_vars, stalls' = 0 PROVE stalls = 0
      BY <2>1, CountersGrow DEF IInv, TypeOK
    <2>2. QED
      BY <2>1, AttemptStep
  <1>3. Inv => AttemptsAreCounted
    BY DEF NextAttemptFits, AttemptsAreCounted
  <1> HIDE DEF Inv
  <1>4. QED
    BY Inductive, <1>1, <1>2, <1>3, PTL DEF Spec
-----------------------------------------------------------------------------
(* The contract.  A second delivery needs no proviso about stalls: no lease  *)
(* runs out over a goroutine that has not stalled.                           *)

PunctualKeepsLease ==
  \A s \in Slots :
    Busy(s) /\ ~run[s].slow /\ job[run[s].job].status = "claimed"
      => job[run[s].job].leased

ContractInv == TypeOK /\ BusyHasJob /\ PunctualKeepsLease

LEMMA ContractInvInit == Init => ContractInv
  BY InitIInv DEF IInv, ContractInv, PunctualKeepsLease, Init, Idle, Busy

LEMMA LeaseStep ==
  ContractInv /\ [Next]_vars => PunctualKeepsLease'
  <1> SUFFICES ASSUME ContractInv, [Next]_vars
               PROVE  PunctualKeepsLease'
    OBVIOUS
  <1>1. TypeOK /\ BusyHasJob /\ PunctualKeepsLease
    BY DEF ContractInv
  <1>2. \A s \in Slots : Busy(s) => run[s].job \in Jobs
    BY <1>1 DEF BusyHasJob
  <1> USE <1>1, <1>2 DEF TypeOK, Busy
  (* A row that is not left claimed without a lease endangers nobody.        *)
  <1>3. ASSUME NEW j \in Jobs, NEW r, Writes(j, r), r.status = "claimed" => r.leased,
               \A s \in Slots : run'[s] = run[s] \/ run'[s] = Idle
        PROVE  PunctualKeepsLease'
    BY <1>3 DEF Writes, PunctualKeepsLease, Idle
  <1>4. ASSUME NEW j \in Jobs, Enqueue(j) PROVE PunctualKeepsLease'
    BY <1>3, <1>4 DEF Enqueue, Writes, Absent
  <1>5. ASSUME NEW j \in Jobs, BecomesDue(j) PROVE PunctualKeepsLease'
    <2>1. [job[j] EXCEPT !.due = TRUE].status = "pending"
      BY <1>5 DEF BecomesDue, Row
    <2>2. QED
      BY <1>3, <1>5, <2>1 DEF BecomesDue, Writes
  <1>6. ASSUME NEW j \in Jobs, LeaseLapses(j) PROVE PunctualKeepsLease'
    BY <1>6 DEF LeaseLapses, PunctualKeepsLease
  <1>7. ASSUME NEW p \in Pools, NEW b \in Batches(p), Marks(b), NEW s \in Slots,
               run'[s] = run[s], Busy(s), ~run[s].slow,
               job'[run'[s].job].status = "claimed"
        PROVE  job'[run'[s].job].leased
    <2>1. \A j \in Jobs : Leased(job[j]).leased
      BY DEF Leased, Row
    <2>2. QED
      BY <1>7, <2>1 DEF Marks, PunctualKeepsLease
  <1>8. ASSUME NEW p \in Pools, Claim(p) PROVE PunctualKeepsLease'
    <2>1. PICK b \in Batches(p) : Marks(b) /\ Starts(b)
      BY <1>8 DEF Claim
    <2>2. ASSUME NEW s \in DOMAIN b PROVE job'[run'[s].job].leased
      <3>1. s \in Slots /\ b[s] \in Jobs
        BY BatchFacts
      <3>2. run'[s].job = b[s]
        BY <2>1, <3>1 DEF Starts, Started
      <3>3. job'[b[s]] = Leased(job[b[s]])
        BY <2>1, <3>1 DEF Marks
      <3>4. QED
        BY <3>1, <3>2, <3>3 DEF Leased, Row
    <2>3. \A s \in Slots : s \notin DOMAIN b => run'[s] = run[s]
      BY <2>1 DEF Starts
    <2>4. QED
      BY <1>7, <2>1, <2>2, <2>3 DEF PunctualKeepsLease
  <1>9. ASSUME NEW p \in Pools, ClaimIsLost(p) PROVE PunctualKeepsLease'
    <2>1. PICK b \in Batches(p) : Marks(b) /\ UNCHANGED run
      BY <1>9 DEF ClaimIsLost
    <2>2. QED
      BY <1>7, <2>1 DEF PunctualKeepsLease
  <1>10. ASSUME NEW p \in Pools, Crash(p) PROVE PunctualKeepsLease'
    BY <1>10 DEF Crash, PunctualKeepsLease, Idle
  <1>11. ASSUME NEW s \in Slots,
                \/ \E verdict \in Verdict : HandlerReturns(s, verdict)
                \/ NoHandler(s) \/ SettleIsLost(s) \/ Stalls(s)
         PROVE  PunctualKeepsLease'
    <2>1. UNCHANGED job
      BY <1>11 DEF HandlerReturns, NoHandler, SettleIsLost, Stalls
    <2>2. /\ \A t \in Slots \ {s} : run'[t] = run[t]
          /\ \/ run'[s] = Idle
             \/ run'[s].slow
             \/ run[s].phase # "idle" /\ run'[s].job = run[s].job /\ run'[s].slow = run[s].slow
      BY <1>11 DEF HandlerReturns, NoHandler, SettleIsLost, Stalls, Run, Verdict
    <2>3. QED
      BY <2>1, <2>2 DEF PunctualKeepsLease, Idle
  <1>12. ASSUME NEW s \in Slots, Settle(s) PROVE PunctualKeepsLease'
    <2>1. run[s].job \in Jobs /\ run' = [run EXCEPT ![s] = Idle]
      BY <1>12 DEF Settle, Complete, Reschedule, Fail, Ends
    <2>2. \A x \in {"done", "dead", "pending"} :
            Closed(job[run[s].job], x).status # "claimed"
      BY <2>1 DEF Closed, Row
    <2>3. /\ Requeued(job[run[s].job]).status # "claimed"
          /\ Refunded(job[run[s].job]).status # "claimed"
      BY <2>1 DEF Requeued, Refunded, Closed, Row
    <2>4. QED
      BY <1>3, <1>12, <2>1, <2>2, <2>3 DEF Settle, Complete, Reschedule, Fail, DeadLettered
  <1>13. CASE UNCHANGED vars
    BY <1>13 DEF vars, PunctualKeepsLease
  <1>14. QED
    BY <1>4, <1>5, <1>6, <1>8, <1>9, <1>10, <1>11, <1>12, <1>13 DEF Next

LEMMA ContractInvHolds == Spec => []ContractInv
  <1>1. ContractInv /\ [Next]_vars => ContractInv'
    BY TypeStep, LeaseStep DEF ContractInv
  <1>2. QED
    BY ContractInvInit, <1>1, PTL DEF Spec

(* What a goroutine shows of job j.                                          *)
LEMMA HoldsFacts ==
  ASSUME NEW j \in Jobs, NEW s \in Slots
  PROVE  /\ run[s].job # j => Holds(s, j) = [phase |-> "idle", attempt |-> 0, late |-> FALSE]
         /\ run[s].job = j =>
              /\ Holds(s, j).attempt = run[s].attempts
              /\ Holds(s, j).phase = "handling" <=> run[s].phase = "running"
              /\ Holds(s, j).phase = "settling" <=> run[s].phase # "running"
              /\ Holds(s, j).phase # "idle"
              /\ Holds(s, j).late = run[s].slow
  BY DEF Holds

LEMMA ContractInit ==
  ASSUME NEW j \in Handled, Init PROVE Contract(j)!Init
  <1>1. j \in Jobs /\ j # NoJob
    BY JobsAssumption
  <1>2. Shown[job[j].status] = "none" /\ job[j].attempts = 0
    BY <1>1 DEF Init, Absent, Shown
  <1>3. \A s \in Slots : Holds(s, j) = [phase |-> "idle", attempt |-> 0, late |-> FALSE]
    BY <1>1, HoldsFacts DEF Init, Idle
  <1>4. QED
    BY <1>2, <1>3 DEF Contract!Init, Contract!Nothing

LEMMA ContractStep ==
  ASSUME NEW j \in Handled, ContractInv, [Next]_vars
  PROVE  [Contract(j)!Next]_(Contract(j)!vars)
  <1> DEFINE Goal == [Contract(j)!Next]_(Contract(j)!vars)
             Shows == [s \in Slots |-> Holds(s, j)]
             Same(s) == \/ run'[s].job = run[s].job /\ run'[s].attempts = run[s].attempts
                           /\ (run'[s].phase = "running" <=> run[s].phase = "running")
                           /\ run'[s].slow = run[s].slow
                        \/ run'[s].job # j /\ run[s].job # j
  <1>1. j \in Jobs /\ j # NoJob
    BY JobsAssumption
  <1>2. TypeOK /\ BusyHasJob /\ PunctualKeepsLease
    BY DEF ContractInv
  <1> USE <1>1
  <1>3. ASSUME NEW s \in Slots, Same(s) PROVE Holds(s, j)' = Holds(s, j)
    BY <1>3 DEF Holds
  (* Steps the contract does not see.                                        *)
  <1>4. ASSUME job'[j].status = job[j].status, job'[j].attempts = job[j].attempts,
               \A s \in Slots : Same(s)
        PROVE  Goal
    <2>1. Shows' = Shows
      BY <1>3, <1>4
    <2>2. QED
      BY <1>4, <2>1 DEF Contract!vars
  <1>5. ASSUME NEW i \in Jobs, Enqueue(i) PROVE Goal
    <2>1. CASE i = j
      <3>1. Shown[job[j].status] = "none" /\ UNCHANGED run
        BY <1>5, <2>1 DEF Enqueue, Shown
      <3>2. job'[j].status = "pending" /\ job'[j].attempts = 0
        BY <1>2, <1>5, <2>1 DEF Enqueue, TypeOK, Absent
      <3>3. Shows' = Shows
        BY <1>3, <3>1
      <3>4. QED
        BY <3>1, <3>2, <3>3 DEF Contract!Next, Contract!Enqueue, Shown
    <2>2. CASE i # j
      BY <1>4, <1>5, <2>2 DEF Enqueue
    <2>3. QED
      BY <2>1, <2>2
  <1>6. ASSUME NEW i \in Jobs, BecomesDue(i) \/ LeaseLapses(i) PROVE Goal
    <2>1. job'[j].status = job[j].status /\ job'[j].attempts = job[j].attempts
      BY <1>2, <1>6 DEF BecomesDue, LeaseLapses, TypeOK, Row
    <2>2. QED
      BY <1>4, <1>6, <2>1 DEF BecomesDue, LeaseLapses
  <1>7. ASSUME NEW p \in Pools, NEW b \in Batches(p), Marks(b)
        PROVE  \/ job'[j] = job[j] /\ \A s \in DOMAIN b : b[s] # j
               \/ Contract(j)!Claimed /\ \E s \in DOMAIN b : b[s] = j
    <2>1. CASE \A s \in DOMAIN b : b[s] # j
      BY <1>7, <2>1 DEF Marks
    <2>2. CASE \E s \in DOMAIN b : b[s] = j
      <3>1. Claimable(j)
        BY <2>2, BatchFacts
      <3>2. Contract(j)!Deliverable
        <4>1. CASE job[j].status = "pending"
          BY <4>1 DEF Contract!Deliverable, Shown
        <4>2. CASE job[j].status = "claimed" /\ ~job[j].leased
          <5>1. \A s \in Slots : Holds(s, j).phase = "idle" \/ Holds(s, j).late
            BY <1>2, <4>2 DEF PunctualKeepsLease, Holds, BusyHasJob, Busy
          <5>2. QED
            BY <4>2, <5>1 DEF Contract!Deliverable, Shown
        <4>3. QED
          BY <3>1, <4>1, <4>2 DEF Claimable
      <3>3. job'[j].status = "claimed" /\ job'[j].attempts = job[j].attempts + 1
        BY <1>2, <1>7, <2>2 DEF Marks, Leased, TypeOK, Row
      <3>4. QED
        BY <2>2, <3>2, <3>3 DEF Contract!Claimed, Shown
    <2>3. QED
      BY <2>1, <2>2
  <1>8. ASSUME NEW p \in Pools, Claim(p) PROVE Goal
    <2>1. PICK b \in Batches(p) : Marks(b) /\ Starts(b)
      BY <1>8 DEF Claim
    <2>2. \A s \in DOMAIN b : run'[s].job = b[s] /\ run[s].job # j
      BY <1>2, <2>1, BatchFacts DEF Starts, Started, BusyHasJob
    <2>3. \A s \in Slots : s \notin DOMAIN b => run'[s] = run[s]
      BY <2>1 DEF Starts
    <2>4. CASE job'[j] = job[j] /\ \A s \in DOMAIN b : b[s] # j
      <3>1. \A s \in Slots : Same(s)
        BY <2>2, <2>3, <2>4
      <3>2. QED
        BY <1>4, <2>4, <3>1
    <2>5. ASSUME Contract(j)!Claimed, NEW s \in DOMAIN b, b[s] = j PROVE Goal
      <3>1. s \in Slots
        BY BatchFacts
      <3>2. \A t \in Slots \ {s} : Same(t)
        BY <2>2, <2>3, <2>5, BatchFacts
      <3>3. run'[s] = Started(j)
        BY <2>1, <2>5, <3>1 DEF Starts
      <3>4. Holds(s, j)' = [phase |-> "handling", attempt |-> job[j].attempts + 1, late |-> FALSE]
        BY <3>3 DEF Holds, Started
      <3>5. Shows' = [Shows EXCEPT ![s] = [phase |-> "handling", late |-> FALSE,
                                           attempt |-> job[j].attempts + 1]]
        BY <1>3, <3>1, <3>2, <3>4
      <3>6. Shows[s].phase = "idle"
        BY <2>2, <3>1 DEF Holds
      <3>7. Contract(j)!Deliver(s)
        BY <2>5, <3>5, <3>6 DEF Contract!Deliver, Contract!Handles
      <3>8. QED
        BY <3>1, <3>7 DEF Contract!Next
    <2>6. QED
      BY <1>7, <2>1, <2>4, <2>5
  <1>9. ASSUME NEW p \in Pools, ClaimIsLost(p) PROVE Goal
    <2>1. PICK b \in Batches(p) : Marks(b) /\ UNCHANGED run
      BY <1>9 DEF ClaimIsLost
    <2>2. \A s \in Slots : Same(s)
      BY <2>1
    <2>3. Shows' = Shows
      BY <1>3, <2>2
    <2>4. CASE job'[j] = job[j]
      BY <1>4, <2>2, <2>4
    <2>5. CASE Contract(j)!Claimed
      BY <2>3, <2>5 DEF Contract!Next, Contract!Mislay
    <2>6. QED
      BY <1>7, <2>1, <2>4, <2>5
  (* Goroutines that are gone.                                               *)
  <1>10. ASSUME NEW lost \in SUBSET Slots, UNCHANGED job,
                run' = [s \in Slots |-> IF s \in lost THEN Idle ELSE run[s]]
         PROVE  Goal
    <2>1. \A s \in Slots :
            Holds(s, j)' = IF s \in lost THEN [phase |-> "idle", attempt |-> 0, late |-> FALSE]
                                         ELSE Holds(s, j)
      BY <1>10 DEF Holds, Idle
    <2>2. Shows' = [s \in Slots |->
                      IF s \in lost THEN [phase |-> "idle", attempt |-> 0, late |-> FALSE]
                                    ELSE Shows[s]]
      BY <2>1
    <2>3. Contract(j)!Lose(lost)
      BY <1>10, <2>2 DEF Contract!Lose, Contract!Nothing
    <2>4. QED
      BY <2>3 DEF Contract!Next
  <1>11. ASSUME NEW p \in Pools, Crash(p) PROVE Goal
    <2>1. run' = [s \in Slots |-> IF s \in {t \in Slots : t[1] = p} THEN Idle ELSE run[s]]
      BY <1>11 DEF Crash
    <2>2. QED
      BY <1>10, <1>11, <2>1 DEF Crash
  <1>12. ASSUME NEW s \in Slots, SettleIsLost(s) PROVE Goal
    <2>1. run' = [t \in Slots |-> IF t \in {s} THEN Idle ELSE run[t]]
      BY <1>2, <1>12 DEF SettleIsLost, TypeOK
    <2>2. QED
      BY <1>10, <1>12, <2>1 DEF SettleIsLost
  <1>13. ASSUME NEW s \in Slots, NEW verdict \in Verdict, HandlerReturns(s, verdict)
         PROVE  Goal
    <2>1. /\ run'[s].job = run[s].job /\ run'[s].attempts = run[s].attempts
          /\ run'[s].slow = run[s].slow
          /\ run[s].phase = "running" /\ run'[s].phase # "running"
          /\ \A t \in Slots \ {s} : Same(t)
      BY <1>2, <1>13 DEF HandlerReturns, TypeOK, Run, Verdict
    <2>2. CASE run[s].job # j
      BY <1>4, <1>13, <2>1, <2>2 DEF HandlerReturns
    <2>3. CASE run[s].job = j
      <3>1. Shows[s] = [phase |-> "handling", attempt |-> run[s].attempts, late |-> run[s].slow]
        BY <2>1, <2>3 DEF Holds
      <3>2. Holds(s, j)' = [phase |-> "settling", attempt |-> run[s].attempts, late |-> run[s].slow]
        BY <2>1, <2>3 DEF Holds
      <3>3. Shows' = [Shows EXCEPT ![s].phase = "settling"]
        <4>1. \A t \in Slots \ {s} : Holds(t, j)' = Holds(t, j)
          BY <1>3, <2>1
        <4>2. [Shows[s] EXCEPT !.phase = "settling"] = Holds(s, j)'
          BY <3>1, <3>2
        <4>3. QED
          BY <4>1, <4>2
      <3>4. Contract(j)!Return(s)
        BY <1>13, <3>1, <3>3 DEF Contract!Return, HandlerReturns
      <3>5. QED
        BY <3>4 DEF Contract!Next
    <2>4. QED
      BY <2>2, <2>3
  <1>14. ASSUME NEW s \in Slots, NoHandler(s) PROVE Goal
    <2>1. run[s].job # j /\ run'[s].job # j /\ UNCHANGED job
      BY <1>2, <1>14 DEF NoHandler, TypeOK, Run
    <2>2. \A t \in Slots \ {s} : run'[t] = run[t]
      BY <1>2, <1>14 DEF NoHandler, TypeOK
    <2>3. \A t \in Slots : Same(t)
      BY <2>1, <2>2
    <2>4. QED
      BY <1>4, <2>1, <2>3
  <1>15. ASSUME NEW s \in Slots, Stalls(s) PROVE Goal
    <2>1. /\ UNCHANGED job /\ run[s].phase # "idle"
          /\ run'[s].job = run[s].job /\ run'[s].attempts = run[s].attempts
          /\ run'[s].phase = run[s].phase /\ run'[s].slow = TRUE
          /\ \A t \in Slots \ {s} : Same(t)
      BY <1>2, <1>15, StallableAssumption DEF Stalls, TypeOK, Run
    <2>2. CASE run[s].job # j
      BY <1>4, <2>1, <2>2
    <2>3. CASE run[s].job = j
      <3>1. Holds(s, j)' = [Holds(s, j) EXCEPT !.late = run'[s].slow]
        BY <2>1, <2>3 DEF Holds
      <3>2. Shows' = [Shows EXCEPT ![s].late = run'[s].slow]
        BY <1>3, <2>1, <3>1
      <3>3. Shows[s].phase # "idle"
        BY <2>3, HoldsFacts
      <3>4. Contract(j)!Overrun(s)
        BY <2>1, <3>2, <3>3 DEF Contract!Overrun
      <3>5. QED
        BY <3>4 DEF Contract!Next
    <2>4. QED
      BY <2>2, <2>3
  <1>16. ASSUME NEW s \in Slots, Settle(s) PROVE Goal
    <2>1. /\ run[s].job \in Jobs /\ run[s].phase \in Verdict
          /\ run' = [run EXCEPT ![s] = Idle]
      BY <1>2, <1>16
      DEF Settle, Complete, Reschedule, Fail, Ends, BusyHasJob, Busy, Verdict
    <2>2. \A t \in Slots \ {s} : Same(t)
      BY <1>2, <2>1 DEF TypeOK
    <2>3. run'[s].job # j
      BY <1>2, <2>1 DEF TypeOK, Idle
    <2>4. CASE run[s].job # j
      <3>1. job'[j] = job[j]
        BY <1>2, <1>16, <2>1, <2>4 DEF Settle, Complete, Reschedule, Fail, Writes, TypeOK
      <3>2. QED
        BY <1>4, <2>2, <2>3, <2>4, <3>1
    <2>5. CASE run[s].job = j
      <3>1. Shows[s] = [phase |-> "settling", attempt |-> run[s].attempts, late |-> run[s].slow]
        BY <2>1, <2>5 DEF Holds, Verdict
      <3>2. Holds(s, j)' = [phase |-> "idle", attempt |-> 0, late |-> FALSE]
        BY <2>3 DEF Holds
      <3>3. Shows' = [Shows EXCEPT ![s] = [phase |-> "idle", attempt |-> 0, late |-> FALSE]]
        BY <1>3, <2>2, <3>2
      <3>4. \A x \in {"done", "dead", "pending"} :
              /\ Closed(job[j], x).status = x
              /\ Closed(job[j], x).attempts = job[j].attempts
        BY <1>2 DEF Closed, TypeOK, Row
      <3>5. CASE Complete(s)
        <4>1. job'[j] = Closed(job[j], "done")
          BY <1>2, <2>5, <3>5 DEF Complete, Writes, TypeOK
        <4>2. Contract(j)!Settle(s)
          BY <3>1, <3>3, <3>4, <4>1
          DEF Contract!Settle, Contract!LetsGo, Contract!Nothing, Shown
        <4>3. QED
          BY <4>2 DEF Contract!Next
      <3>6. CASE Reschedule(s)
        <4>1. job'[j] = Refunded(job[j])
          BY <1>2, <2>5, <3>6 DEF Reschedule, Writes, TypeOK
        <4>2. /\ job'[j].status = "pending"
              /\ job'[j].attempts = IF job[j].attempts > 0 THEN job[j].attempts - 1 ELSE 0
          BY <1>2, <4>1 DEF Refunded, Requeued, Closed, TypeOK, Row
        <4>3. Contract(j)!PutOff(s)
          BY <3>1, <3>3, <4>2 DEF Contract!PutOff, Contract!LetsGo, Contract!Nothing, Shown
        <4>4. QED
          BY <4>3 DEF Contract!Next
      <3>7. CASE Fail(s)
        <4>1. job'[j] = IF run[s].attempts >= MaxAttempts[j] THEN DeadLettered(job[j])
                                                             ELSE Requeued(job[j])
          BY <1>2, <2>5, <3>7 DEF Fail, Exhausted, Writes, TypeOK
        <4>2. /\ job'[j].attempts = job[j].attempts
              /\ job'[j].status = IF run[s].attempts >= MaxAttempts[j] THEN "dead"
                                                                       ELSE "pending"
          BY <1>2, <3>4, <4>1 DEF DeadLettered, Requeued, Closed, TypeOK, Row
        <4>3. Contract(j)!Settle(s)
          BY <3>1, <3>3, <4>2
          DEF Contract!Settle, Contract!LetsGo, Contract!Nothing, Shown
        <4>4. QED
          BY <4>3 DEF Contract!Next
      <3>8. QED
        BY <1>16, <3>5, <3>6, <3>7 DEF Settle
    <2>6. QED
      BY <2>4, <2>5
  <1>17. CASE UNCHANGED vars
    BY <1>4, <1>17 DEF vars
  <1>18. QED
    BY <1>5, <1>6, <1>8, <1>9, <1>11, <1>12, <1>13, <1>14, <1>15, <1>16, <1>17 DEF Next

(* The queue implements its contract for every job somebody handles, with    *)
(* whatever crashes, lost writes and stalls there are: a handler is never    *)
(* started on a claimed job that somebody has within the lease, every start  *)
(* counts an attempt, and only the last attempt can dead-letter it.          *)
THEOREM ContractKept ==
  ASSUME NEW j \in Handled PROVE Spec => Contract(j)!Spec
  <1>1. Init => Contract(j)!Init
    BY ContractInit
  <1>2. ContractInv /\ [Next]_vars => [Contract(j)!Next]_(Contract(j)!vars)
    BY ContractStep
  <1>3. QED
    BY ContractInvHolds, <1>1, <1>2, PTL DEF Spec, Contract!Spec
=============================================================================
