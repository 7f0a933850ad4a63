--------------------------- MODULE QueueContract ----------------------------
(***************************************************************************)
(* What the job queue promises about one job to whoever writes a handler   *)
(* for it (the doc comments of server/internal/queue and                   *)
(* server/internal/worker).  JobQueue implements it for every job some     *)
(* handler is registered for; the part of Approvals that stands for the    *)
(* queue implements it for the payout job.                                 *)
(*                                                                         *)
(* Neither leases nor pools nor due times show: a job may be run again     *)
(* while an earlier run of it is not over, but a claimed one only once     *)
(* everybody who still has it is late, at work beyond the lease.           *)
(***************************************************************************)
EXTENDS Integers

CONSTANTS
  Workers,  \* goroutines that may be given the job
  Limit     \* max_attempts of its row

VARIABLES
  state,    \* of the row
  attempts, \* that were begun and not refunded
  holder    \* what each worker is doing with the job, on which
            \* attempt, and whether beyond its lease

vars == <<state, attempts, holder>>

Nothing == [phase |-> "idle", attempt |-> 0, late |-> FALSE]
Handles(attempt) == [phase |-> "handling", attempt |-> attempt, late |-> FALSE]

Init ==
  /\ state = "none"
  /\ attempts = 0
  /\ holder = [w \in Workers |-> Nothing]

Enqueue ==
  /\ state = "none"
  /\ state' = "queued"
  /\ attempts' = 0
  /\ UNCHANGED holder

Deliverable ==
  \/ state = "queued"
  \/ state = "claimed" /\ \A w \in Workers : holder[w].phase = "idle" \/ holder[w].late

Claimed ==
  /\ Deliverable
  /\ state' = "claimed"
  /\ attempts' = attempts + 1

Deliver(w) ==
  /\ Claimed
  /\ holder[w].phase = "idle"
  /\ holder' = [holder EXCEPT ![w] = Handles(attempts + 1)]

(* A claim that reaches nobody uses up an attempt all the same.              *)
Mislay == Claimed /\ UNCHANGED holder

Overrun(w) ==
  /\ holder[w].phase # "idle"
  /\ holder' = [holder EXCEPT ![w].late = TRUE]
  /\ UNCHANGED <<state, attempts>>

Return(w) ==
  /\ holder[w].phase = "handling"
  /\ holder' = [holder EXCEPT ![w].phase = "settling"]
  /\ UNCHANGED <<state, attempts>>

LetsGo(w) == holder' = [holder EXCEPT ![w] = Nothing]

(* Whoever settles decides for the job, whatever became of it meanwhile.     *)
Settle(w) ==
  /\ holder[w].phase = "settling"
  /\ LetsGo(w)
  /\ state' \in {"done"} \cup (IF holder[w].attempt >= Limit THEN {"dead"} ELSE {"queued"})
  /\ UNCHANGED attempts

(* RetryLater: put off at no cost.                                           *)
PutOff(w) ==
  /\ holder[w].phase = "settling"
  /\ LetsGo(w)
  /\ state' = "queued"
  /\ attempts' = IF attempts > 0 THEN attempts - 1 ELSE 0

(* Some workers die, or their settle writes fail.                            *)
Lose(lost) ==
  /\ holder' = [w \in Workers |-> IF w \in lost THEN Nothing ELSE holder[w]]
  /\ UNCHANGED <<state, attempts>>

Next ==
  \/ Enqueue \/ Mislay
  \/ \E w \in Workers : Deliver(w) \/ Overrun(w) \/ Return(w) \/ Settle(w) \/ PutOff(w)
  \/ \E lost \in SUBSET Workers : Lose(lost)

Spec == Init /\ [][Next]_vars
=============================================================================
