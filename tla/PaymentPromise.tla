--------------------------- MODULE PaymentPromise ---------------------------
(***************************************************************************)
(* What the approval pipeline promises about one invoice's money: it       *)
(* leaves the treasury at most once, and only after as many different      *)
(* members as the invoice's tier asked for have approved on the record.    *)
(* An approval is never withdrawn.                                         *)
(***************************************************************************)
EXTENDS Integers, FiniteSets

CONSTANT Members

VARIABLES
  approvers,  \* who has approved, on the record
  bar,        \* approvals the payout was cleared with, 0 while it is not
  transfers   \* transfers the treasury has made

vars == <<approvers, bar, transfers>>

Init == approvers = {} /\ bar = 0 /\ transfers = 0

Approve(m) ==
  /\ approvers' = approvers \cup {m}
  /\ UNCHANGED <<bar, transfers>>

(* The approval that completes the quorum clears the payout, at any quorum   *)
(* it can show.                                                              *)
Clear(m) ==
  /\ bar = 0
  /\ approvers' = approvers \cup {m}
  /\ bar' \in 1..Cardinality(approvers \cup {m})
  /\ UNCHANGED transfers

Pay ==
  /\ bar > 0
  /\ transfers = 0
  /\ transfers' = 1
  /\ UNCHANGED <<approvers, bar>>

Next ==
  \/ \E m \in Members : Approve(m) \/ Clear(m)
  \/ Pay

Spec == Init /\ [][Next]_vars
=============================================================================
