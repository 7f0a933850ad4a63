-------------------------- MODULE ApprovalsProofs --------------------------
(***************************************************************************)
(* What Approvals guarantees for every membership, set of rulebooks and    *)
(* rosters, number of concurrent calls and workers, and number of faults.  *)
(*                                                                         *)
(* None of the properties is inductive.  CallOK says what a call in flight *)
(* may rely on: its row is not on the record yet and no other call has the *)
(* same row, the invoice's lock is its own, and the approvals it counted   *)
(* are still there.  MoneyOK says what the payout's state tells of the     *)
(* approvals behind it and of the transfer.                                *)
(***************************************************************************)
EXTENDS Approvals, FiniteSetTheorems, TLAPS

AllBlockSelf == \A t \in Tiers : t.blockSelf

\* The call is past its tally and found the quorum met.
FoundQuorum(call) ==
  /\ call.verdict = "approve"
  /\ call.pc \in {"flip", "enqueue"} \/ (call.pc = "commit" /\ Quorum(call))

Tallied(call) ==
  FoundQuorum(call) =>
    /\ Quorum(call)
    /\ Cardinality(Approvers \cup {call.by}) >= call.required
    /\ call.pc = "commit" => payout.state = "none"

RowIsNew(r, call) ==
  HasRow(call) =>
    /\ decision[call.by] = "none"
    /\ \A q \in Requests \ {r} : HasRow(req[q]) => req[q].by # call.by

HoldsAlone(r, call) ==
  HoldsInvoice(call) => \A q \in Requests \ {r} : ~HoldsInvoice(req[q])

Routed(call) ==
  /\ call.required >= 1
  /\ call.pc \in {"count", "enqueue"} => call.verdict = "approve"
  /\ call.pc \in {"members", "proof", "gate"} => call.tier \in Tiers
  /\ call.pc \in InTx /\ AllBlockSelf => call.by # Submitter

CallOK(r, call) ==
  /\ Routed(call)
  /\ RowIsNew(r, call)
  /\ HoldsAlone(r, call)
  /\ Tallied(call)

CallsOK == \A r \in Requests : CallOK(r, req[r])

NotScheduled ==
  /\ bar = 0
  /\ transfers = 0
  /\ status \in {"pending_approval", "rejected"}
  /\ \A w \in Workers : work[w].pc = "idle"

Scheduled ==
  /\ bar >= 1
  /\ Cardinality(Approvers) >= bar
  /\ status # "pending_approval"

MoneyOK ==
  /\ payout.state = "none" => NotScheduled
  /\ payout.state # "none" => Scheduled
  /\ transfers = IF replayable THEN 1 ELSE 0
  /\ status = "paid" => replayable
  /\ payout.state = "done" => status \in {"paid", "rejected"}
  /\ \A w \in Workers :
       /\ work[w].pc \in {"mark", "audit"} => replayable
       /\ work[w].pc \in {"audit", "complete"} => status \in {"paid", "rejected"}

IInv == TypeOK /\ CallsOK /\ MoneyOK /\ SubmitterStaysOut
-----------------------------------------------------------------------------
LEMMA FiniteMembers ==
  ASSUME NEW S \in SUBSET Members
  PROVE  IsFiniteSet(S) /\ Cardinality(S) \in Nat
  BY MembersAssumption, FS_Subset, FS_CardinalityType

LEMMA Monotone ==
  ASSUME NEW T \in SUBSET Members, NEW S \in SUBSET T
  PROVE  Cardinality(S) <= Cardinality(T)
  BY FiniteMembers, FS_Subset

LEMMA TierType ==
  ASSUME NEW t \in Tiers \cup {NoTier}
  PROVE  t.required \in Nat /\ t.maxAge \in Nat
  BY RulebooksAssumption DEF Tiers, NoTier

(* A tier asks for at least one approval, and for no more than there are     *)
(* members who can give one, when there are any (policy.go,                  *)
(* requiredApprovals).                                                       *)
THEOREM RequirementIsReachable ==
  ASSUME NEW t, t.required \in Nat, NEW S, IsFiniteSet(S)
  PROVE  /\ RequiredApprovals(t, S) \in Nat
         /\ RequiredApprovals(t, S) >= 1
         /\ S # {} => RequiredApprovals(t, S) <= Cardinality(S)
  <1>1. Cardinality(S) \in Nat /\ (Cardinality(S) = 0 <=> S = {})
    BY FS_CardinalityType, FS_EmptySet
  <1> QED
    BY <1>1 DEF RequiredApprovals

(* A tier that is picked is in force, covers the amount if any tier does,    *)
(* and a larger invoice never meets a lower ceiling (policy.go, Select).     *)
THEOREM RoutingIsMonotone ==
  ASSUME NEW book, \A t \in book : t.ceiling \in Nat,
         NEW small \in Nat, NEW large \in Nat, small <= large,
         NEW t \in Select(book, small), NEW u \in Select(book, large)
  PROVE  /\ t \in ActiveTiers(book)
         /\ (\E v \in ActiveTiers(book) : small <= v.ceiling) => small <= t.ceiling
         /\ t.ceiling <= u.ceiling
  <1>1. /\ t \in ActiveTiers(book) /\ u \in ActiveTiers(book)
        /\ Covering(book, small) # {} => t \in Lowest(Covering(book, small))
        /\ Covering(book, large) = {} => u \in Highest(ActiveTiers(book))
        /\ Covering(book, large) # {} => u \in Lowest(Covering(book, large))
    BY DEF Select, Lowest, Highest, Covering
  <1>2. Covering(book, large) \subseteq Covering(book, small)
    BY DEF Covering, ActiveTiers
  <1>3. CASE Covering(book, large) # {}
    BY <1>1, <1>2, <1>3 DEF Lowest, Covering
  <1>4. CASE Covering(book, large) = {}
    BY <1>1, <1>4 DEF Highest, Lowest, Covering
  <1> QED
    BY <1>3, <1>4

LEMMA EligibleType ==
  ASSUME TypeOK, NEW t
  PROVE  Eligible(t, roster, Submitter) \in SUBSET Members
  BY RostersAssumption DEF TypeOK, Eligible

LEMMA BlankOK ==
  ASSUME TypeOK, NEW r \in Requests, NEW pc \in Ended \cup {"policies"}
  PROVE  Blank(pc) \in Request /\ CallOK(r, Blank(pc))
  <1>1. Blank(pc) \in Request
    BY MembersAssumption DEF Blank, Request, Reading, InTx, Ended, NoProof
  <1>2. CallOK(r, Blank(pc))
    BY DEF Blank, CallOK, Routed, RowIsNew, HoldsAlone, Tallied, FoundQuorum,
           HasRow, HoldsInvoice, InTx, Ended
  <1> QED
    BY <1>1, <1>2

LEMMA InitIInv == Init => IInv
  <1> SUFFICES ASSUME Init PROVE IInv
    OBVIOUS
  <1>1. TypeOK
    <2>1. Blank("idle") \in Request
      BY MembersAssumption DEF Blank, Request, Reading, InTx, Ended, NoProof
    <2>2. Resting \in Worker
      BY DEF Resting, Worker
    <2>3. req \in [Requests -> Request] /\ work \in [Workers -> Worker]
      BY <2>1, <2>2 DEF Init
    <2>4. faults \in 0..MaxFaults
      BY BoundsAssumption DEF Init
    <2> QED
      BY <2>3, <2>4 DEF Init, TypeOK
  <1>2. CallsOK
    <2>1. \A r \in Requests : req[r] = Blank("idle")
      BY DEF Init
    <2> QED
      BY <1>1, <2>1, BlankOK DEF CallsOK, Ended
  <1>3. MoneyOK /\ SubmitterStaysOut
    BY MembersAssumption
    DEF Init, MoneyOK, NotScheduled, Resting, SubmitterStaysOut
  <1> QED
    BY <1>1, <1>2, <1>3 DEF IInv
-----------------------------------------------------------------------------
(* Steps of a call that touch nothing but what it knows.                     *)

LEMMA GoesKeepsIInv ==
  ASSUME IInv, NEW r \in Requests, NEW call \in Request, CallOK(r, call), Goes(r, call)
  PROVE  IInv'
  <1>1. /\ req' = [req EXCEPT ![r] = call]
        /\ UNCHANGED <<roster, status, decision, payout, bar, work, replayable, transfers, faults>>
    BY DEF Goes, rows, rail
  <1>2. TypeOK'
    BY <1>1 DEF IInv, TypeOK
  <1>3. /\ req'[r] = call
        /\ \A q \in Requests \ {r} : req'[q] = req[q]
    BY <1>1 DEF IInv, TypeOK
  <1>4. Approvers' = Approvers
    BY <1>1 DEF Approvers
  <1>5. CallsOK'
    <2> SUFFICES ASSUME NEW p \in Requests PROVE CallOK(p, req[p])'
      BY DEF CallsOK
    <2>1. CASE p = r
      BY <1>1, <1>3, <1>4, <2>1
      DEF CallOK, Routed, RowIsNew, HoldsAlone, Tallied
    <2>2. CASE p # r
      <3>1. CallOK(p, req[p])
        BY DEF IInv, CallsOK
      <3>2. Routed(req[p])' /\ Tallied(req[p])'
        BY <1>1, <1>3, <1>4, <2>2, <3>1 DEF CallOK, Routed, Tallied
      <3>3. RowIsNew(p, req[p])'
        BY <1>1, <1>3, <2>2, <3>1 DEF CallOK, RowIsNew
      <3>4. HoldsAlone(p, req[p])'
        BY <1>1, <1>3, <2>2, <3>1 DEF CallOK, HoldsAlone
      <3> QED
        BY <3>2, <3>3, <3>4 DEF CallOK
    <2> QED
      BY <2>1, <2>2
  <1>6. MoneyOK' /\ SubmitterStaysOut'
    BY <1>1, <1>4 DEF IInv, MoneyOK, NotScheduled, Scheduled, SubmitterStaysOut
  <1> QED
    BY <1>2, <1>5, <1>6 DEF IInv

LEMMA StepBegin ==
  ASSUME IInv, NEW r \in Requests, NEW m \in Members, NEW verdict \in {"approve", "reject"},
         Begin(r, m, verdict)
  PROVE  IInv'
  <1> DEFINE call == [Blank("policies") EXCEPT !.by = m, !.verdict = verdict]
  <1>1. call \in Request
    BY BlankOK DEF IInv, Request, Blank, Ended
  <1>2. CallOK(r, call)
    BY DEF CallOK, Routed, RowIsNew, HoldsAlone, Tallied, FoundQuorum, HasRow,
           HoldsInvoice, InTx, Blank
  <1> QED
    BY <1>1, <1>2, GoesKeepsIInv DEF Begin

LEMMA StepLoadPolicies ==
  ASSUME IInv, NEW r \in Requests, LoadPolicies(r)
  PROVE  IInv'
  <1>1. CASE \E book \in Rulebooks : Select(book, Amount) = {} /\ Goes(r, Blank("idle"))
    BY <1>1, BlankOK, GoesKeepsIInv DEF IInv, Ended
  <1>2. ASSUME NEW book \in Rulebooks, NEW t \in Select(book, Amount),
               Goes(r, [req[r] EXCEPT !.pc = "members", !.tier = t])
        PROVE  IInv'
    <2> DEFINE call == [req[r] EXCEPT !.pc = "members", !.tier = t]
    <2>1. t \in Tiers
      BY DEF Select, Lowest, Highest, Covering, ActiveTiers, Tiers
    <2>2. req[r] \in Request /\ req[r].required >= 1
      BY DEF IInv, TypeOK, CallsOK, CallOK, Routed
    <2>3. call \in Request
      BY <2>1, <2>2 DEF Request, Reading
    <2>4. CallOK(r, call)
      BY <2>1, <2>2
      DEF Request, CallOK, Routed, RowIsNew, HoldsAlone, Tallied, FoundQuorum, HasRow,
          HoldsInvoice, InTx
    <2> QED
      BY <1>2, <2>3, <2>4, GoesKeepsIInv
  <1> QED
    BY <1>1, <1>2 DEF LoadPolicies

LEMMA StepLoadMembers ==
  ASSUME IInv, NEW r \in Requests, LoadMembers(r)
  PROVE  IInv'
  <1> DEFINE eligible == Eligible(req[r].tier, roster, Submitter)
             call == [req[r] EXCEPT !.pc = IF NeedsProof(r) THEN "proof" ELSE "gate",
                                    !.eligible = eligible,
                                    !.required = RequiredApprovals(req[r].tier, eligible)]
  <1>1. req[r] \in Request /\ req[r].pc = "members" /\ req[r].tier \in Tiers
    BY DEF IInv, TypeOK, CallsOK, CallOK, Routed, LoadMembers
  <1>2. eligible \in SUBSET Members
    BY EligibleType DEF IInv
  <1>3. /\ RequiredApprovals(req[r].tier, eligible) \in Nat
        /\ RequiredApprovals(req[r].tier, eligible) >= 1
    <2>1. req[r].tier.required \in Nat
      BY <1>1, TierType
    <2>2. IsFiniteSet(eligible)
      BY <1>2, FiniteMembers
    <2> HIDE DEF eligible
    <2> QED
      BY <2>1, <2>2, RequirementIsReachable
  <1>4. Goes(r, call)
    BY DEF LoadMembers
  <1> HIDE DEF eligible
  <1>5. call \in Request
    BY <1>1, <1>2, <1>3 DEF Request, Reading
  <1>6. CallOK(r, call)
    BY <1>1, <1>3
    DEF Request, CallOK, Routed, RowIsNew, HoldsAlone, Tallied, FoundQuorum, HasRow,
        HoldsInvoice, InTx
  <1> QED
    BY <1>4, <1>5, <1>6, GoesKeepsIInv

LEMMA StepReadProof ==
  ASSUME IInv, NEW r \in Requests, ReadProof(r)
  PROVE  IInv'
  <1>1. PICK age \in {NoProof, req[r].tier.maxAge} :
          Goes(r, [req[r] EXCEPT !.pc = "gate", !.age = age])
    BY DEF ReadProof
  <1> DEFINE call == [req[r] EXCEPT !.pc = "gate", !.age = age]
  <1>2. /\ req[r] \in Request /\ req[r].pc = "proof" /\ req[r].required >= 1
        /\ req[r].tier \in Tiers
    BY DEF IInv, TypeOK, CallsOK, CallOK, Routed, ReadProof
  <1>3. age \in Nat \cup {NoProof}
    BY <1>2, TierType
  <1>4. call \in Request
    BY <1>2, <1>3 DEF Request, Reading
  <1>5. CallOK(r, call)
    BY <1>2
    DEF Request, CallOK, Routed, RowIsNew, HoldsAlone, Tallied, FoundQuorum, HasRow,
        HoldsInvoice, InTx
  <1> QED
    BY <1>1, <1>4, <1>5, GoesKeepsIInv

LEMMA StepGateCheck ==
  ASSUME IInv, NEW r \in Requests, GateCheck(r)
  PROVE  IInv'
  <1> DEFINE open == Gate(req[r].tier, req[r].eligible, req[r].by, Submitter,
                          decision[req[r].by] # "none", req[r].age)
             call == [Blank("insert") EXCEPT !.by = req[r].by, !.verdict = req[r].verdict,
                                             !.required = req[r].required]
  <1>1. /\ req[r] \in Request /\ req[r].pc = "gate" /\ req[r].required >= 1
        /\ req[r].tier \in Tiers
    BY DEF IInv, TypeOK, CallsOK, CallOK, Routed, GateCheck
  <1>2. CASE open
    <2>1. req[r].tier.blockSelf => req[r].by # Submitter
      BY <1>2 DEF Gate
    <2>2. call \in Request
      BY <1>1, MembersAssumption DEF Request, Blank, InTx
    <2>3. CallOK(r, call)
      BY <1>1, <2>1
      DEF Request, Blank, CallOK, Routed, RowIsNew, HoldsAlone, Tallied, FoundQuorum,
          HasRow, HoldsInvoice, InTx, AllBlockSelf
    <2>4. Goes(r, call)
      BY <1>2 DEF GateCheck
    <2> QED
      BY <2>2, <2>3, <2>4, GoesKeepsIInv
  <1>3. CASE ~open
    BY <1>3, BlankOK, GoesKeepsIInv DEF IInv, GateCheck, Ended
  <1> QED
    BY <1>2, <1>3

LEMMA StepInsert ==
  ASSUME IInv, NEW r \in Requests, Insert(r)
  PROVE  IInv'
  <1> DEFINE call == [req[r] EXCEPT !.pc = AfterRow(r)]
             gone == decision[req[r].by] # "none" \/ req[r].by \notin DOMAIN roster
  <1>1. /\ req[r] \in Request /\ req[r].pc = "insert" /\ req[r].required >= 1
        /\ AllBlockSelf => req[r].by # Submitter
    BY DEF IInv, TypeOK, CallsOK, CallOK, Routed, Insert, InTx
  <1>2. CASE gone
    BY <1>2, BlankOK, GoesKeepsIInv DEF IInv, Insert, Ended
  <1>3. CASE ~gone
    <2>1. /\ call.pc \in {"flip", "count"}
          /\ call.pc = "flip" => call.verdict = "reject"
          /\ call.pc = "count" => call.verdict = "approve"
          /\ call.required = req[r].required /\ call.by = req[r].by
      BY <1>1 DEF AfterRow, Request
    <2>2. call \in Request
      BY <1>1, <2>1 DEF Request, InTx
    <2>3. RowIsNew(r, call)
      BY <1>1, <1>3 DEF RowIsNew, Insert, Request
    <2>4. CallOK(r, call)
      BY <1>1, <2>1, <2>3
      DEF Request, CallOK, Routed, HoldsAlone, Tallied, FoundQuorum, HoldsInvoice, InTx
    <2> QED
      BY <1>3, <2>2, <2>4, GoesKeepsIInv DEF Insert
  <1> QED
    BY <1>2, <1>3

LEMMA StepCount ==
  ASSUME IInv, NEW r \in Requests, Count(r)
  PROVE  IInv'
  <1> DEFINE tally == Cardinality(Approvers \cup {req[r].by})
             counted == [req[r] EXCEPT !.collected = tally]
             call == [counted EXCEPT !.pc = IF Quorum(counted) THEN "flip" ELSE "commit"]
  <1>1. /\ req[r] \in Request /\ req[r].pc = "count" /\ req[r].required >= 1
        /\ AllBlockSelf => req[r].by # Submitter
        /\ RowIsNew(r, req[r])
    BY DEF IInv, TypeOK, CallsOK, CallOK, Routed, Count, InTx
  <1>2. tally \in Nat
    BY <1>1, FiniteMembers DEF Approvers, Request
  <1>3. Goes(r, call)
    BY DEF Count, Counted
  <1>4. /\ call.collected = tally /\ call.required = req[r].required
        /\ call.pc = IF tally >= req[r].required THEN "flip" ELSE "commit"
        /\ call.by = req[r].by /\ call.verdict = req[r].verdict
    BY <1>1 DEF Request, Quorum
  <1>5. call \in Request
    BY <1>1, <1>2, <1>4 DEF Request, InTx
  <1>6. req[r].verdict = "approve"
    BY <1>1 DEF IInv, CallsOK, CallOK, Routed
  <1>7. Routed(call) /\ RowIsNew(r, call)
    BY <1>1, <1>4 DEF Routed, RowIsNew, HasRow, InTx
  <1>8. Tallied(call) /\ HoldsAlone(r, call)
    BY <1>1, <1>2, <1>4, <1>6 DEF Request, Tallied, FoundQuorum, Quorum, HoldsAlone, HoldsInvoice
  <1> QED
    BY <1>3, <1>5, <1>7, <1>8, GoesKeepsIInv DEF CallOK

LEMMA StepFlip ==
  ASSUME IInv, NEW r \in Requests, Flip(r)
  PROVE  IInv'
  <1> DEFINE call == [req[r] EXCEPT !.pc = IF req[r].verdict = "reject" THEN "commit"
                                                                        ELSE "enqueue"]
  <1>1. /\ req[r] \in Request /\ req[r].pc = "flip" /\ CallOK(r, req[r])
        /\ \A q \in Requests \ {r} : ~HoldsInvoice(req[q])
        /\ Goes(r, call)
    BY DEF IInv, TypeOK, CallsOK, Flip
  <1>2. call \in Request
    BY <1>1 DEF Request, InTx
  <1>3. CallOK(r, call)
    BY <1>1
    DEF Request, CallOK, Routed, RowIsNew, HoldsAlone, Tallied, FoundQuorum, Quorum,
        HasRow, InTx
  <1> QED
    BY <1>1, <1>2, <1>3, GoesKeepsIInv

LEMMA StepEnqueue ==
  ASSUME IInv, NEW r \in Requests, Enqueue(r)
  PROVE  IInv'
  <1> DEFINE call == [req[r] EXCEPT !.pc = "commit"]
  <1>1. req[r] \in Request /\ req[r].pc = "enqueue" /\ CallOK(r, req[r])
    BY DEF IInv, TypeOK, CallsOK, Enqueue
  <1>2. CASE payout.state = "none"
    <2>1. call \in Request
      BY <1>1 DEF Request, InTx
    <2>2. CallOK(r, call)
      BY <1>1, <1>2
      DEF Request, CallOK, Routed, RowIsNew, HoldsAlone, HoldsInvoice, Tallied,
          FoundQuorum, Quorum, HasRow, InTx
    <2> QED
      BY <1>2, <2>1, <2>2, GoesKeepsIInv DEF Enqueue
  <1>3. CASE payout.state # "none"
    BY <1>3, BlankOK, GoesKeepsIInv DEF IInv, Enqueue, Ended
  <1> QED
    BY <1>2, <1>3

LEMMA StepRequestFails ==
  ASSUME IInv, NEW r \in Requests, RequestFails(r)
  PROVE  IInv'
  BY BlankOK, GoesKeepsIInv DEF IInv, RequestFails, Ended
-----------------------------------------------------------------------------
(* Steps that put a decision on the record.                                  *)

(* What is counted once stays counted: the call's member has no other row,   *)
(* and no other call in flight is of the same member.                        *)
LEMMA RecordFacts ==
  ASSUME IInv, NEW r \in Requests, Records(r)
  PROVE  /\ req[r] \in Request /\ req[r].pc = "commit" /\ CallOK(r, req[r])
         /\ decision[req[r].by] = "none"
         /\ decision' = [decision EXCEPT ![req[r].by] = req[r].verdict]
         /\ Approvers' = IF req[r].verdict = "approve" THEN Approvers \cup {req[r].by}
                                                       ELSE Approvers
         /\ req'[r] = Blank("idle")
         /\ \A q \in Requests \ {r} :
              /\ req'[q] = req[q]
              /\ HasRow(req[q]) => decision'[req[q].by] = decision[req[q].by]
  <1>1. req[r] \in Request /\ req[r].pc = "commit" /\ CallOK(r, req[r])
    BY DEF IInv, TypeOK, CallsOK, Records
  <1>2. /\ decision' = [decision EXCEPT ![req[r].by] = req[r].verdict]
        /\ req' = [req EXCEPT ![r] = Blank("idle")]
    BY DEF Records
  <1>3. /\ decision[req[r].by] = "none"
        /\ \A q \in Requests \ {r} : HasRow(req[q]) => req[q].by # req[r].by
    BY <1>1 DEF CallOK, RowIsNew, HasRow, InTx
  <1>4. /\ req'[r] = Blank("idle")
        /\ \A q \in Requests \ {r} : req'[q] = req[q]
    BY <1>2 DEF IInv, TypeOK
  <1>5. \A q \in Requests \ {r} : HasRow(req[q]) => decision'[req[q].by] = decision[req[q].by]
    BY <1>2, <1>3 DEF IInv, TypeOK, Request
  <1>6. req[r].by \in Members /\ req[r].verdict \in {"approve", "reject"}
    BY <1>1 DEF Request
  <1>7. Approvers' = IF req[r].verdict = "approve" THEN Approvers \cup {req[r].by}
                                                   ELSE Approvers
    BY <1>2, <1>3, <1>6 DEF IInv, TypeOK, Approvers
  <1> QED
    BY <1>1, <1>2, <1>3, <1>4, <1>5, <1>7

LEMMA RecordsKeepsType ==
  ASSUME IInv, NEW r \in Requests, Records(r),
         status' \in {"pending_approval", "approved", "rejected", "paid"},
         payout' \in [state: {"none", "queued", "claimed", "done", "dead"}, attempts: Nat],
         bar' \in Nat
  PROVE  TypeOK'
  <1>1. Blank("idle") \in Request
    BY BlankOK DEF IInv, Ended
  <1>2. req[r].by \in Members /\ req[r].verdict \in {"approve", "reject"}
    BY DEF IInv, TypeOK, Request
  <1>3. req' \in [Requests -> Request]
    BY <1>1 DEF IInv, TypeOK, Records
  <1>4. decision' \in [Members -> {"none", "approve", "reject"}]
    BY <1>2 DEF IInv, TypeOK, Records
  <1> QED
    BY <1>3, <1>4 DEF IInv, TypeOK, Records, rail

(* The other calls may go on relying on what they know.                      *)
LEMMA RecordsKeepsCalls ==
  ASSUME IInv, NEW r \in Requests, Records(r),
         payout'.state = payout.state \/ HoldsInvoice(req[r])
  PROVE  CallsOK'
  <1> SUFFICES ASSUME NEW p \in Requests PROVE CallOK(p, req[p])'
    BY DEF CallsOK
  <1>1. CASE p = r
    <2>1. req'[p] = Blank("idle")
      BY <1>1, RecordFacts
    <2> QED
      BY <2>1
      DEF Blank, CallOK, Routed, RowIsNew, HoldsAlone, Tallied, FoundQuorum, HasRow,
          HoldsInvoice, InTx
  <1>2. CASE p # r
    <2>1. /\ CallOK(p, req[p]) /\ req'[p] = req[p] /\ req[p] \in Request
          /\ HasRow(req[p]) => decision'[req[p].by] = decision[req[p].by]
      BY <1>2, RecordFacts DEF IInv, TypeOK, CallsOK
    <2>2. /\ ~HasRow(req'[r]) /\ ~HoldsInvoice(req'[r])
          /\ \A q \in Requests \ {r} : req'[q] = req[q]
      BY RecordFacts DEF Blank, HasRow, HoldsInvoice, InTx
    <2>3. Routed(req[p])'
      BY <2>1 DEF CallOK, Routed
    <2>4. RowIsNew(p, req[p])'
      BY <2>1, <2>2 DEF CallOK, RowIsNew
    <2>5. HoldsAlone(p, req[p])'
      BY <2>1, <2>2 DEF CallOK, HoldsAlone
    <2>6. Tallied(req[p])'
      <3>1. /\ Approvers \cup {req[p].by} \in SUBSET (Approvers' \cup {req[p].by})
            /\ Approvers' \cup {req[p].by} \in SUBSET Members
        BY <2>1, RecordFacts DEF Request, Approvers
      <3>2. Cardinality(Approvers \cup {req[p].by}) <= Cardinality(Approvers' \cup {req[p].by})
        BY <3>1, Monotone
      <3>3. /\ Cardinality(Approvers \cup {req[p].by}) \in Nat
            /\ Cardinality(Approvers' \cup {req[p].by}) \in Nat
        BY <3>1, FiniteMembers
      <3>4. FoundQuorum(req[p]) /\ req[p].pc = "commit" => payout'.state = payout.state
        BY <1>2, <2>1 DEF CallOK, HoldsAlone, HoldsInvoice, FoundQuorum
      <3> QED
        BY <2>1, <3>2, <3>3, <3>4 DEF CallOK, Tallied, FoundQuorum, Request
    <2> QED
      BY <2>3, <2>4, <2>5, <2>6 DEF CallOK
  <1> QED
    BY <1>1, <1>2

LEMMA RecordsKeepsSubmitterOut ==
  ASSUME IInv, NEW r \in Requests, Records(r)
  PROVE  SubmitterStaysOut'
  <1>1. AllBlockSelf => req[r].by # Submitter
    BY RecordFacts DEF CallOK, Routed, InTx
  <1>2. req[r].by # Submitter => decision'[Submitter] = decision[Submitter]
    BY MembersAssumption, RecordFacts DEF IInv, TypeOK
  <1> QED
    BY <1>1, <1>2 DEF IInv, SubmitterStaysOut, AllBlockSelf

LEMMA MoreApprovers ==
  ASSUME IInv, NEW r \in Requests, Records(r)
  PROVE  /\ Cardinality(Approvers) \in Nat /\ Cardinality(Approvers') \in Nat
         /\ Cardinality(Approvers) <= Cardinality(Approvers')
  <1>1. Approvers \in SUBSET Approvers' /\ Approvers' \in SUBSET Members
    BY RecordFacts DEF Request, Approvers
  <1> QED
    BY <1>1, FiniteMembers, Monotone

LEMMA StepCommitRejection ==
  ASSUME IInv, NEW r \in Requests, CommitRejection(r)
  PROVE  IInv'
  <1>1. /\ Records(r) /\ status' = "rejected"
        /\ UNCHANGED <<payout, bar, work, replayable, transfers>>
    BY DEF CommitRejection, Records, rail
  <1>2. TypeOK'
    BY <1>1, RecordsKeepsType DEF IInv, TypeOK
  <1>3. CallsOK'
    BY <1>1, RecordsKeepsCalls
  <1>4. MoneyOK'
    BY <1>1, MoreApprovers DEF IInv, TypeOK, MoneyOK, NotScheduled, Scheduled
  <1> QED
    BY <1>1, <1>2, <1>3, <1>4, RecordsKeepsSubmitterOut DEF IInv

LEMMA StepCommitApproval ==
  ASSUME IInv, NEW r \in Requests, CommitApproval(r)
  PROVE  IInv'
  <1>1. Records(r) /\ UNCHANGED <<status, payout, bar, work, replayable, transfers>>
    BY DEF CommitApproval, Records, rail
  <1>2. TypeOK'
    BY <1>1, RecordsKeepsType DEF IInv, TypeOK
  <1>3. CallsOK'
    BY <1>1, RecordsKeepsCalls
  <1>4. MoneyOK'
    BY <1>1, MoreApprovers DEF IInv, TypeOK, MoneyOK, NotScheduled, Scheduled
  <1> QED
    BY <1>1, <1>2, <1>3, <1>4, RecordsKeepsSubmitterOut DEF IInv

(* The payout that a quorum leaves is the first one, and has its approvals.  *)
LEMMA QuorumFacts ==
  ASSUME IInv, NEW r \in Requests, CommitQuorum(r)
  PROVE  /\ HoldsInvoice(req[r])
         /\ payout.state = "none" /\ NotScheduled
         /\ Approvers' = Approvers \cup {req[r].by}
         /\ req[r].by \in Members
         /\ bar' \in Nat /\ bar' >= 1 /\ Cardinality(Approvers') >= bar'
  <1>1. Records(r) /\ req[r].verdict = "approve" /\ Quorum(req[r]) /\ bar' = req[r].required
    BY DEF CommitQuorum
  <1>2. /\ req[r] \in Request /\ req[r].pc = "commit" /\ CallOK(r, req[r])
        /\ Approvers' = Approvers \cup {req[r].by}
    BY <1>1, RecordFacts
  <1>3. FoundQuorum(req[r]) /\ HoldsInvoice(req[r])
    BY <1>1, <1>2 DEF FoundQuorum, HoldsInvoice
  <1>4. payout.state = "none" /\ Cardinality(Approvers \cup {req[r].by}) >= req[r].required
    BY <1>2, <1>3 DEF CallOK, Tallied
  <1> QED
    BY <1>1, <1>2, <1>3, <1>4 DEF IInv, MoneyOK, CallOK, Routed, Request

LEMMA StepCommitQuorum ==
  ASSUME IInv, NEW r \in Requests, CommitQuorum(r)
  PROVE  IInv'
  <1>1. /\ Records(r) /\ status' = "approved"
        /\ payout' = [state |-> "queued", attempts |-> 0]
        /\ UNCHANGED <<work, replayable, transfers>>
    BY DEF CommitQuorum, Records, rail
  <1>2. TypeOK'
    BY <1>1, RecordsKeepsType, QuorumFacts
  <1>3. CallsOK'
    BY <1>1, RecordsKeepsCalls, QuorumFacts
  <1>4. MoneyOK'
    <2>1. Scheduled' /\ \A w \in Workers : work[w].pc = "idle"
      BY <1>1, QuorumFacts DEF Scheduled, NotScheduled
    <2> QED
      BY <1>1, <2>1 DEF IInv, MoneyOK
  <1> QED
    BY <1>1, <1>2, <1>3, <1>4, RecordsKeepsSubmitterOut DEF IInv

-----------------------------------------------------------------------------
(* Steps outside the calls.                                                  *)

LEMMA StepChangeRoster ==
  ASSUME IInv, ChangeRoster
  PROVE  IInv'
  <1>1. /\ roster' \in Rosters
        /\ UNCHANGED <<status, decision, payout, bar, req, work, replayable, transfers, faults>>
    BY DEF ChangeRoster, rows, rail
  <1>2. TypeOK'
    BY <1>1 DEF IInv, TypeOK
  <1>3. CallsOK'
    BY <1>1
    DEF IInv, CallsOK, CallOK, Routed, RowIsNew, HoldsAlone, Tallied, Approvers
  <1>4. MoneyOK' /\ SubmitterStaysOut'
    BY <1>1
    DEF IInv, MoneyOK, NotScheduled, Scheduled, Approvers, SubmitterStaysOut
  <1> QED
    BY <1>2, <1>3, <1>4 DEF IInv

(* A worker's step touches no call and no decision, and the payout it works  *)
(* on exists before and after.                                               *)
LEMMA UntouchedKeepsCalls ==
  ASSUME IInv, Untouched, payout.state # "none", payout'.state # "none"
  PROVE  /\ CallsOK' /\ SubmitterStaysOut'
         /\ Scheduled /\ Approvers' = Approvers
  <1>1. UNCHANGED <<decision, req, bar>>
    BY DEF Untouched
  <1>2. Approvers' = Approvers
    BY <1>1 DEF Approvers
  <1>3. CallsOK'
    BY <1>1, <1>2
    DEF IInv, CallsOK, CallOK, Routed, RowIsNew, HoldsAlone, Tallied
  <1> QED
    BY <1>1, <1>2, <1>3 DEF IInv, MoneyOK, SubmitterStaysOut

\* Whoever works on the payout works on one that is scheduled.
LEMMA WorkIsScheduled ==
  ASSUME IInv, NEW w \in Workers, work[w].pc # "idle"
  PROVE  payout.state # "none"
  BY DEF IInv, MoneyOK, NotScheduled

LEMMA StepDeliver ==
  ASSUME IInv, NEW w \in Workers, Deliver(w)
  PROVE  IInv'
  <1>1. /\ payout.state \in {"queued", "claimed"}
        /\ payout' = [state |-> "claimed", attempts |-> payout.attempts + 1]
        /\ work' = [work EXCEPT ![w] = [pc |-> "read", attempt |-> payout.attempts + 1,
                                        late |-> FALSE]]
        /\ UNCHANGED <<roster, status, decision, req, bar, replayable, transfers>> /\ Untouched
    BY DEF Deliver, Deliverable, Untouched, rail
  <1>2. payout.attempts + 1 \in Nat
    BY DEF IInv, TypeOK
  <1>3. faults' \in 0..MaxFaults
    BY BoundsAssumption DEF IInv, TypeOK, Deliver, Deliverable
  <1>4. work' \in [Workers -> Worker]
    BY <1>1, <1>2 DEF IInv, TypeOK, Worker
  <1>5. TypeOK'
    BY <1>1, <1>2, <1>3, <1>4 DEF IInv, TypeOK
  <1>6. CallsOK' /\ SubmitterStaysOut' /\ Scheduled /\ Approvers' = Approvers
    BY <1>1, UntouchedKeepsCalls
  <1>7. MoneyOK'
    BY <1>1, <1>6 DEF IInv, TypeOK, MoneyOK, Scheduled
  <1> QED
    BY <1>5, <1>6, <1>7 DEF IInv

(* The steps of handlePayout leave the job as it is.                         *)
LEMMA StepWork ==
  ASSUME IInv, NEW w \in Workers,
         \/ PayoutRead(w) \/ PayoutSend(w) \/ PayoutMark(w) \/ PayoutAudit(w)
         \/ PayoutFails(w) \/ WorkerCrash(w) \/ Outlasts(w)
  PROVE  IInv'
  <1>1. work[w].pc # "idle" /\ payout' = payout /\ UNCHANGED <<roster, decision, req, bar>> /\ Untouched
    BY DEF PayoutRead, PayoutSend, PayoutMark, PayoutAudit, PayoutFails, WorkerCrash,
           Outlasts, Untouched
  <1>2. payout.state # "none"
    BY <1>1, WorkIsScheduled
  <1>3. CallsOK' /\ SubmitterStaysOut' /\ Scheduled /\ Approvers' = Approvers
    BY <1>1, <1>2, UntouchedKeepsCalls
  <1>4. TypeOK' /\ MoneyOK'
    <2>1. CASE PayoutRead(w)
      <3>1. /\ work[w].pc = "read"
            /\ work' = [work EXCEPT ![w].pc = IF Payable THEN "send" ELSE "complete"]
            /\ UNCHANGED <<status, replayable, transfers, faults>>
        BY <2>1 DEF PayoutRead, Moves, rail
      <3>2. ~Payable => status \in {"paid", "rejected"}
        BY <1>3 DEF IInv, TypeOK, Scheduled, Payable
      <3>3. TypeOK'
        BY <1>1, <3>1 DEF IInv, TypeOK, Worker
      <3>4. MoneyOK'
        BY <1>1, <1>2, <1>3, <3>1, <3>2 DEF IInv, TypeOK, Worker, MoneyOK, Scheduled
      <3> QED
        BY <3>3, <3>4
    <2>2. CASE PayoutSend(w)
      <3>1. /\ work[w].pc = "send" /\ work' = [work EXCEPT ![w].pc = "mark"]
            /\ replayable' = TRUE
            /\ transfers' = IF replayable THEN transfers ELSE transfers + 1
            /\ UNCHANGED <<status, faults>>
        BY <2>2 DEF PayoutSend, Moves
      <3>2. TypeOK'
        BY <1>1, <3>1 DEF IInv, TypeOK, Worker
      <3>3. MoneyOK'
        BY <1>1, <1>2, <1>3, <3>1 DEF IInv, TypeOK, Worker, MoneyOK, Scheduled
      <3> QED
        BY <3>2, <3>3
    <2>3. CASE PayoutMark(w)
      <3>1. /\ work[w].pc = "mark" /\ work' = [work EXCEPT ![w].pc = "audit"]
            /\ status' = "paid"
            /\ UNCHANGED <<replayable, transfers, faults>>
        BY <2>3 DEF PayoutMark, Moves, rail
      <3>2. TypeOK'
        BY <1>1, <3>1 DEF IInv, TypeOK, Worker
      <3>3. MoneyOK'
        BY <1>1, <1>2, <1>3, <3>1 DEF IInv, TypeOK, Worker, MoneyOK, Scheduled
      <3> QED
        BY <3>2, <3>3
    <2>4. CASE PayoutAudit(w)
      <3>1. /\ work[w].pc = "audit" /\ work' = [work EXCEPT ![w].pc = "complete"]
            /\ UNCHANGED <<status, replayable, transfers, faults>>
        BY <2>4 DEF PayoutAudit, Moves, rail
      <3>2. TypeOK'
        BY <1>1, <3>1 DEF IInv, TypeOK, Worker
      <3>3. MoneyOK'
        BY <1>1, <1>2, <1>3, <3>1 DEF IInv, TypeOK, Worker, MoneyOK, Scheduled
      <3> QED
        BY <3>2, <3>3
    <2>5. CASE PayoutFails(w)
      <3>1. /\ work' = [work EXCEPT ![w].pc = "fail"]
            /\ UNCHANGED <<status, replayable, transfers, faults>>
        BY <2>5 DEF PayoutFails, Moves, rail
      <3>2. TypeOK'
        BY <1>1, <3>1 DEF IInv, TypeOK, Worker
      <3>3. MoneyOK'
        BY <1>1, <1>2, <1>3, <3>1 DEF IInv, TypeOK, Worker, MoneyOK, Scheduled
      <3> QED
        BY <3>2, <3>3
    <2>6. CASE WorkerCrash(w)
      <3>1. /\ work' = [work EXCEPT ![w] = Resting]
            /\ UNCHANGED <<status, replayable, transfers>> /\ faults' \in 0..MaxFaults
        BY <2>6, BoundsAssumption DEF IInv, TypeOK, WorkerCrash, rail
      <3>2. TypeOK'
        BY <1>1, <3>1 DEF IInv, TypeOK, Worker, Resting
      <3>3. MoneyOK'
        BY <1>1, <1>2, <1>3, <3>1 DEF IInv, TypeOK, Worker, Resting, MoneyOK, Scheduled
      <3> QED
        BY <3>2, <3>3
    <2>7. CASE Outlasts(w)
      <3>1. /\ work' = [work EXCEPT ![w].late = TRUE]
            /\ UNCHANGED <<status, replayable, transfers>> /\ faults' \in 0..MaxFaults
        BY <2>7, BoundsAssumption DEF IInv, TypeOK, Outlasts, rail
      <3>2. TypeOK'
        BY <1>1, <3>1 DEF IInv, TypeOK, Worker
      <3>3. MoneyOK'
        BY <1>1, <1>2, <1>3, <3>1 DEF IInv, TypeOK, Worker, MoneyOK, Scheduled
      <3> QED
        BY <3>2, <3>3
    <2> QED
      BY <2>1, <2>2, <2>3, <2>4, <2>5, <2>6, <2>7
  <1> QED
    BY <1>3, <1>4 DEF IInv

LEMMA StepSettle ==
  ASSUME IInv, NEW w \in Workers, Settle(w)
  PROVE  IInv'
  <1> DEFINE outcome == IF work[w].pc = "complete" THEN "done"
                        ELSE IF work[w].attempt >= MaxAttempts THEN "dead" ELSE "queued"
  <1>1. /\ work[w].pc \in {"complete", "fail"}
        /\ payout' = [payout EXCEPT !.state = outcome]
        /\ work' = [work EXCEPT ![w] = Resting]
        /\ UNCHANGED <<roster, status, decision, req, bar, replayable, transfers, faults>>
        /\ Untouched
    BY DEF Settle, Untouched, rail
  <1>2. payout.state # "none"
    BY <1>1, WorkIsScheduled
  <1>3. /\ payout'.state = outcome
        /\ payout' \in [state: {"none", "queued", "claimed", "done", "dead"}, attempts: Nat]
        /\ outcome \in {"done", "dead", "queued"}
    BY <1>1 DEF IInv, TypeOK
  <1>4. TypeOK'
    BY <1>1, <1>3 DEF IInv, TypeOK, Worker, Resting
  <1>5. CallsOK' /\ SubmitterStaysOut' /\ Scheduled /\ Approvers' = Approvers
    BY <1>1, <1>2, <1>3, UntouchedKeepsCalls
  <1>6. outcome = "done" => status \in {"paid", "rejected"}
    BY <1>1 DEF IInv, MoneyOK
  <1>7. MoneyOK'
    <2> HIDE DEF outcome
    <2> QED
      BY <1>1, <1>2, <1>3, <1>5, <1>6 DEF IInv, TypeOK, Worker, Resting, MoneyOK, Scheduled
  <1> QED
    BY <1>4, <1>5, <1>7 DEF IInv

LEMMA StutterKeepsIInv ==
  ASSUME IInv, UNCHANGED vars
  PROVE  IInv'
  <1>1. UNCHANGED <<roster, status, decision, payout, bar, req, work, replayable, transfers, faults>>
    BY DEF vars, rows, rail
  <1>2. TypeOK'
    BY <1>1 DEF IInv, TypeOK
  <1>3. CallsOK'
    BY <1>1
    DEF IInv, CallsOK, CallOK, Routed, RowIsNew, HoldsAlone, Tallied, Approvers
  <1>4. MoneyOK' /\ SubmitterStaysOut'
    BY <1>1
    DEF IInv, MoneyOK, NotScheduled, Scheduled, Approvers, SubmitterStaysOut
  <1> QED
    BY <1>2, <1>3, <1>4 DEF IInv

LEMMA StepAdvance ==
  ASSUME IInv, NEW r \in Requests, Advance(r)
  PROVE  IInv'
  BY StepLoadPolicies, StepLoadMembers, StepReadProof, StepGateCheck, StepInsert,
     StepCount, StepFlip, StepEnqueue, StepCommitRejection, StepCommitApproval,
     StepCommitQuorum
  DEF Advance

LEMMA NextKeepsIInv == IInv /\ [Next]_vars => IInv'
  <1> SUFFICES ASSUME IInv, [Next]_vars PROVE IInv'
    OBVIOUS
  <1>1. CASE ChangeRoster
    BY <1>1, StepChangeRoster
  <1>2. ASSUME NEW r \in Requests, NEW m \in Members, NEW verdict \in {"approve", "reject"},
               Begin(r, m, verdict)
        PROVE  IInv'
    BY <1>2, StepBegin
  <1>3. ASSUME NEW r \in Requests, Advance(r) \/ RequestFails(r)
        PROVE  IInv'
    BY <1>3, StepAdvance, StepRequestFails
  <1>4. ASSUME NEW w \in Workers, Deliver(w) \/ Outlasts(w) \/ Works(w) \/ PayoutFails(w) \/ WorkerCrash(w)
        PROVE  IInv'
    BY <1>4, StepDeliver, StepWork, StepSettle DEF Works
  <1>5. CASE UNCHANGED vars
    BY <1>5, StutterKeepsIInv
  <1> QED
    BY <1>1, <1>2, <1>3, <1>4, <1>5 DEF Next

LEMMA InvariantHolds == Spec => []IInv
  BY InitIInv, NextKeepsIInv, PTL DEF Spec

(* Every variable stays in its type, whatever calls, edits and crashes.      *)
THEOREM TypeCorrect == Spec => []TypeOK
  <1>1. IInv => TypeOK
    BY DEF IInv
  <1> QED
    BY <1>1, InvariantHolds, PTL

(* The approval by quorum and its payout job are never seen apart            *)
(* (approvals.go, the outbox write in Decide's transaction).                 *)
THEOREM OutboxHolds == Spec => []OutboxAgrees
  <1>1. IInv => OutboxAgrees
    BY DEF IInv, MoneyOK, NotScheduled, Scheduled, OutboxAgrees
  <1> QED
    BY <1>1, InvariantHolds, PTL

(* No payout is scheduled on fewer different approvals than were asked for,  *)
(* however many calls run at once and whatever owners edit meanwhile.        *)
THEOREM QuorumHolds == Spec => []QuorumBacksPayout
  <1>1. IInv => QuorumBacksPayout
    BY DEF IInv, MoneyOK, Scheduled, QuorumBacksPayout
  <1> QED
    BY <1>1, InvariantHolds, PTL

(* The treasury pays an invoice at most once, whatever workers crash, stall  *)
(* or run the job at the same time (payout.go, the idempotency key).         *)
THEOREM PaidOnce == Spec => []PaysOnce
  <1>1. IInv => PaysOnce
    BY DEF IInv, MoneyOK, PaysOnce
  <1> QED
    BY <1>1, InvariantHolds, PTL

(* Where every tier blocks self-approval the submitter never decides.        *)
THEOREM SubmitterNeverDecides == Spec => []SubmitterStaysOut
  <1>1. IInv => SubmitterStaysOut
    BY DEF IInv
  <1> QED
    BY <1>1, InvariantHolds, PTL

\* Who has an approvals row, committed or not, has a seat.
RowsAreFounded ==
  /\ \A m \in Members : decision[m] # "none" => m \in DOMAIN roster
  /\ \A r \in Requests : HasRow(req[r]) => req[r].by \in DOMAIN roster

LEMMA NextKeepsFounded == IInv /\ RowsAreFounded /\ [Next]_vars => RowsAreFounded'
  <1> SUFFICES ASSUME IInv, RowsAreFounded, [Next]_vars PROVE RowsAreFounded'
    OBVIOUS
  <1>1. /\ req \in [Requests -> Request] /\ decision \in [Members -> {"none", "approve", "reject"}]
        /\ \A r \in Requests : req[r].by \in Members
    BY DEF IInv, TypeOK, Request
  (* A call that goes on has a row it had before, or none.                   *)
  <1>2. ASSUME NEW r \in Requests, NEW call, Goes(r, call),
               HasRow(call) => call.by \in DOMAIN roster
        PROVE  RowsAreFounded'
    BY <1>1, <1>2 DEF RowsAreFounded, Goes, rows, HasRow
  <1>3. ASSUME NEW pc \in Ended \cup {"policies"} PROVE ~HasRow(Blank(pc))
    BY <1>3 DEF Blank, HasRow, InTx, Ended
  <1>4. CASE ChangeRoster
    <2>1. Referenced \subseteq DOMAIN roster' /\ UNCHANGED <<decision, req>>
      BY <1>4 DEF ChangeRoster, rows
    <2> QED
      BY <1>1, <2>1 DEF RowsAreFounded, Referenced, HasRow
  <1>5. ASSUME NEW r \in Requests, NEW m \in Members, NEW verdict \in {"approve", "reject"},
               Begin(r, m, verdict)
        PROVE  RowsAreFounded'
    <2>1. ~HasRow([Blank("policies") EXCEPT !.by = m, !.verdict = verdict])
      BY DEF Blank, HasRow, InTx
    <2> QED
      BY <1>2, <1>5, <2>1 DEF Begin
  <1>6. ASSUME NEW r \in Requests,
               LoadPolicies(r) \/ LoadMembers(r) \/ ReadProof(r) \/ GateCheck(r) \/ RequestFails(r)
        PROVE  RowsAreFounded'
    <2>1. ASSUME NEW call, Goes(r, call), call.pc \notin InTx \ {"insert"}
          PROVE  RowsAreFounded'
      BY <1>2, <2>1 DEF HasRow
    <2>2. \A pc \in {"idle", "insert"} : Blank(pc).pc \notin InTx \ {"insert"}
      BY DEF Blank, InTx
    <2> USE <1>1, <1>6, <2>1, <2>2
    <2>3. CASE LoadPolicies(r)
      <3>1. \A t : [req[r] EXCEPT !.pc = "members", !.tier = t].pc \notin InTx
        BY DEF InTx, Request
      <3> QED
        BY <2>3, <3>1 DEF LoadPolicies
    <2>4. CASE LoadMembers(r)
      <3>1. PICK eligible, required :
              Goes(r, [req[r] EXCEPT !.pc = IF NeedsProof(r) THEN "proof" ELSE "gate",
                                     !.eligible = eligible, !.required = required])
        BY <2>4 DEF LoadMembers
      <3>2. [req[r] EXCEPT !.pc = IF NeedsProof(r) THEN "proof" ELSE "gate",
                           !.eligible = eligible, !.required = required].pc \notin InTx
        BY DEF InTx, Request
      <3> QED
        BY <3>1, <3>2
    <2>5. CASE ReadProof(r)
      <3>1. \A age : [req[r] EXCEPT !.pc = "gate", !.age = age].pc \notin InTx
        BY DEF InTx, Request
      <3> QED
        BY <2>5, <3>1 DEF ReadProof
    <2>6. CASE GateCheck(r)
      <3>1. [Blank("insert") EXCEPT !.by = req[r].by, !.verdict = req[r].verdict,
                                    !.required = req[r].required].pc = "insert"
        BY DEF Blank
      <3> QED
        BY <2>6, <3>1 DEF GateCheck, InTx
    <2>7. CASE RequestFails(r)
      BY <2>7 DEF RequestFails
    <2> QED
      BY <2>3, <2>4, <2>5, <2>6, <2>7
  (* The foreign key.                                                        *)
  <1>7. ASSUME NEW r \in Requests, Insert(r) PROVE RowsAreFounded'
    <2>1. CASE Goes(r, Blank("idle"))
      BY <1>2, <1>3, <2>1 DEF Ended
    <2>2. CASE req[r].by \in DOMAIN roster /\ Goes(r, [req[r] EXCEPT !.pc = AfterRow(r)])
      <3>1. [req[r] EXCEPT !.pc = AfterRow(r)].by = req[r].by
        BY <1>1 DEF Request
      <3> QED
        BY <1>2, <2>2, <3>1
    <2> QED
      BY <1>7, <2>1, <2>2 DEF Insert
  <1>8. ASSUME NEW r \in Requests, Count(r) \/ Flip(r) \/ Enqueue(r) PROVE RowsAreFounded'
    <2>1. HasRow(req[r])
      BY <1>8 DEF Count, Flip, Enqueue, HasRow, InTx
    <2>2. ASSUME NEW call, Goes(r, call), call.by = req[r].by PROVE RowsAreFounded'
      BY <1>2, <2>1, <2>2 DEF RowsAreFounded
    <2>3. \A pc : [req[r] EXCEPT !.pc = pc].by = req[r].by
      BY <1>1 DEF Request
    <2>4. CASE Count(r)
      <3>1. PICK n, pc : Goes(r, [[req[r] EXCEPT !.collected = n] EXCEPT !.pc = pc])
        BY <2>4 DEF Count, Counted
      <3>2. [[req[r] EXCEPT !.collected = n] EXCEPT !.pc = pc].by = req[r].by
        BY <1>1 DEF Request
      <3> QED
        BY <2>2, <3>1, <3>2
    <2>5. CASE Flip(r)
      BY <2>2, <2>3, <2>5 DEF Flip
    <2>6. CASE Enqueue(r)
      <3>1. CASE Goes(r, Blank("duplicate"))
        BY <1>2, <1>3, <3>1 DEF Ended
      <3> QED
        BY <2>2, <2>3, <2>6, <3>1 DEF Enqueue
    <2> QED
      BY <1>8, <2>4, <2>5, <2>6
  <1>9. ASSUME NEW r \in Requests, Records(r) PROVE RowsAreFounded'
    <2>1. /\ req[r].pc = "commit" /\ UNCHANGED roster
          /\ decision' = [decision EXCEPT ![req[r].by] = req[r].verdict]
          /\ req' = [req EXCEPT ![r] = Blank("idle")]
      BY <1>9 DEF Records
    <2>2. req[r].by \in DOMAIN roster
      BY <2>1 DEF RowsAreFounded, HasRow, InTx
    <2>3. ~HasRow(Blank("idle"))
      BY <1>3 DEF Ended
    <2> QED
      BY <1>1, <2>1, <2>2, <2>3 DEF RowsAreFounded, HasRow
  <1>10. ASSUME UNCHANGED <<roster, decision, req>> PROVE RowsAreFounded'
    BY <1>10 DEF RowsAreFounded, HasRow
  <1>11. ASSUME NEW w \in Workers, Deliver(w) \/ Outlasts(w) \/ Works(w) \/ PayoutFails(w) \/ WorkerCrash(w)
         PROVE  UNCHANGED <<roster, decision, req>>
    BY <1>11
    DEF Deliver, Outlasts, Works, PayoutRead, PayoutSend, PayoutMark, PayoutAudit, Settle,
        PayoutFails, WorkerCrash, Untouched
  <1>12. CASE UNCHANGED vars
    BY <1>10, <1>12 DEF vars, rows
  <1> QED
    BY <1>4, <1>5, <1>6, <1>7, <1>8, <1>9, <1>10, <1>11, <1>12
    DEF Next, Advance, CommitRejection, CommitApproval, CommitQuorum

(* Whoever has decided still has a seat, and is not the submitter where      *)
(* every tier blocks self-approval: what a call read before its transaction  *)
(* may be stale, but the foreign key keeps its row from outliving its owner. *)
THEOREM DecidersAreMembers == Spec => []DecidersBelong
  <1>1. Init => RowsAreFounded
    BY DEF Init, RowsAreFounded, Blank, HasRow, InTx
  <1>2. IInv /\ RowsAreFounded => DecidersBelong
    BY DEF IInv, RowsAreFounded, DecidersBelong
  <1> QED
    BY <1>1, <1>2, NextKeepsFounded, InvariantHolds, PTL DEF Spec

(* A payout job is only ever completed over an invoice that is paid or was   *)
(* rejected, and an invoice is only called paid after its transfer.          *)
THEOREM DoneMeansSettled == Spec => []DoneIsSettled
  <1>1. IInv => DoneIsSettled
    BY DEF IInv, TypeOK, MoneyOK, DoneIsSettled
  <1> QED
    BY <1>1, InvariantHolds, PTL

-----------------------------------------------------------------------------
Commits(r) == CommitRejection(r) \/ CommitApproval(r) \/ CommitQuorum(r)

(* Apart from commits, no step touches the record.                           *)
LEMMA OnlyCommitsRecord ==
  ASSUME [Next]_vars, \A r \in Requests : ~Commits(r)
  PROVE  decision' = decision /\ bar' = bar
  <1>1. ASSUME NEW r \in Requests, Advance(r) \/ RequestFails(r)
        PROVE  decision' = decision /\ bar' = bar
    BY <1>1
    DEF Advance, LoadPolicies, LoadMembers, ReadProof, GateCheck, Insert, Count, Counted,
        Flip, Enqueue, Commits, RequestFails, Goes, rows
  <1>2. ASSUME NEW w \in Workers, Deliver(w) \/ Outlasts(w) \/ Works(w) \/ PayoutFails(w) \/ WorkerCrash(w)
        PROVE  decision' = decision /\ bar' = bar
    BY <1>2
    DEF Deliver, Outlasts, Works, PayoutRead, PayoutSend, PayoutMark, PayoutAudit, Settle,
        PayoutFails, WorkerCrash, Untouched
  <1>3. ASSUME ChangeRoster \/ UNCHANGED vars \/
               \E r \in Requests, m \in Members, verdict \in {"approve", "reject"} :
                  Begin(r, m, verdict)
        PROVE  decision' = decision /\ bar' = bar
    BY <1>3 DEF ChangeRoster, vars, Begin, Goes, rows
  <1> QED
    BY <1>1, <1>2, <1>3 DEF Next

(* A recorded decision is never changed or withdrawn: the unique index and   *)
(* the checks around it hold for any number of calls at once.                *)
THEOREM DecisionsStay == Spec => DecisionsAreFinal
  <1> DEFINE Final == \A m \in Members : decision[m] # "none" => decision'[m] = decision[m]
  <1>1. IInv /\ [Next]_vars => [Final]_vars
    <2> SUFFICES ASSUME IInv, [Next]_vars PROVE Final
      OBVIOUS
    <2>1. ASSUME NEW r \in Requests, Commits(r) PROVE Final
      <3>1. /\ decision[req[r].by] = "none"
            /\ decision' = [decision EXCEPT ![req[r].by] = req[r].verdict]
        BY <2>1, RecordFacts DEF Commits, CommitRejection, CommitApproval, CommitQuorum
      <3> QED
        BY <3>1 DEF IInv, TypeOK
    <2>2. CASE \A r \in Requests : ~Commits(r)
      BY <2>2, OnlyCommitsRecord
    <2> QED
      BY <2>1, <2>2
  <1> QED
    BY <1>1, InvariantHolds, PTL DEF Spec, DecisionsAreFinal

-----------------------------------------------------------------------------
(* The pipeline implements PaymentPromise.                                   *)

LEMMA InitPromise == Init => Payment!Init
  BY DEF Init, Payment!Init, Approvers

\* The transfers change in one step only.
LEMMA OnlySendPays ==
  ASSUME [Next]_vars, \A w \in Workers : ~PayoutSend(w)
  PROVE  transfers' = transfers
  <1>1. ASSUME NEW r \in Requests, Advance(r) \/ RequestFails(r)
        PROVE  transfers' = transfers
    BY <1>1
    DEF Advance, LoadPolicies, LoadMembers, ReadProof, GateCheck, Insert, Count, Counted,
        Flip, Enqueue, CommitRejection, CommitApproval, CommitQuorum, Records, RequestFails,
        Goes, rail
  <1>2. ASSUME NEW w \in Workers, Deliver(w) \/ Outlasts(w) \/ Works(w) \/ PayoutFails(w) \/ WorkerCrash(w)
        PROVE  transfers' = transfers
    BY <1>2
    DEF Deliver, Outlasts, Works, PayoutRead, PayoutMark, PayoutAudit, Settle,
        PayoutFails, WorkerCrash, rail
  <1>3. ASSUME ChangeRoster \/ UNCHANGED vars \/
               \E r \in Requests, m \in Members, verdict \in {"approve", "reject"} :
                  Begin(r, m, verdict)
        PROVE  transfers' = transfers
    BY <1>3 DEF ChangeRoster, vars, Begin, Goes, rail
  <1> QED
    BY <1>1, <1>2, <1>3 DEF Next

LEMMA StepPromise == IInv /\ [Next]_vars => [Payment!Next]_Payment!vars
  <1> SUFFICES ASSUME IInv, [Next]_vars PROVE [Payment!Next]_Payment!vars
    OBVIOUS
  <1>1. ASSUME NEW r \in Requests, CommitRejection(r) \/ CommitApproval(r)
        PROVE  [Payment!Next]_Payment!vars
    <2>1. Records(r) /\ bar' = bar /\ transfers' = transfers
      BY <1>1 DEF CommitRejection, CommitApproval, Records, rail
    <2>2. req[r].by \in Members
      BY <2>1, RecordFacts DEF Request
    <2>3. Approvers' = Approvers \/ Approvers' = Approvers \cup {req[r].by}
      BY <2>1, RecordFacts
    <2>4. CASE Approvers' = Approvers
      BY <2>1, <2>4 DEF Payment!vars
    <2>5. CASE Approvers' = Approvers \cup {req[r].by}
      BY <2>1, <2>2, <2>5 DEF Payment!Next, Payment!Approve
    <2> QED
      BY <2>3, <2>4, <2>5
  <1>2. ASSUME NEW r \in Requests, CommitQuorum(r)
        PROVE  [Payment!Next]_Payment!vars
    <2>1. /\ Approvers' = Approvers \cup {req[r].by}
          /\ bar = 0 /\ req[r].by \in Members
          /\ bar' \in Nat /\ bar' >= 1 /\ Cardinality(Approvers') >= bar'
      BY <1>2, QuorumFacts DEF NotScheduled
    <2>2. transfers' = transfers
      BY <1>2 DEF CommitQuorum, Records, rail
    <2>3. Cardinality(Approvers \cup {req[r].by}) \in Nat
      BY <2>1, FiniteMembers DEF Approvers
    <2>4. bar' \in 1..Cardinality(Approvers \cup {req[r].by})
      BY <2>1, <2>3
    <2>5. Payment!Cardinality(Approvers \cup {req[r].by}) = Cardinality(Approvers \cup {req[r].by})
      BY DEF Payment!Cardinality, Cardinality
    <2>6. Payment!Clear(req[r].by)
      BY <2>1, <2>2, <2>4, <2>5 DEF Payment!Clear
    <2> QED
      BY <2>1, <2>6 DEF Payment!Next
  <1>3. ASSUME NEW w \in Workers, PayoutSend(w)
        PROVE  [Payment!Next]_Payment!vars
    <2>1. /\ payout.state # "none" /\ decision' = decision /\ bar' = bar
          /\ transfers' = IF replayable THEN transfers ELSE transfers + 1
      BY <1>3, WorkIsScheduled DEF PayoutSend, Untouched
    <2>2. bar > 0 /\ transfers = IF replayable THEN 1 ELSE 0
      BY <2>1 DEF IInv, TypeOK, MoneyOK, Scheduled
    <2>3. Approvers' = Approvers
      BY <2>1 DEF Approvers
    <2>4. CASE replayable
      BY <2>1, <2>3, <2>4 DEF Payment!vars
    <2>5. CASE ~replayable
      BY <2>1, <2>2, <2>3, <2>5 DEF Payment!Next, Payment!Pay
    <2> QED
      BY <2>4, <2>5
  <1>4. CASE /\ \A r \in Requests : ~Commits(r)
             /\ \A w \in Workers : ~PayoutSend(w)
    <2>1. decision' = decision /\ bar' = bar /\ transfers' = transfers
      BY <1>4, OnlyCommitsRecord, OnlySendPays
    <2> QED
      BY <2>1 DEF Payment!vars, Approvers
  <1> QED
    BY <1>1, <1>2, <1>3, <1>4 DEF Commits

(* Money leaves at most once, and only on the record of enough different     *)
(* approvers: the calls, the outbox and the worker together implement it.    *)
THEOREM PromiseKept == Spec => PaymentSpec
  BY InitPromise, StepPromise, InvariantHolds, PTL DEF Spec, PaymentSpec, Payment!Spec
-----------------------------------------------------------------------------
(* The worker's side implements QueueContract.                               *)

HandlerPlaces == {"read", "send", "mark", "audit"}

LEMMA HoldsFacts ==
  ASSUME NEW w \in Workers, work[w].pc \in HandlerPlaces \cup {"idle", "complete", "fail"}
  PROVE  /\ Holds(w).attempt = work[w].attempt
         /\ Holds(w).late = work[w].late
         /\ Holds(w).phase = "idle" <=> work[w].pc = "idle"
         /\ Holds(w).phase = "handling" <=> work[w].pc \in HandlerPlaces
         /\ Holds(w).phase = "settling" <=> work[w].pc \in {"complete", "fail"}
  <1>1. CASE work[w].pc = "idle"
    BY <1>1 DEF Holds, HandlerPlaces
  <1>2. CASE work[w].pc \in {"complete", "fail"}
    BY <1>2 DEF Holds, HandlerPlaces
  <1>3. CASE work[w].pc \in HandlerPlaces
    BY <1>3 DEF Holds, HandlerPlaces
  <1> QED
    BY <1>1, <1>2, <1>3

LEMMA InitQueue == Init => Queue!Init
  <1>1. ASSUME Init, NEW w \in Workers
        PROVE  Holds(w) = [phase |-> "idle", attempt |-> 0, late |-> FALSE]
    <2>1. work[w].pc = "idle" /\ work[w].attempt = 0 /\ work[w].late = FALSE
      BY <1>1 DEF Init, Resting
    <2> QED
      BY <2>1 DEF Holds
  <1>2. Init => payout.state = "none" /\ payout.attempts = 0
    BY DEF Init
  <1>3. Init => [w \in Workers |-> Holds(w)] = [w \in Workers |-> Queue!Nothing]
    BY <1>1 DEF Queue!Nothing
  <1> QED
    BY <1>2, <1>3 DEF Queue!Init

\* Only the commit of a quorum and the worker's steps touch the payout job.
LEMMA CallsKeepWork ==
  ASSUME [Next]_vars, \A r \in Requests : ~CommitQuorum(r),
         \A w \in Workers :
           ~(Deliver(w) \/ Outlasts(w) \/ Works(w) \/ PayoutFails(w) \/ WorkerCrash(w))
  PROVE  payout' = payout /\ work' = work
  <1>1. ASSUME NEW r \in Requests, Advance(r) \/ RequestFails(r)
        PROVE  payout' = payout /\ work' = work
    BY <1>1
    DEF Advance, LoadPolicies, LoadMembers, ReadProof, GateCheck, Insert, Count, Counted,
        Flip, Enqueue, CommitRejection, CommitApproval, Records, RequestFails, Goes, rows
  <1>2. ASSUME ChangeRoster \/ UNCHANGED vars \/
               \E r \in Requests, m \in Members, verdict \in {"approve", "reject"} :
                  Begin(r, m, verdict)
        PROVE  payout' = payout /\ work' = work
    BY <1>2 DEF ChangeRoster, vars, Begin, Goes, rows
  <1> QED
    BY <1>1, <1>2 DEF Next

LEMMA StepQueue == IInv /\ [Next]_vars => [Queue!Next]_Queue!vars
  <1> SUFFICES ASSUME IInv, [Next]_vars PROVE [Queue!Next]_Queue!vars
    OBVIOUS
  <1> DEFINE Goal == [Queue!Next]_Queue!vars
             Shows == [w \in Workers |-> Holds(w)]
  <1>1. /\ work \in [Workers -> Worker]
        /\ payout \in [state: {"none", "queued", "claimed", "done", "dead"}, attempts: Nat]
        /\ \A w \in Workers : work[w].pc \in HandlerPlaces \cup {"idle", "complete", "fail"}
    BY DEF IInv, TypeOK, Worker, HandlerPlaces
  <1>2. ASSUME NEW w \in Workers, work'[w] = work[w] PROVE Holds(w)' = Holds(w)
    BY <1>2 DEF Holds
  <1>3. ASSUME payout' = payout, work' = work PROVE Goal
    <2>1. Shows' = Shows
      BY <1>2, <1>3
    <2> QED
      BY <1>3, <2>1 DEF Queue!vars
  <1>4. ASSUME NEW r \in Requests, CommitQuorum(r) PROVE Goal
    <2>1. /\ payout.state = "none" /\ payout' = [state |-> "queued", attempts |-> 0]
          /\ work' = work
      BY <1>4, QuorumFacts DEF CommitQuorum, Records
    <2>2. Shows' = Shows
      BY <1>2, <2>1
    <2> QED
      BY <2>1, <2>2 DEF Queue!Next, Queue!Enqueue
  <1>5. ASSUME NEW w \in Workers, Deliver(w) PROVE Goal
    <2>1. /\ Deliverable /\ work[w].pc = "idle"
          /\ payout' = [state |-> "claimed", attempts |-> payout.attempts + 1]
          /\ work' = [work EXCEPT ![w] = [pc |-> "read", attempt |-> payout.attempts + 1,
                                          late |-> FALSE]]
      BY <1>5 DEF Deliver
    <2>2. Queue!Deliverable
      <3>1. \A v \in Workers : work[v].pc = "idle" \/ work[v].late
                                 => Holds(v).phase = "idle" \/ Holds(v).late
        BY <1>1, HoldsFacts
      <3> QED
        BY <2>1, <3>1 DEF Deliverable, Queue!Deliverable
    <2>3. Holds(w)' = [phase |-> "handling", late |-> FALSE,
                       attempt |-> payout.attempts + 1]
      BY <1>1, <2>1 DEF Holds
    <2>4. Shows' = [Shows EXCEPT ![w] = [phase |-> "handling", late |-> FALSE,
                                         attempt |-> payout.attempts + 1]]
      BY <1>1, <1>2, <2>1, <2>3
    <2>5. Shows[w].phase = "idle"
      BY <1>1, <2>1, HoldsFacts
    <2>6. Queue!Deliver(w)
      BY <2>1, <2>2, <2>4, <2>5 DEF Queue!Deliver, Queue!Claimed, Queue!Handles
    <2> QED
      BY <2>6 DEF Queue!Next
  (* A worker that goes on with its attempt, in the handler or out of it.    *)
  <1>6. ASSUME NEW w \in Workers, NEW pc, work[w].pc \in HandlerPlaces, payout' = payout,
               Moves(w, pc), pc \in HandlerPlaces \cup {"complete", "fail"}
        PROVE  Goal
    <2>1. /\ work'[w].pc = pc /\ work'[w].attempt = work[w].attempt
          /\ work'[w].late = work[w].late
          /\ \A v \in Workers \ {w} : work'[v] = work[v]
      BY <1>1, <1>6 DEF Moves, Worker
    <2>2. \A v \in Workers \ {w} : Holds(v)' = Holds(v)
      BY <1>2, <2>1
    <2>3. Holds(w) = [phase |-> "handling", attempt |-> work[w].attempt, late |-> work[w].late]
      BY <1>6 DEF Holds, HandlerPlaces
    <2>4. CASE pc \in HandlerPlaces
      <3>1. Holds(w)' = Holds(w)
        BY <2>1, <2>3, <2>4 DEF Holds, HandlerPlaces
      <3>2. Shows' = Shows
        BY <2>2, <3>1
      <3> QED
        BY <1>6, <3>2 DEF Queue!vars
    <2>5. CASE pc \in {"complete", "fail"}
      <3>1. Holds(w)' = [phase |-> "settling", attempt |-> work[w].attempt, late |-> work[w].late]
        BY <2>1, <2>5 DEF Holds
      <3>2. [Shows[w] EXCEPT !.phase = "settling"] = Holds(w)'
        BY <2>3, <3>1
      <3>3. Shows' = [Shows EXCEPT ![w].phase = "settling"]
        BY <2>2, <3>2
      <3>4. Queue!Return(w)
        BY <1>6, <2>3, <3>3 DEF Queue!Return
      <3> QED
        BY <3>4 DEF Queue!Next
    <2> QED
      BY <1>6, <2>4, <2>5
  <1>7. ASSUME NEW w \in Workers,
               PayoutRead(w) \/ PayoutSend(w) \/ PayoutMark(w) \/ PayoutAudit(w) \/ PayoutFails(w)
        PROVE  Goal
    <2>1. work[w].pc \in HandlerPlaces /\ payout' = payout
      BY <1>7
      DEF PayoutRead, PayoutSend, PayoutMark, PayoutAudit, PayoutFails, HandlerPlaces
    <2>2. PICK pc \in {"send", "mark", "audit", "complete", "fail"} : Moves(w, pc)
      BY <1>7 DEF PayoutRead, PayoutSend, PayoutMark, PayoutAudit, PayoutFails
    <2> QED
      BY <1>6, <2>1, <2>2 DEF HandlerPlaces
  <1>8. ASSUME NEW w \in Workers, work' = [work EXCEPT ![w] = Resting]
        PROVE  /\ Shows' = [Shows EXCEPT ![w] = [phase |-> "idle", attempt |-> 0, late |-> FALSE]]
               /\ Shows' = [v \in Workers |-> IF v \in {w} THEN [phase |-> "idle", attempt |-> 0, late |-> FALSE]
                                                         ELSE Shows[v]]
    <2>1. Holds(w)' = [phase |-> "idle", attempt |-> 0, late |-> FALSE]
      BY <1>1, <1>8 DEF Holds, Resting
    <2>2. \A v \in Workers \ {w} : Holds(v)' = Holds(v)
      BY <1>1, <1>2, <1>8
    <2> QED
      BY <2>1, <2>2
  <1>9. ASSUME NEW w \in Workers, Settle(w) PROVE Goal
    <2>1. /\ work[w].pc \in {"complete", "fail"}
          /\ work' = [work EXCEPT ![w] = Resting]
          /\ payout'.attempts = payout.attempts
          /\ payout'.state = IF work[w].pc = "complete" THEN "done"
                             ELSE IF work[w].attempt >= MaxAttempts THEN "dead" ELSE "queued"
      BY <1>1, <1>9 DEF Settle
    <2>2. Shows[w].phase = "settling" /\ Shows[w].attempt = work[w].attempt
      BY <1>1, <2>1, HoldsFacts
    <2>3. Queue!Settle(w)
      BY <1>8, <2>1, <2>2 DEF Queue!Settle, Queue!LetsGo, Queue!Nothing
    <2> QED
      BY <2>3 DEF Queue!Next
  <1>10. ASSUME NEW w \in Workers, WorkerCrash(w) PROVE Goal
    <2>1. work' = [work EXCEPT ![w] = Resting] /\ payout' = payout
      BY <1>10 DEF WorkerCrash
    <2>2. Queue!Lose({w})
      BY <1>8, <2>1 DEF Queue!Lose, Queue!Nothing
    <2> QED
      BY <2>2 DEF Queue!Next
  <1>11. ASSUME NEW w \in Workers, Outlasts(w) PROVE Goal
    <2>1. /\ payout' = payout /\ work[w].pc # "idle"
          /\ work'[w] = [work[w] EXCEPT !.late = TRUE]
          /\ \A v \in Workers \ {w} : work'[v] = work[v]
      BY <1>1, <1>11 DEF Outlasts
    <2>2. work'[w].pc = work[w].pc /\ work'[w].attempt = work[w].attempt /\ work'[w].late = TRUE
      BY <1>1, <2>1 DEF Worker
    <2>3. Holds(w)' = [Holds(w) EXCEPT !.late = work'[w].late]
      BY <2>2 DEF Holds
    <2>4. Shows' = [Shows EXCEPT ![w].late = work'[w].late]
      BY <1>2, <2>1, <2>3
    <2>5. Shows[w].phase # "idle"
      BY <1>1, <2>1, HoldsFacts
    <2>6. Queue!Overrun(w)
      BY <2>1, <2>2, <2>4, <2>5 DEF Queue!Overrun
    <2> QED
      BY <2>6 DEF Queue!Next
  <1> QED
    BY <1>3, <1>4, <1>5, <1>7, <1>9, <1>10, <1>11, CallsKeepWork DEF Works

(* The payout job is delivered, retried and settled as the contract allows,  *)
(* whatever runs on the side of the calls.                                   *)
THEOREM QueueSideKept == Spec => QueueSpec
  BY InitQueue, StepQueue, InvariantHolds, PTL DEF Spec, QueueSpec, Queue!Spec

(* And it is no tamer than the contract: whatever the contract would hand to *)
(* a worker with nothing to do can be handed to it here.                     *)
THEOREM QueueSideIsNoTamer ==
  ASSUME IInv
  PROVE  Queue!Deliverable <=> Deliverable
  <1>1. \A w \in Workers : work[w].pc \in HandlerPlaces \cup {"idle", "complete", "fail"}
    BY DEF IInv, TypeOK, Worker, HandlerPlaces
  <1>2. \A w \in Workers : /\ Holds(w).phase = "idle" <=> work[w].pc = "idle"
                          /\ Holds(w).late = work[w].late
    BY <1>1, HoldsFacts
  <1> QED
    BY <1>2 DEF Queue!Deliverable, Deliverable
-----------------------------------------------------------------------------
(* The waits of CallsEnd.                                                    *)

\* Call q keeps call r from its next statement: with its own uncommitted
\* approvals row, or with the invoice's row lock.
Blocks(q, r) ==
  \/ req[r].pc = "insert" /\ HasRow(req[q]) /\ req[q].by = req[r].by
  \/ req[r].pc = "flip" /\ q # r /\ HoldsInvoice(req[q])

\* A call waits for at most one other.  Rows come before the invoice, so
\* whoever a waiting call waits for waits for the invoice if it waits at all,
\* and whoever has the invoice waits for nobody.
WaitsAreShort ==
  \A p, q, r \in Requests :
    /\ Blocks(p, r) /\ Blocks(q, r) => p = q
    /\ Blocks(q, r) /\ Blocks(p, q) =>
         /\ req[r].pc = "insert" /\ req[q].pc = "flip"
         /\ \A o \in Requests : ~Blocks(o, p)

(* Decide's two waits, for the unique index and for the invoice's row lock,  *)
(* can neither form a cycle nor queue up more than two deep.                 *)
THEOREM NoWaitCycle == Spec => []WaitsAreShort
  <1>1. IInv => WaitsAreShort
    <2> SUFFICES ASSUME IInv, NEW p \in Requests, NEW q \in Requests, NEW r \in Requests,
                        Blocks(q, r)
                 PROVE  /\ Blocks(p, r) => p = q
                        /\ Blocks(p, q) =>
                             /\ req[r].pc = "insert" /\ req[q].pc = "flip"
                             /\ \A o \in Requests : ~Blocks(o, p)
      BY DEF WaitsAreShort
    <2>1. /\ \A x \in Requests : RowIsNew(x, req[x]) /\ HoldsAlone(x, req[x])
      BY DEF IInv, CallsOK, CallOK
    <2>2. ASSUME Blocks(p, r) PROVE p = q
      BY <2>1, <2>2 DEF Blocks, RowIsNew, HoldsAlone
    <2>3. \A x \in Requests : /\ HasRow(req[x]) => req[x].pc # "insert"
                              /\ HoldsInvoice(req[x]) => req[x].pc \in {"enqueue", "commit"}
      BY DEF HasRow, HoldsInvoice, InTx
    <2>4. ASSUME Blocks(p, q) PROVE req[r].pc = "insert" /\ req[q].pc = "flip"
      BY <2>3, <2>4 DEF Blocks
    <2>5. ASSUME Blocks(p, q) PROVE \A o \in Requests : ~Blocks(o, p)
      BY <2>3, <2>4, <2>5 DEF Blocks
    <2> QED
      BY <2>2, <2>4, <2>5
  <1> QED
    BY InvariantHolds, <1>1, PTL
-----------------------------------------------------------------------------
(* What holds when no two transactions of Decide overlap.                    *)

OneTransaction ==
  \A q, r \in Requests : req[q].pc \in InTx /\ req[r].pc \in InTx => q = r

\* Every tier the amount may fall in asks, on every roster, for k approvals.
AsksFor(k) ==
  \A book \in Rulebooks : \A t \in Select(book, Amount) : \A members \in Rosters :
    RequiredApprovals(t, Eligible(t, members, Submitter)) = k

\* A call was told k, and what it counted are still all the approvals there are.
TallyIsWhole(k, call) ==
  /\ call.pc = "members" => \E book \in Rulebooks : call.tier \in Select(book, Amount)
  /\ call.pc \in {"proof", "gate"} \cup InTx => call.required = k
  /\ call.pc \in {"flip", "enqueue", "commit"} /\ call.verdict = "approve"
       => call.collected = Cardinality(Approvers \cup {call.by})

NoticedInv(k) ==
  /\ \A r \in Requests : TallyIsWhole(k, req[r])
  /\ status = "pending_approval" => Cardinality(Approvers) < k

LEMMA NoticedInit == ASSUME NEW k \in Nat \ {0}, Init PROVE NoticedInv(k)
  <1>1. Approvers = {}
    BY DEF Init, Approvers
  <1>2. Cardinality(Approvers) = 0
    BY <1>1, FS_EmptySet
  <1>3. \A r \in Requests : req[r].pc = "idle"
    BY DEF Init, Blank
  <1> QED
    BY <1>2, <1>3 DEF NoticedInv, TallyIsWhole, InTx

LEMMA GoesKeepsNoticed ==
  ASSUME NEW k \in Nat, IInv, NoticedInv(k), NEW r \in Requests, NEW call,
         Goes(r, call), TallyIsWhole(k, call)
  PROVE  NoticedInv(k)'
  <1>1. req' = [req EXCEPT ![r] = call] /\ status' = status /\ Approvers' = Approvers
    BY DEF Goes, rows, Approvers
  <1>2. \A q \in Requests : req'[q] = IF q = r THEN call ELSE req[q]
    BY <1>1 DEF IInv, TypeOK
  <1> QED
    BY <1>1, <1>2 DEF NoticedInv, TallyIsWhole

LEMMA AdvanceKeepsNoticed ==
  ASSUME NEW k \in Nat, AsksFor(k), IInv, NoticedInv(k), NEW r \in Requests,
         \/ LoadPolicies(r) \/ LoadMembers(r) \/ ReadProof(r) \/ GateCheck(r)
         \/ Insert(r) \/ Count(r) \/ Flip(r) \/ Enqueue(r) \/ RequestFails(r)
         \/ \E m \in Members, verdict \in {"approve", "reject"} : Begin(r, m, verdict)
  PROVE  NoticedInv(k)'
  <1>1. req[r] \in Request /\ TallyIsWhole(k, req[r]) /\ roster \in Rosters
    BY DEF IInv, TypeOK, NoticedInv
  <1>2. \A pc \in Ended \cup {"policies"} : TallyIsWhole(k, Blank(pc))
    BY DEF TallyIsWhole, Blank, Ended, InTx
  <1>3. CASE LoadPolicies(r)
    <2>1. ASSUME NEW book \in Rulebooks, NEW t \in Select(book, Amount),
                 Goes(r, [req[r] EXCEPT !.pc = "members", !.tier = t])
          PROVE  NoticedInv(k)'
      <3>1. TallyIsWhole(k, [req[r] EXCEPT !.pc = "members", !.tier = t])
        BY <1>1, <2>1 DEF TallyIsWhole, Request, InTx
      <3> QED
        BY <2>1, <3>1, GoesKeepsNoticed
    <2> QED
      BY <1>2, <1>3, <2>1, GoesKeepsNoticed DEF LoadPolicies, Ended
  <1>4. CASE LoadMembers(r)
    <2> DEFINE eligible == Eligible(req[r].tier, roster, Submitter)
               call == [req[r] EXCEPT !.pc = IF NeedsProof(r) THEN "proof" ELSE "gate",
                                      !.eligible = eligible,
                                      !.required = RequiredApprovals(req[r].tier, eligible)]
    <2>1. RequiredApprovals(req[r].tier, eligible) = k
      BY <1>1, <1>4 DEF LoadMembers, TallyIsWhole, AsksFor
    <2>2. Goes(r, call)
      BY <1>4 DEF LoadMembers
    <2> HIDE DEF eligible
    <2>3. TallyIsWhole(k, call)
      BY <1>1, <2>1 DEF TallyIsWhole, Request, InTx
    <2> QED
      BY <2>2, <2>3, GoesKeepsNoticed
  <1>5. CASE ReadProof(r)
    <2>1. PICK age \in {NoProof, req[r].tier.maxAge} :
            Goes(r, [req[r] EXCEPT !.pc = "gate", !.age = age])
      BY <1>5 DEF ReadProof
    <2>2. TallyIsWhole(k, [req[r] EXCEPT !.pc = "gate", !.age = age])
      BY <1>1, <1>5 DEF ReadProof, TallyIsWhole, Request, InTx
    <2> QED
      BY <2>1, <2>2, GoesKeepsNoticed
  <1>6. CASE GateCheck(r)
    <2> DEFINE call == [Blank("insert") EXCEPT !.by = req[r].by, !.verdict = req[r].verdict,
                                               !.required = req[r].required]
    <2>1. Goes(r, call) \/ Goes(r, Blank("idle"))
      BY <1>6 DEF GateCheck
    <2>2. TallyIsWhole(k, call)
      BY <1>1, <1>6 DEF GateCheck, TallyIsWhole, Request, Blank, InTx
    <2> QED
      BY <1>2, <2>1, <2>2, GoesKeepsNoticed DEF Ended
  <1>7. CASE Insert(r)
    <2> DEFINE call == [req[r] EXCEPT !.pc = AfterRow(r)]
    <2>1. Goes(r, call) \/ Goes(r, Blank("idle"))
      BY <1>7 DEF Insert
    <2>2. TallyIsWhole(k, call)
      BY <1>1, <1>7 DEF Insert, AfterRow, TallyIsWhole, Request, InTx
    <2> QED
      BY <1>2, <2>1, <2>2, GoesKeepsNoticed DEF Ended
  <1>8. CASE Count(r)
    <2> DEFINE tally == Cardinality(Approvers \cup {req[r].by})
               counted == [req[r] EXCEPT !.collected = tally]
               call == [counted EXCEPT !.pc = IF Quorum(counted) THEN "flip" ELSE "commit"]
    <2>1. Goes(r, call)
      BY <1>8 DEF Count, Counted
    <2>2. /\ call.pc \in {"flip", "commit"} /\ call.required = req[r].required
          /\ call.by = req[r].by /\ call.collected = tally
      BY <1>1 DEF Request
    <2>3. TallyIsWhole(k, call)
      BY <1>1, <1>8, <2>2 DEF Count, TallyIsWhole, InTx
    <2> QED
      BY <2>1, <2>3, GoesKeepsNoticed
  <1>9. CASE Flip(r)
    <2>1. TallyIsWhole(k, [req[r] EXCEPT !.pc = IF req[r].verdict = "reject" THEN "commit"
                                                                             ELSE "enqueue"])
      BY <1>1, <1>9 DEF Flip, TallyIsWhole, Request, InTx
    <2> QED
      BY <1>9, <2>1, GoesKeepsNoticed DEF Flip
  <1>10. CASE Enqueue(r)
    <2>1. Goes(r, [req[r] EXCEPT !.pc = "commit"]) \/ Goes(r, Blank("duplicate"))
      BY <1>10 DEF Enqueue
    <2>2. TallyIsWhole(k, [req[r] EXCEPT !.pc = "commit"])
      BY <1>1, <1>10 DEF Enqueue, TallyIsWhole, Request, InTx
    <2> QED
      BY <1>2, <2>1, <2>2, GoesKeepsNoticed DEF Ended
  <1>11. CASE RequestFails(r)
    BY <1>2, <1>11, GoesKeepsNoticed DEF RequestFails, Ended
  <1>12. ASSUME NEW m \in Members, NEW verdict \in {"approve", "reject"}, Begin(r, m, verdict)
         PROVE  NoticedInv(k)'
    <2>1. TallyIsWhole(k, [Blank("policies") EXCEPT !.by = m, !.verdict = verdict])
      BY DEF TallyIsWhole, Blank, InTx
    <2> QED
      BY <1>12, <2>1, GoesKeepsNoticed DEF Begin
  <1> QED
    BY <1>3, <1>4, <1>5, <1>6, <1>7, <1>8, <1>9, <1>10, <1>11, <1>12

LEMMA CommitKeepsNoticed ==
  ASSUME NEW k \in Nat, IInv, OneTransaction, NoticedInv(k), NEW r \in Requests, Commits(r)
  PROVE  NoticedInv(k)'
  <1>1. Records(r) /\ req[r].pc = "commit" /\ TallyIsWhole(k, req[r]) /\ req[r] \in Request
    BY DEF Commits, CommitRejection, CommitApproval, CommitQuorum, Records, NoticedInv, IInv, TypeOK
  <1>2. \A q \in Requests \ {r} : req'[q] = req[q] /\ req[q].pc \notin InTx
    BY <1>1, RecordFacts DEF OneTransaction, InTx
  <1>3. req'[r].pc = "idle"
    BY <1>1, RecordFacts DEF Blank
  <1>4. \A q \in Requests : TallyIsWhole(k, req[q])'
    BY <1>2, <1>3 DEF NoticedInv, TallyIsWhole, InTx
  <1>5. CASE CommitApproval(r)
    <2>1. /\ Approvers' = Approvers \cup {req[r].by}
          /\ req[r].collected = Cardinality(Approvers \cup {req[r].by})
          /\ ~Quorum(req[r]) /\ req[r].required = k
      BY <1>1, <1>5, RecordFacts DEF CommitApproval, TallyIsWhole, InTx
    <2> QED
      BY <1>1, <1>4, <2>1 DEF NoticedInv, Quorum, Request
  <1>6. CASE CommitRejection(r) \/ CommitQuorum(r)
    BY <1>4, <1>6 DEF CommitRejection, CommitQuorum, NoticedInv
  <1> QED
    BY <1>5, <1>6 DEF Commits

LEMMA NextKeepsNoticed ==
  ASSUME NEW k \in Nat, AsksFor(k), IInv, OneTransaction, NoticedInv(k), [Next]_vars
  PROVE  NoticedInv(k)'
  <1>1. ASSUME UNCHANGED <<req, decision>>, status' \in {status, "paid"}
        PROVE  NoticedInv(k)'
    BY <1>1 DEF NoticedInv, TallyIsWhole, Approvers
  <1>2. ASSUME NEW r \in Requests,
               Advance(r) \/ RequestFails(r)
                 \/ \E m \in Members, verdict \in {"approve", "reject"} : Begin(r, m, verdict)
        PROVE  NoticedInv(k)'
    BY <1>2, AdvanceKeepsNoticed, CommitKeepsNoticed DEF Advance, Commits
  <1>3. ASSUME NEW w \in Workers, Deliver(w) \/ Outlasts(w) \/ Works(w) \/ PayoutFails(w) \/ WorkerCrash(w)
        PROVE  NoticedInv(k)'
    BY <1>1, <1>3
    DEF Deliver, Outlasts, Works, PayoutRead, PayoutSend, PayoutMark, PayoutAudit, Settle,
        PayoutFails, WorkerCrash, Untouched
  <1>4. CASE ChangeRoster \/ UNCHANGED vars
    BY <1>1, <1>4 DEF ChangeRoster, vars, rows
  <1> QED
    BY <1>2, <1>3, <1>4 DEF Next

(* A quorum goes unnoticed only where two of Decide's transactions overlap:  *)
(* as long as each starts when the last one has ended, and tiers and roster  *)
(* are only edited so that the invoice keeps needing k approvals, an invoice *)
(* that is still pending lacks some (approvals.go:240-300).                  *)
THEOREM SerialTalliesAreNoticed ==
  ASSUME NEW k \in Nat \ {0}, AsksFor(k)
  PROVE  Spec /\ []OneTransaction => []QuorumIsNoticed
  <1>1. Init => NoticedInv(k)
    BY NoticedInit
  <1>2. IInv /\ OneTransaction /\ NoticedInv(k) /\ [Next]_vars => NoticedInv(k)'
    BY NextKeepsNoticed
  <1>3. IInv /\ NoticedInv(k) => QuorumIsNoticed
    BY DEF IInv, TypeOK, NoticedInv, QuorumIsNoticed, AsksFor
  <1> QED
    BY <1>1, <1>2, <1>3, InvariantHolds, PTL DEF Spec
-----------------------------------------------------------------------------
(* What holds when the calls come one after another.                         *)

OneCall ==
  \A q, r \in Requests : req[q].pc \notin Ended /\ req[r].pc \notin Ended => q = r

\* pending_approval to approved or rejected, approved to paid.
StatusMovesForward ==
  [][\/ status = "pending_approval" /\ status' \in {"approved", "rejected"}
     \/ status = "approved" /\ status' = "paid"]_status

SerialInv ==
  /\ DoubleSubmitIsNoOp
  /\ \A r \in Requests : req[r].pc \notin Ended => status = "pending_approval"
  /\ status = "rejected" => payout.state = "none"

LEMMA GoesKeepsSerial ==
  ASSUME IInv, SerialInv, NEW r \in Requests, NEW call, Goes(r, call), call.pc # "duplicate",
         call.pc \notin Ended => status = "pending_approval"
  PROVE  SerialInv'
  <1>1. /\ \A q \in Requests : req'[q] = IF q = r THEN call ELSE req[q]
        /\ status' = status /\ payout' = payout
    BY DEF IInv, TypeOK, Goes, rows
  <1> QED
    BY <1>1 DEF SerialInv, DoubleSubmitIsNoOp

\* A call that goes on is one that was on its way, and ends undisturbed.
LEMMA AdvanceKeepsSerial ==
  ASSUME IInv, SerialInv, NEW r \in Requests,
         \/ LoadPolicies(r) \/ LoadMembers(r) \/ ReadProof(r) \/ GateCheck(r)
         \/ Insert(r) \/ Count(r) \/ Flip(r) \/ Enqueue(r) \/ RequestFails(r)
         \/ \E m \in Members, verdict \in {"approve", "reject"} : Begin(r, m, verdict)
  PROVE  SerialInv'
  <1>1. req[r] \in Request /\ (req[r].pc \notin Ended => status = "pending_approval")
    BY DEF IInv, TypeOK, SerialInv
  <1>2. Blank("idle").pc = "idle" /\ Blank("insert").pc = "insert" /\ Blank("policies").pc = "policies"
    BY DEF Blank
  <1>3. ASSUME NEW call, Goes(r, call), req[r].pc \notin Ended, call.pc # "duplicate"
        PROVE  SerialInv'
    BY <1>1, <1>3, GoesKeepsSerial
  <1>4. CASE LoadPolicies(r)
    <2>1. ASSUME NEW t PROVE [req[r] EXCEPT !.pc = "members", !.tier = t].pc = "members"
      BY <1>1 DEF Request
    <2> QED
      BY <1>2, <1>3, <1>4, <2>1 DEF LoadPolicies, Ended
  <1>5. CASE LoadMembers(r)
    <2> DEFINE eligible == Eligible(req[r].tier, roster, Submitter)
               call == [req[r] EXCEPT !.pc = IF NeedsProof(r) THEN "proof" ELSE "gate",
                                      !.eligible = eligible,
                                      !.required = RequiredApprovals(req[r].tier, eligible)]
    <2>1. Goes(r, call) /\ req[r].pc = "members"
      BY <1>5 DEF LoadMembers
    <2>2. call.pc # "duplicate"
      BY <1>1 DEF Request
    <2> HIDE DEF call
    <2> QED
      BY <1>3, <2>1, <2>2 DEF Ended
  <1>6. CASE ReadProof(r)
    <2>1. \A age : [req[r] EXCEPT !.pc = "gate", !.age = age].pc = "gate"
      BY <1>1 DEF Request
    <2> QED
      BY <1>3, <1>6, <2>1 DEF ReadProof, Ended
  <1>7. CASE GateCheck(r)
    <2> DEFINE call == [Blank("insert") EXCEPT !.by = req[r].by, !.verdict = req[r].verdict,
                                               !.required = req[r].required]
    <2>1. Goes(r, call) \/ Goes(r, Blank("idle"))
      BY <1>7 DEF GateCheck
    <2>2. call.pc = "insert" /\ req[r].pc = "gate"
      BY <1>7 DEF Blank, GateCheck
    <2> HIDE DEF call
    <2> QED
      BY <1>2, <1>3, <2>1, <2>2 DEF Ended
  <1>8. CASE Insert(r)
    <2>1. [req[r] EXCEPT !.pc = AfterRow(r)].pc \in {"flip", "count"}
      BY <1>1 DEF AfterRow, Request
    <2> QED
      BY <1>2, <1>3, <1>8, <2>1 DEF Insert, Ended
  <1>9. CASE Count(r)
    <2> DEFINE counted == [req[r] EXCEPT !.collected = Cardinality(Approvers \cup {req[r].by})]
               call == [counted EXCEPT !.pc = IF Quorum(counted) THEN "flip" ELSE "commit"]
    <2>1. Goes(r, call) /\ req[r].pc = "count"
      BY <1>9 DEF Count, Counted
    <2>2. call.pc \in {"flip", "commit"}
      BY <1>1 DEF Request
    <2> HIDE DEF call
    <2> QED
      BY <1>3, <2>1, <2>2 DEF Ended
  <1>10. CASE Flip(r)
    <2>1. [req[r] EXCEPT !.pc = IF req[r].verdict = "reject" THEN "commit" ELSE "enqueue"].pc
            \in {"commit", "enqueue"}
      BY <1>1 DEF Request
    <2> QED
      BY <1>3, <1>10, <2>1 DEF Flip, Ended
  <1>11. CASE Enqueue(r)
    <2>1. payout.state = "none"
      BY <1>1, <1>11 DEF Enqueue, Ended, IInv, MoneyOK, Scheduled
    <2>2. [req[r] EXCEPT !.pc = "commit"].pc = "commit"
      BY <1>1 DEF Request
    <2> QED
      BY <1>3, <1>11, <2>1, <2>2 DEF Enqueue, Ended
  <1>12. CASE RequestFails(r)
    BY <1>2, <1>3, <1>12 DEF RequestFails, Reading, InTx, Ended
  <1>13. ASSUME NEW m \in Members, NEW verdict \in {"approve", "reject"}, Begin(r, m, verdict)
         PROVE  SerialInv'
    <2>1. [Blank("policies") EXCEPT !.by = m, !.verdict = verdict].pc = "policies"
      BY DEF Blank
    <2> QED
      BY <1>13, <2>1, GoesKeepsSerial DEF Begin
  <1> QED
    BY <1>4, <1>5, <1>6, <1>7, <1>8, <1>9, <1>10, <1>11, <1>12, <1>13

\* A call that commits finds the invoice still pending, and leaves nobody behind.
LEMMA CommitKeepsSerial ==
  ASSUME IInv, OneCall, SerialInv, NEW r \in Requests, Commits(r)
  PROVE  SerialInv' /\ status = "pending_approval"
  <1>1. Records(r) /\ req[r].pc = "commit"
    BY DEF Commits, CommitRejection, CommitApproval, CommitQuorum, Records
  <1>2. status = "pending_approval" /\ payout.state = "none"
    BY <1>1 DEF SerialInv, Ended, IInv, MoneyOK, Scheduled
  <1>3. \A q \in Requests : req'[q].pc \in Ended /\ req'[q].pc # "duplicate"
    <2> TAKE q \in Requests
    <2>1. CASE q = r
      BY <1>1, <2>1, RecordFacts DEF Blank, Ended
    <2>2. CASE q # r
      BY <1>1, <2>2, RecordFacts DEF OneCall, SerialInv, DoubleSubmitIsNoOp, Ended
    <2> QED
      BY <2>1, <2>2
  <1>4. status' = "rejected" => payout' = payout
    BY <1>2 DEF Commits, CommitRejection, CommitApproval, CommitQuorum
  <1> QED
    BY <1>2, <1>3, <1>4 DEF SerialInv, DoubleSubmitIsNoOp

\* A worker has a payout to work on, so no call is on its way.
LEMMA WorkKeepsSerial ==
  ASSUME IInv, SerialInv, NEW w \in Workers,
         Deliver(w) \/ Outlasts(w) \/ Works(w) \/ PayoutFails(w) \/ WorkerCrash(w)
  PROVE  /\ SerialInv'
         /\ status' = status \/ (status \in {"approved", "paid"} /\ status' = "paid")
  <1>1. req' = req
    BY DEF Deliver, Outlasts, Works, PayoutRead, PayoutSend, PayoutMark, PayoutAudit, Settle,
       PayoutFails, WorkerCrash, Untouched
  <1>2. payout.state # "none"
    BY WorkIsScheduled
    DEF Deliver, Deliverable, Outlasts, Works, PayoutRead, PayoutSend, PayoutMark, PayoutAudit, Settle,
        PayoutFails, WorkerCrash
  <1>3. status' = status \/ status' = "paid"
    BY DEF Deliver, Outlasts, Works, PayoutRead, PayoutSend, PayoutMark, PayoutAudit, Settle,
       PayoutFails, WorkerCrash
  <1>4. status \in {"approved", "paid"}
    BY <1>2 DEF IInv, TypeOK, MoneyOK, Scheduled, SerialInv
  <1> QED
    BY <1>1, <1>3, <1>4, <1>2 DEF IInv, MoneyOK, Scheduled, SerialInv, DoubleSubmitIsNoOp

LEMMA NextKeepsSerial ==
  ASSUME IInv, OneCall, SerialInv, [Next]_vars
  PROVE  /\ SerialInv'
         /\ \/ status' = status
            \/ status = "pending_approval" /\ status' \in {"approved", "rejected"}
            \/ status = "approved" /\ status' = "paid"
  <1>1. CASE ChangeRoster \/ UNCHANGED vars
    BY <1>1 DEF ChangeRoster, vars, rows, SerialInv, DoubleSubmitIsNoOp
  <1>2. ASSUME NEW r \in Requests, Commits(r)
        PROVE  SerialInv' /\ status = "pending_approval"
               /\ status' \in {status, "approved", "rejected"}
    BY <1>2, CommitKeepsSerial DEF Commits, CommitRejection, CommitApproval, CommitQuorum
  <1>3. ASSUME NEW r \in Requests,
               \/ LoadPolicies(r) \/ LoadMembers(r) \/ ReadProof(r) \/ GateCheck(r)
               \/ Insert(r) \/ Count(r) \/ Flip(r) \/ Enqueue(r) \/ RequestFails(r)
               \/ \E m \in Members, verdict \in {"approve", "reject"} : Begin(r, m, verdict)
        PROVE  SerialInv' /\ status' = status
    <2>1. SerialInv'
      BY <1>3, AdvanceKeepsSerial
    <2>2. status' = status
      BY <1>3 DEF LoadPolicies, LoadMembers, ReadProof, GateCheck, Insert, Count, Counted, Flip,
         Enqueue, RequestFails, Begin, Goes, rows
    <2> QED
      BY <2>1, <2>2
  <1>4. ASSUME NEW w \in Workers, Deliver(w) \/ Outlasts(w) \/ Works(w) \/ PayoutFails(w) \/ WorkerCrash(w)
        PROVE  /\ SerialInv'
               /\ status' = status \/ (status \in {"approved", "paid"} /\ status' = "paid")
    BY <1>4, WorkKeepsSerial
  <1> QED
    BY <1>1, <1>2, <1>3, <1>4 DEF Next, Advance, Commits

LEMMA SerialInvHolds == Spec /\ []OneCall => []SerialInv
  <1>1. Init => SerialInv
    BY DEF Init, SerialInv, DoubleSubmitIsNoOp, Blank, Ended
  <1>2. IInv /\ OneCall /\ SerialInv /\ [Next]_vars => SerialInv'
    BY NextKeepsSerial
  <1> QED
    BY <1>1, <1>2, InvariantHolds, PTL DEF Spec

(* Calls that come one after another never meet a payout that is already     *)
(* there: the approval that a double submit loses takes two calls at once    *)
(* (approvals.go:305-325).                                                   *)
THEOREM SerialSubmitsAreNoOps == Spec /\ []OneCall => []DoubleSubmitIsNoOp
  <1>1. SerialInv => DoubleSubmitIsNoOp
    BY DEF SerialInv
  <1> QED
    BY <1>1, SerialInvHolds, PTL

(* As long as calls come one after another an invoice's status only moves    *)
(* forward: Decide reads it before its transaction and writes it without     *)
(* looking again (approvals.go:210), which takes two calls to go wrong.      *)
THEOREM SerialStatusMovesForward == Spec /\ []OneCall => StatusMovesForward
  <1>1. IInv /\ OneCall /\ SerialInv /\ [Next]_vars =>
          [\/ status = "pending_approval" /\ status' \in {"approved", "rejected"}
           \/ status = "approved" /\ status' = "paid"]_status
    BY NextKeepsSerial
  <1> QED
    BY <1>1, SerialInvHolds, InvariantHolds, PTL DEF Spec, StatusMovesForward

-----------------------------------------------------------------------------
(* What a Selfie Check on every tier means for rejections.                   *)

AllChecked == \A t \in Tiers : t.selfie

\* A rejection has no proof to show at the gate, so only approvals get past it.
CannotReject(call) ==
  /\ call.pc = "proof" => call.verdict = "approve"
  /\ call.pc \notin InTx /\ call.verdict = "reject" => call.age = NoProof
  /\ call.pc \in InTx => call.verdict = "approve"

NobodyRejects == status # "rejected" /\ \A m \in Members : decision[m] # "reject"

UncheckedInv == NobodyRejects /\ \A r \in Requests : CannotReject(req[r])

LEMMA GoesKeepsUnchecked ==
  ASSUME IInv, UncheckedInv, NEW r \in Requests, NEW call, Goes(r, call), CannotReject(call)
  PROVE  UncheckedInv'
  <1>1. /\ \A q \in Requests : req'[q] = IF q = r THEN call ELSE req[q]
        /\ status' = status /\ decision' = decision
    BY DEF IInv, TypeOK, Goes, rows
  <1> QED
    BY <1>1 DEF UncheckedInv, NobodyRejects, CannotReject

LEMMA AdvanceKeepsUnchecked ==
  ASSUME AllChecked, IInv, UncheckedInv, NEW r \in Requests,
         \/ LoadPolicies(r) \/ LoadMembers(r) \/ ReadProof(r) \/ GateCheck(r)
         \/ Insert(r) \/ Count(r) \/ Flip(r) \/ Enqueue(r) \/ RequestFails(r)
         \/ \E m \in Members, verdict \in {"approve", "reject"} : Begin(r, m, verdict)
  PROVE  UncheckedInv'
  <1>1. req[r] \in Request /\ CannotReject(req[r]) /\ Routed(req[r])
    BY DEF IInv, TypeOK, CallsOK, CallOK, UncheckedInv
  <1>2. \A pc \in Ended \cup {"policies"} : CannotReject(Blank(pc))
    BY DEF CannotReject, Blank, Ended, InTx
  <1>3. CASE LoadPolicies(r)
    <2>1. ASSUME NEW t PROVE CannotReject([req[r] EXCEPT !.pc = "members", !.tier = t])
      BY <1>1, <1>3 DEF LoadPolicies, CannotReject, Request, InTx
    <2> QED
      BY <1>2, <1>3, <2>1, GoesKeepsUnchecked DEF LoadPolicies, Ended
  <1>4. CASE LoadMembers(r)
    <2> DEFINE eligible == Eligible(req[r].tier, roster, Submitter)
               call == [req[r] EXCEPT !.pc = IF NeedsProof(r) THEN "proof" ELSE "gate",
                                      !.eligible = eligible,
                                      !.required = RequiredApprovals(req[r].tier, eligible)]
    <2>1. Goes(r, call) /\ req[r].pc = "members"
      BY <1>4 DEF LoadMembers
    <2>2. /\ call.verdict = req[r].verdict /\ call.age = req[r].age
          /\ call.pc = IF NeedsProof(r) THEN "proof" ELSE "gate"
      BY <1>1 DEF Request
    <2> HIDE DEF call
    <2>3. CannotReject(call)
      BY <1>1, <2>1, <2>2 DEF CannotReject, NeedsProof, InTx
    <2> QED
      BY <2>1, <2>3, GoesKeepsUnchecked
  <1>5. CASE ReadProof(r)
    <2>1. \A age : CannotReject([req[r] EXCEPT !.pc = "gate", !.age = age])
      BY <1>1, <1>5 DEF ReadProof, CannotReject, Request, InTx
    <2> QED
      BY <1>5, <2>1, GoesKeepsUnchecked DEF ReadProof
  <1>6. CASE GateCheck(r)
    <2> DEFINE open == Gate(req[r].tier, req[r].eligible, req[r].by, Submitter,
                            decision[req[r].by] # "none", req[r].age)
               call == [Blank("insert") EXCEPT !.by = req[r].by, !.verdict = req[r].verdict,
                                               !.required = req[r].required]
    <2>1. req[r].tier.selfie
      BY <1>1, <1>6 DEF GateCheck, Routed, AllChecked
    <2>2. open => req[r].age # NoProof
      BY <2>1 DEF Gate
    <2>3. open => req[r].verdict = "approve"
      BY <1>1, <1>6, <2>2 DEF GateCheck, CannotReject, Request, InTx
    <2>4. IF open THEN Goes(r, call) ELSE Goes(r, Blank("idle"))
      BY <1>6 DEF GateCheck
    <2>5. call.pc = "insert" /\ call.verdict = req[r].verdict
      BY DEF Blank
    <2> HIDE DEF open, call
    <2>6. open => CannotReject(call)
      BY <2>3, <2>5 DEF CannotReject, InTx
    <2> QED
      BY <1>2, <2>4, <2>6, GoesKeepsUnchecked DEF Ended
  <1>7. ASSUME NEW call, Goes(r, call), call.pc \in InTx, req[r].pc \in InTx,
               call.verdict = req[r].verdict
        PROVE  UncheckedInv'
    <2>1. CannotReject(call)
      BY <1>1, <1>7 DEF CannotReject, InTx
    <2> QED
      BY <1>7, <2>1, GoesKeepsUnchecked
  <1>8. CASE Insert(r)
    <2> DEFINE call == [req[r] EXCEPT !.pc = AfterRow(r)]
    <2>1. (Goes(r, call) \/ Goes(r, Blank("idle"))) /\ req[r].pc = "insert"
      BY <1>8 DEF Insert
    <2>2. call.pc \in InTx /\ call.verdict = req[r].verdict
      BY <1>1 DEF AfterRow, Request, InTx
    <2> HIDE DEF call
    <2> QED
      BY <1>2, <1>7, <2>1, <2>2, GoesKeepsUnchecked DEF Ended, InTx
  <1>9. CASE Count(r)
    <2> DEFINE counted == [req[r] EXCEPT !.collected = Cardinality(Approvers \cup {req[r].by})]
               call == [counted EXCEPT !.pc = IF Quorum(counted) THEN "flip" ELSE "commit"]
    <2>1. Goes(r, call) /\ req[r].pc = "count"
      BY <1>9 DEF Count, Counted
    <2>2. call.pc \in InTx /\ call.verdict = req[r].verdict
      BY <1>1 DEF Request, InTx
    <2> HIDE DEF call
    <2> QED
      BY <1>7, <2>1, <2>2 DEF InTx
  <1>10. CASE Flip(r)
    <2> DEFINE call == [req[r] EXCEPT !.pc = IF req[r].verdict = "reject" THEN "commit"
                                                                          ELSE "enqueue"]
    <2>1. Goes(r, call) /\ req[r].pc = "flip"
      BY <1>10 DEF Flip
    <2>2. call.pc \in InTx /\ call.verdict = req[r].verdict
      BY <1>1 DEF Request, InTx
    <2> HIDE DEF call
    <2> QED
      BY <1>7, <2>1, <2>2 DEF InTx
  <1>11. CASE Enqueue(r)
    <2> DEFINE call == [req[r] EXCEPT !.pc = "commit"]
    <2>1. (Goes(r, call) \/ Goes(r, Blank("duplicate"))) /\ req[r].pc = "enqueue"
      BY <1>11 DEF Enqueue
    <2>2. call.pc \in InTx /\ call.verdict = req[r].verdict
      BY <1>1 DEF Request, InTx
    <2> HIDE DEF call
    <2> QED
      BY <1>2, <1>7, <2>1, <2>2, GoesKeepsUnchecked DEF Ended, InTx
  <1>12. CASE RequestFails(r)
    BY <1>2, <1>12, GoesKeepsUnchecked DEF RequestFails, Ended
  <1>13. ASSUME NEW m \in Members, NEW verdict \in {"approve", "reject"}, Begin(r, m, verdict)
         PROVE  UncheckedInv'
    <2>1. CannotReject([Blank("policies") EXCEPT !.by = m, !.verdict = verdict])
      BY DEF CannotReject, Blank, InTx
    <2> QED
      BY <1>13, <2>1, GoesKeepsUnchecked DEF Begin
  <1> QED
    BY <1>3, <1>4, <1>5, <1>6, <1>8, <1>9, <1>10, <1>11, <1>12, <1>13

LEMMA NextKeepsUnchecked ==
  ASSUME AllChecked, IInv, UncheckedInv, [Next]_vars
  PROVE  UncheckedInv'
  <1>1. ASSUME UNCHANGED <<req, decision>>, status' \in {status, "paid"}
        PROVE  UncheckedInv'
    BY <1>1 DEF UncheckedInv, NobodyRejects, CannotReject
  <1>2. ASSUME NEW r \in Requests, Commits(r)
        PROVE  UncheckedInv'
    <2>1. Records(r) /\ req[r].pc = "commit"
      BY <1>2 DEF Commits, CommitRejection, CommitApproval, CommitQuorum, Records
    <2>2. req[r].verdict = "approve"
      BY <2>1 DEF UncheckedInv, CannotReject, InTx
    <2>3. \A m \in Members : decision'[m] # "reject"
      BY <2>1, <2>2, RecordFacts DEF UncheckedInv, NobodyRejects, IInv, TypeOK
    <2>4. status' # "rejected"
      BY <1>2, <2>2 DEF Commits, CommitRejection, CommitApproval, CommitQuorum, UncheckedInv,
         NobodyRejects
    <2>5. \A q \in Requests : CannotReject(req'[q])
      <3> TAKE q \in Requests
      <3>1. CannotReject(Blank("idle"))
        BY DEF CannotReject, Blank, InTx
      <3> QED
        BY <2>1, <3>1, RecordFacts DEF UncheckedInv
    <2> QED
      BY <2>3, <2>4, <2>5 DEF UncheckedInv, NobodyRejects, CannotReject
  <1>3. ASSUME NEW w \in Workers, Deliver(w) \/ Outlasts(w) \/ Works(w) \/ PayoutFails(w) \/ WorkerCrash(w)
        PROVE  UncheckedInv'
    BY <1>1, <1>3
    DEF Deliver, Outlasts, Works, PayoutRead, PayoutSend, PayoutMark, PayoutAudit, Settle,
        PayoutFails, WorkerCrash, Untouched
  <1>4. CASE ChangeRoster \/ UNCHANGED vars
    BY <1>1, <1>4 DEF ChangeRoster, vars, rows
  <1> QED
    BY <1>2, <1>3, <1>4, AdvanceKeepsUnchecked DEF Next, Advance, Commits

(* Where every tier asks for a Selfie Check nobody can reject anything, for  *)
(* any rosters and any calls: the gate asks for the proof whatever the       *)
(* decision, and Decide reads it for approvals only (approvals.go:216-262).  *)
THEOREM CheckedTiersCannotReject ==
  ASSUME AllChecked
  PROVE  Spec => []NobodyRejects
  <1>1. Init => UncheckedInv
    BY DEF Init, UncheckedInv, NobodyRejects, CannotReject, Blank, InTx
  <1>2. IInv /\ UncheckedInv /\ [Next]_vars => UncheckedInv'
    BY NextKeepsUnchecked
  <1>3. UncheckedInv => NobodyRejects
    BY DEF UncheckedInv
  <1> QED
    BY <1>1, <1>2, <1>3, InvariantHolds, PTL DEF Spec
=============================================================================
