--------------------------- MODULE PolicyRouting ---------------------------
(***************************************************************************)
(* The pure policy engine (server/internal/policy/policy.go): which tier   *)
(* an amount falls in, who may approve and how many of them, and the last  *)
(* check before an approval is recorded.                                   *)
(*                                                                         *)
(* A tier is a record [ceiling, required, roles, selfie, maxAge,           *)
(* blockSelf, active]; a rulebook is a set of tiers; a roster maps each    *)
(* member to a role.  Amounts are naturals in the smallest unit: the       *)
(* engine only compares them.                                              *)
(***************************************************************************)
EXTENDS Integers, FiniteSets

\* The age of a proof that does not exist (a nil AttestationAgeSec).
NoProof == -1

ActiveTiers(book) == {t \in book : t.active}
Covering(book, amount) == {t \in ActiveTiers(book) : amount <= t.ceiling}
Lowest(tiers) == {t \in tiers : \A u \in tiers : t.ceiling <= u.ceiling}
Highest(tiers) == {t \in tiers : \A u \in tiers : u.ceiling <= t.ceiling}

(* The cheapest tier that covers the amount, else the one with the highest   *)
(* ceiling; none is ErrNoPolicy.  Tiers with equal ceilings come back in no  *)
(* promised order, so there may be several.                                  *)
Select(book, amount) ==
  IF Covering(book, amount) # {}
    THEN Lowest(Covering(book, amount))
    ELSE Highest(ActiveTiers(book))

Eligible(tier, roster, submitter) ==
  {m \in DOMAIN roster : /\ roster[m] \in tier.roles
                         /\ ~(tier.blockSelf /\ m = submitter)}

(* Never more approvals than there are people who could give them, and       *)
(* never fewer than one.                                                     *)
RequiredApprovals(tier, eligible) ==
  LET n == Cardinality(eligible)
      capped == IF n > 0 /\ tier.required > n THEN n ELSE tier.required
  IN  IF capped < 1 THEN 1 ELSE capped

(* The gate lets an approval through: not the submitter's own, the approver  *)
(* is eligible and has not decided yet, and the proof, where the tier asks   *)
(* for one, is there and no older than the tier allows.                      *)
Gate(tier, eligible, approver, submitter, decided, age) ==
  /\ ~(tier.blockSelf /\ approver = submitter)
  /\ approver \in eligible
  /\ ~decided
  /\ tier.selfie => age # NoProof /\ age <= tier.maxAge
=============================================================================
