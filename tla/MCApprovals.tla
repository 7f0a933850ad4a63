---------------------------- MODULE MCApprovals ----------------------------
(* The submitter and three approvers; a rulebook that asks for one approval,   *)
(* one that asks for two and a Selfie Check, and one with no tier in force;  *)
(* a roster where both may approve and one where b is gone.                  *)
EXTENDS Approvals, TLC

CONSTANTS sub, a, b, c, r1, r2, r3, w1, w2

Tier(ceiling, required, selfie, active) ==
  [ceiling |-> ceiling, required |-> required, roles |-> {"approver"}, selfie |-> selfie,
   maxAge |-> IF selfie THEN 1 ELSE 0, blockSelf |-> TRUE, active |-> active]

Light == {Tier(1, 1, FALSE, TRUE)}
Strict == {Tier(1, 1, FALSE, TRUE), Tier(3, 2, TRUE, TRUE), Tier(3, 3, FALSE, TRUE)}
Lapsed == {Tier(2, 1, FALSE, FALSE)}

Everyone == sub :> "member" @@ a :> "approver" @@ b :> "approver" @@ c :> "approver"
WithoutB == sub :> "approver" @@ a :> "approver" @@ c :> "member"

AllRulebooks == {Light, Strict, Lapsed}
AllRosters == {Everyone, WithoutB}

TwoApprovals == {{Tier(3, 2, FALSE, TRUE)}}
OneApproval == {Light}
CheckedApproval == {{Tier(3, 2, TRUE, TRUE)}}
JustTwo == {sub :> "member" @@ a :> "approver" @@ b :> "approver"}

Alike == Permutations(Requests) \cup Permutations(Workers)
=============================================================================
