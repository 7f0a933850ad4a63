----------------------------- MODULE Attestation -----------------------------
(***************************************************************************)
(* The Selfie Check in front of an approval: worldContext mints a          *)
(* challenge, attest burns it, has World ID verify the proof and banks it  *)
(* (RecordAttestation, server/internal/service/approvals.go), and Decide   *)
(* lets an approver through who has a proof inside the tier's window.      *)
(*                                                                         *)
(* Each handler is its database statements and calls, one step each; they  *)
(* run without a transaction around them.  Decide is cut down to what it   *)
(* has to do with proofs (Approvals has the rest): it reads the status,    *)
(* then the proof, then records the approval if the gate is open.  The     *)
(* tier of these invoices asks for a Selfie Check throughout, so that no   *)
(* rejection passes the gate.  Who else the gate and worldContext turn     *)
(* away depends on rosters and rulebooks, and is left open here.           *)
(***************************************************************************)
EXTENDS Naturals

CONSTANTS
  Invoices,
  Members,
  Persons,  \* who may stand in front of the camera: one nullifier each
  Nonces,   \* bound: the challenges the signer hands out
  Calls     \* bound: handlers that run at a time

VARIABLES
  pending,       \* the invoices that are pending approval
  approved,      \* approvals rows, as pairs of invoice and member
  challenge,     \* world_challenges, by nonce
  attestations,  \* attestations rows; .nonce is history
  fresh,         \* the attestations inside the tier's window
  call,          \* each handler: where it is and what it knows
  verified       \* history: how often each nonce's proof went to World ID

vars == <<pending, approved, challenge, attestations, fresh, call, verified>>

Target == [invoice: Invoices, member: Members]
Of(row) == [invoice |-> row.invoice, member |-> row.member]

Unminted == [state |-> "none"]
Minted(state, target) == [state |-> state, target |-> target]
Challenge ==
  {Unminted} \cup [state: {"open", "burned", "expired"}, target: Target]

Row == [invoice: Invoices, member: Members, person: Persons, nonce: Nonces]

Idle == [pc |-> "idle"]
Ended == {"idle", "replayed"}
Call ==
  {Idle}
    \cup [pc: {"mint", "status", "proof"}, target: Target]
    \cup [pc: {"burn", "verify"}, target: Target, nonce: Nonces]
    \cup [pc: {"bank"}, target: Target, nonce: Nonces, person: Persons]
    \cup [pc: {"record"}, target: Target, proven: BOOLEAN]
    \cup [pc: {"replayed"}, stale: BOOLEAN]  \* history: the proof it repeats was stale

Init ==
  /\ pending = Invoices
  /\ approved = {}
  /\ challenge = [n \in Nonces |-> Unminted]
  /\ attestations = {}
  /\ fresh = {}
  /\ call = [c \in Calls |-> Idle]
  /\ verified = [n \in Nonces |-> 0]

Becomes(c, state) == call' = [call EXCEPT ![c] = state]

-----------------------------------------------------------------------------
(* worldContext: an approver of a pending invoice gets a challenge.          *)

Ask(c, target) ==
  /\ call[c].pc \in Ended
  /\ target.invoice \in pending
  /\ Becomes(c, [pc |-> "mint", target |-> target])
  /\ UNCHANGED <<pending, approved, challenge, attestations, fresh, verified>>

Mint(c) ==
  /\ call[c].pc = "mint"
  /\ \E n \in Nonces :
       /\ challenge[n] = Unminted
       /\ challenge' = [challenge EXCEPT ![n] = Minted("open", call[c].target)]
  /\ Becomes(c, Idle)
  /\ UNCHANGED <<pending, approved, attestations, fresh, verified>>

-----------------------------------------------------------------------------
(* attest, up to the banked proof.                                           *)

(* A member submits a proof for an invoice, under whatever nonce: their own, *)
(* one submitted before, or the one of another approval.                     *)
Submit(c, target, n) ==
  /\ call[c].pc \in Ended
  /\ Becomes(c, [pc |-> "burn", target |-> target, nonce |-> n])
  /\ UNCHANGED <<pending, approved, challenge, attestations, fresh, verified>>

Verifying(c) ==
  Becomes(c, [pc |-> "verify", target |-> call[c].target, nonce |-> call[c].nonce])

BurnLater(c) ==
  /\ call[c].pc = "burn"
  /\ IF challenge[call[c].nonce] = Minted("open", call[c].target)
       THEN Verifying(c)
       ELSE Becomes(c, Idle)
  /\ UNCHANGED <<pending, approved, challenge, attestations, fresh, verified>>

BurnForAnyone(c) ==
  /\ call[c].pc = "burn"
  /\ LET found == challenge[call[c].nonce] IN
       IF found.state = "open"
         THEN /\ challenge' = [challenge EXCEPT ![call[c].nonce].state = "burned"]
              /\ Verifying(c)
         ELSE challenge' = challenge /\ Becomes(c, Idle)
  /\ UNCHANGED <<pending, approved, attestations, fresh, verified>>

(* ConsumeChallenge: one UPDATE burns an open challenge, whoever it was for; *)
(* the target is compared after it.                                          *)
Burn(c) ==
  /\ call[c].pc = "burn"
  /\ LET found == challenge[call[c].nonce] IN
       IF found.state = "open"
         THEN /\ challenge' = [challenge EXCEPT ![call[c].nonce].state = "burned"]
              /\ IF found.target = call[c].target THEN Verifying(c) ELSE Becomes(c, Idle)
         ELSE challenge' = challenge /\ Becomes(c, Idle)
  /\ UNCHANGED <<pending, approved, attestations, fresh, verified>>

(* World ID accepts the proof and names the nullifier of a person, or        *)
(* refuses it.                                                               *)
Verify(c) ==
  /\ call[c].pc = "verify"
  /\ verified' = [verified EXCEPT ![call[c].nonce] = @ + 1]
  /\ \/ \E p \in Persons :
          Becomes(c, [pc |-> "bank", target |-> call[c].target, nonce |-> call[c].nonce,
                      person |-> p])
     \/ Becomes(c, Idle)
  /\ UNCHANGED <<pending, approved, challenge, attestations, fresh>>

BankUnrecorded(c) ==
  /\ call[c].pc = "bank"
  /\ fresh' = fresh \cup {[invoice |-> call[c].target.invoice, member |-> call[c].target.member,
                           person |-> call[c].person, nonce |-> call[c].nonce]}
  /\ Becomes(c, [pc |-> "status", target |-> call[c].target])
  /\ UNCHANGED <<pending, approved, challenge, attestations, verified>>

(* RecordAttestation: UNIQUE (signal, nullifier) refuses a person's second   *)
(* proof for the same approval, however old the first one is.                *)
Bank(c) ==
  /\ call[c].pc = "bank"
  /\ LET row == [invoice |-> call[c].target.invoice, member |-> call[c].target.member,
                 person |-> call[c].person, nonce |-> call[c].nonce]
         old == {o \in attestations : Of(o) = Of(row) /\ o.person = row.person}
     IN  IF old # {}
           THEN /\ Becomes(c, [pc |-> "replayed", stale |-> old \cap fresh = {}])
                /\ UNCHANGED <<attestations, fresh>>
           ELSE /\ attestations' = attestations \cup {row}
                /\ fresh' = fresh \cup {row}
                /\ Becomes(c, [pc |-> "status", target |-> call[c].target])
  /\ UNCHANGED <<pending, approved, challenge, verified>>

-----------------------------------------------------------------------------
(* Decide, to approve: at the end of attest, or from Slack or the web.       *)

Approve(c, target) ==
  /\ call[c].pc \in Ended
  /\ Becomes(c, [pc |-> "status", target |-> target])
  /\ UNCHANGED <<pending, approved, challenge, attestations, fresh, verified>>

ReadStatus(c) ==
  /\ call[c].pc = "status"
  /\ IF call[c].target.invoice \in pending
       THEN Becomes(c, [pc |-> "proof", target |-> call[c].target])
       ELSE Becomes(c, Idle)
  /\ UNCHANGED <<pending, approved, challenge, attestations, fresh, verified>>

(* FreshAttestationAge looks for a proof of this very approval.              *)
ReadProof(c) ==
  /\ call[c].pc = "proof"
  /\ Becomes(c, [pc |-> "record", target |-> call[c].target,
                 proven |-> \E row \in fresh : Of(row) = call[c].target])
  /\ UNCHANGED <<pending, approved, challenge, attestations, fresh, verified>>

RecordUngated(c) ==
  /\ call[c].pc = "record"
  /\ Becomes(c, Idle)
  /\ approved' = approved \cup {call[c].target}
  /\ UNCHANGED <<pending, challenge, attestations, fresh, verified>>

(* The gate is open, the approval is recorded, and perhaps it was the last   *)
(* one that was missing.                                                     *)
Record(c) ==
  /\ call[c].pc = "record"
  /\ call[c].proven
  /\ call[c].target \notin approved
  /\ Becomes(c, Idle)
  /\ approved' = approved \cup {call[c].target}
  /\ pending' \in {pending, pending \ {call[c].target.invoice}}
  /\ UNCHANGED <<challenge, attestations, fresh, verified>>

(* The handler turns the caller away, a query fails, World ID is out of      *)
(* reach, or the process dies: what is committed stays.                      *)
CallEnds(c) ==
  /\ call[c].pc \notin Ended
  /\ Becomes(c, Idle)
  /\ UNCHANGED <<pending, approved, challenge, attestations, fresh, verified>>

-----------------------------------------------------------------------------
(* Time passes, and others decide.                                           *)

Expire(n) ==
  /\ challenge[n].state = "open"
  /\ challenge' = [challenge EXCEPT ![n].state = "expired"]
  /\ UNCHANGED <<pending, approved, attestations, fresh, call, verified>>

AgeOut ==
  /\ \E row \in fresh : fresh' = fresh \ {row}
  /\ UNCHANGED <<pending, approved, challenge, attestations, call, verified>>

Close(i) ==
  /\ i \in pending
  /\ pending' = pending \ {i}
  /\ UNCHANGED <<approved, challenge, attestations, fresh, call, verified>>

Next ==
  \/ \E c \in Calls :
       \/ \E target \in Target :
            \/ Ask(c, target)
            \/ Approve(c, target)
            \/ \E n \in Nonces : Submit(c, target, n)
       \/ Mint(c) \/ Burn(c) \/ Verify(c) \/ Bank(c)
       \/ ReadStatus(c) \/ ReadProof(c) \/ Record(c) \/ CallEnds(c)
  \/ \E n \in Nonces : Expire(n)
  \/ AgeOut
  \/ \E i \in Invoices : Close(i)

Spec == Init /\ [][Next]_vars

-----------------------------------------------------------------------------
TypeOK ==
  /\ pending \subseteq Invoices
  /\ approved \subseteq Target
  /\ challenge \in [Nonces -> Challenge]
  /\ attestations \subseteq Row
  /\ fresh \subseteq attestations
  /\ call \in [Calls -> Call]
  /\ verified \in [Nonces -> Nat]

(* A challenge is worth one verification, however often and from wherever    *)
(* its proof is submitted ("Burned before verifying, so a slow verify can't  *)
(* be raced", README.md).                                                    *)
OneUsePerChallenge == \A n \in Nonces : verified[n] <= 1

(* Behind every banked proof stands a burned challenge that was minted for   *)
(* the same invoice and the same approver, and no other proof stands on it.  *)
ProofsAreChallenged ==
  /\ \A row \in attestations : challenge[row.nonce] = Minted("burned", Of(row))
  /\ \A row, other \in attestations : row.nonce = other.nonce => row = other

(* "Fails safe" (README.md): in such a tier an approval on the record has a  *)
(* proof of that approver for that invoice beside it.                        *)
ApprovedIsAttested ==
  \A target \in approved : \E row \in attestations : Of(row) = target

(* "Your Selfie Check has expired. Please verify again." (policy.go): a      *)
(* proof under a challenge of its own is refused as used only while the      *)
(* first one still counts.                                                   *)
StaleCheckRenews ==
  \A c \in Calls : call[c].pc = "replayed" => ~call[c].stale
=============================================================================
