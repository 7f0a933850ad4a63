-------------------------- MODULE AttestationProofs --------------------------
(***************************************************************************)
(* Proofs about Attestation.  The invariant follows a challenge: once it   *)
(* is burned, at most one handler carries it on, and until that handler    *)
(* has banked its proof no attestation and no verification stands on it.   *)
(***************************************************************************)
EXTENDS Attestation, TLAPS

\* The handler has burned the challenge of this nonce and not yet banked a proof.
Carries(c, n) == call[c].pc \in {"verify", "bank"} /\ call[c].nonce = n

CarriedOK ==
  \A c \in Calls, n \in Nonces : Carries(c, n) =>
    /\ challenge[n] = Minted("burned", call[c].target)
    /\ \A row \in attestations : row.nonce # n
    /\ \A d \in Calls : Carries(d, n) => d = c
    /\ call[c].pc = "verify" => verified[n] = 0

VerifiedOK ==
  \A n \in Nonces : verified[n] # 0 => verified[n] = 1 /\ challenge[n].state = "burned"

ProvenOK ==
  \A c \in Calls :
    call[c].pc = "record" /\ call[c].proven
      => \E row \in attestations : Of(row) = call[c].target

IInv ==
  /\ TypeOK /\ CarriedOK /\ VerifiedOK /\ ProofsAreChallenged /\ ProvenOK
  /\ ApprovedIsAttested

-----------------------------------------------------------------------------
(* What a handler carries, by where it is.                                   *)
LEMMA CallShape ==
  ASSUME TypeOK, NEW c \in Calls
  PROVE  /\ call[c].pc \in {"mint", "status", "proof", "burn", "verify", "bank", "record"}
              => call[c].target \in Target
         /\ call[c].pc \in {"burn", "verify", "bank"} => call[c].nonce \in Nonces
         /\ call[c].pc = "bank" => call[c].person \in Persons
         /\ call[c].pc = "record" => call[c].proven \in BOOLEAN
<1>1. call[c] \in Call
  BY DEF TypeOK
<1>2. CASE call[c] = Idle
  BY <1>2 DEF Idle
<1>3. CASE call[c] \in [pc: {"mint", "status", "proof"}, target: Target]
  BY <1>3
<1>4. CASE call[c] \in [pc: {"burn", "verify"}, target: Target, nonce: Nonces]
  BY <1>4
<1>5. CASE call[c] \in [pc: {"bank"}, target: Target, nonce: Nonces, person: Persons]
  BY <1>5
<1>6. CASE call[c] \in [pc: {"record"}, target: Target, proven: BOOLEAN]
  BY <1>6
<1>7. CASE call[c] \in [pc: {"replayed"}, stale: BOOLEAN]
  BY <1>7
<1> QED
  BY <1>1, <1>2, <1>3, <1>4, <1>5, <1>6, <1>7 DEF Call

(* What each kind of handler state looks like.                               *)
LEMMA CallStates ==
  /\ Idle \in Call
  /\ \A t \in Target : /\ [pc |-> "mint", target |-> t] \in Call
                       /\ [pc |-> "status", target |-> t] \in Call
                       /\ [pc |-> "proof", target |-> t] \in Call
  /\ \A t \in Target, n \in Nonces :
       /\ [pc |-> "burn", target |-> t, nonce |-> n] \in Call
       /\ [pc |-> "verify", target |-> t, nonce |-> n] \in Call
       /\ \A p \in Persons :
            [pc |-> "bank", target |-> t, nonce |-> n, person |-> p] \in Call
  /\ \A t \in Target, b \in BOOLEAN : [pc |-> "record", target |-> t, proven |-> b] \in Call
  /\ \A b \in BOOLEAN : [pc |-> "replayed", stale |-> b] \in Call
BY DEF Call

(* A handler's step leaves the others where they are.                        *)
LEMMA BecomesOne ==
  ASSUME TypeOK, NEW c \in Calls, NEW state, Becomes(c, state)
  PROVE  /\ call'[c] = state
         /\ \A d \in Calls : d # c => call'[d] = call[d]
         /\ state \in Call => call' \in [Calls -> Call]
BY DEF TypeOK, Becomes

LEMMA MintedType ==
  ASSUME NEW t \in Target, NEW s \in {"open", "burned", "expired"}
  PROVE  /\ Minted(s, t) \in Challenge
         /\ Minted(s, t).state = s /\ Minted(s, t).target = t
         /\ Minted(s, t) # Unminted
BY DEF Minted, Challenge, Unminted

(* An open challenge, and what becomes of it.                                *)
LEMMA OpenChallenge ==
  ASSUME TypeOK, NEW n \in Nonces, challenge[n].state = "open", NEW s \in {"burned", "expired"},
         challenge' = [challenge EXCEPT ![n].state = s]
  PROVE  /\ challenge' \in [Nonces -> Challenge]
         /\ challenge[n].target \in Target
         /\ challenge'[n] = Minted(s, challenge[n].target)
         /\ \A m \in Nonces : m # n => challenge'[m] = challenge[m]
<1>1. challenge[n] \in [state: {"open", "burned", "expired"}, target: Target]
  BY DEF TypeOK, Challenge, Unminted
<1>2. [challenge[n] EXCEPT !.state = s] = Minted(s, challenge[n].target)
  BY <1>1 DEF Minted
<1>3. challenge' = [challenge EXCEPT ![n] = Minted(s, challenge[n].target)]
  BY <1>1, <1>2 DEF TypeOK
<1>4. Minted(s, challenge[n].target) \in Challenge
  BY <1>1, MintedType
<1> QED
  BY <1>1, <1>3, <1>4 DEF TypeOK

(* A handler that goes on, or ends, without a challenge or a proof in hand.  *)
LEMMA QuietStep ==
  ASSUME IInv, NEW c \in Calls, NEW state \in Call,
         state.pc \notin {"verify", "bank", "record"}, Becomes(c, state),
         UNCHANGED <<pending, approved, challenge, attestations, fresh, verified>>
  PROVE  IInv'
<1>1. /\ call'[c] = state
      /\ \A d \in Calls : d # c => call'[d] = call[d]
      /\ call' \in [Calls -> Call]
  BY BecomesOne DEF IInv
<1>2. TypeOK'
  BY <1>1 DEF IInv, TypeOK
<1>3. \A d \in Calls, n \in Nonces : Carries(d, n)' => d # c /\ Carries(d, n)
  BY <1>1 DEF Carries
<1>4. CarriedOK'
  BY <1>1, <1>3 DEF IInv, CarriedOK
<1>5. VerifiedOK' /\ ProofsAreChallenged' /\ ApprovedIsAttested'
  BY DEF IInv, VerifiedOK, ProofsAreChallenged, ApprovedIsAttested
<1>6. ProvenOK'
  BY <1>1 DEF IInv, ProvenOK
<1> QED
  BY <1>2, <1>4, <1>5, <1>6 DEF IInv

LEMMA ReadStatusStep ==
  ASSUME IInv, NEW c \in Calls, ReadStatus(c)
  PROVE  IInv'
<1> DEFINE next == [pc |-> "proof", target |-> call[c].target]
<1>1. call[c].target \in Target
  BY CallShape DEF ReadStatus, IInv
<1>2. next \in Call /\ next.pc = "proof"
  BY <1>1, CallStates
<1>3. CASE Becomes(c, next)
  BY <1>2, <1>3, QuietStep DEF ReadStatus
<1>4. CASE Becomes(c, Idle)
  BY <1>4, CallStates, QuietStep DEF ReadStatus, Idle
<1> QED
  BY <1>3, <1>4 DEF ReadStatus

(* Mint: the new challenge is carried by nobody, since it is not burned.     *)
LEMMA MintStep ==
  ASSUME IInv, NEW c \in Calls, Mint(c)
  PROVE  IInv'
<1>1. PICK n \in Nonces : /\ challenge[n] = Unminted
                          /\ challenge' = [challenge EXCEPT ![n] = Minted("open", call[c].target)]
  BY DEF Mint
<1>2. call[c].target \in Target
  BY CallShape DEF IInv, Mint
<1>3. Minted("open", call[c].target) \in Challenge
  BY <1>2, MintedType
<1>4. challenge[n].state = "none"
  BY <1>1 DEF Unminted
<1>5. \A t \in Target : challenge[n] # Minted("burned", t)
  BY <1>1, MintedType
<1>6. /\ call'[c] = Idle
      /\ \A d \in Calls : d # c => call'[d] = call[d]
      /\ call' \in [Calls -> Call]
  BY BecomesOne, CallStates DEF IInv, Mint
<1>7. TypeOK'
  BY <1>1, <1>3, <1>6 DEF IInv, TypeOK, Mint
<1>8. \A d \in Calls, m \in Nonces : Carries(d, m)' => d # c /\ Carries(d, m) /\ m # n
  <2>1. \A d \in Calls, m \in Nonces : Carries(d, m)' => d # c /\ Carries(d, m)
    BY <1>6 DEF Carries, Idle
  <2>2. \A d \in Calls : Carries(d, n) => call[d].target \in Target
    BY CallShape DEF IInv, Carries
  <2> QED
    BY <1>5, <2>1, <2>2 DEF IInv, CarriedOK
<1>9. CarriedOK'
  BY <1>1, <1>6, <1>8 DEF IInv, CarriedOK, Mint, TypeOK
<1>10. VerifiedOK'
  BY <1>1, <1>4 DEF IInv, VerifiedOK, Mint, TypeOK
<1>11. ProofsAreChallenged'
  <2>1. \A row \in attestations : Of(row) \in Target /\ row.nonce \in Nonces
    BY DEF IInv, TypeOK, Row, Of, Target
  <2> QED
    BY <1>1, <1>5, <2>1 DEF IInv, ProofsAreChallenged, Mint, TypeOK
<1>12. ProvenOK' /\ ApprovedIsAttested'
  BY <1>6 DEF IInv, ProvenOK, ApprovedIsAttested, Mint, Idle
<1> QED
  BY <1>7, <1>9, <1>10, <1>11, <1>12 DEF IInv

(* A challenge that is open has nothing standing on it.                      *)
LEMMA OpenIsUnused ==
  ASSUME IInv, NEW n \in Nonces, challenge[n].state = "open"
  PROVE  /\ verified[n] = 0
         /\ \A d \in Calls : ~Carries(d, n)
         /\ \A row \in attestations : row.nonce # n
<1>1. \A t \in Target : challenge[n] # Minted("burned", t)
  BY MintedType
<1>2. verified[n] = 0
  BY DEF IInv, VerifiedOK
<1>3. \A d \in Calls : ~Carries(d, n)
  <2>1. \A d \in Calls : Carries(d, n) => call[d].target \in Target
    BY CallShape DEF IInv, Carries
  <2> QED
    BY <1>1, <2>1 DEF IInv, CarriedOK
<1>4. \A row \in attestations : row.nonce # n
  <2>1. \A row \in attestations : Of(row) \in Target
    BY DEF IInv, TypeOK, Row, Of, Target
  <2> QED
    BY <1>1, <2>1 DEF IInv, ProofsAreChallenged
<1> QED
  BY <1>2, <1>3, <1>4

(* Burn: the challenge of the proof leaves "open", and if it was minted for  *)
(* this approval its handler is the only one to carry it on.                 *)
LEMMA BurnStep ==
  ASSUME IInv, NEW c \in Calls, Burn(c)
  PROVE  IInv'
<1> DEFINE n == call[c].nonce
           t == call[c].target
           next == [pc |-> "verify", target |-> t, nonce |-> n]
<1>1. n \in Nonces /\ t \in Target
  BY CallShape DEF IInv, Burn
<1>2. CASE challenge[n].state # "open"
  BY <1>2, CallStates, QuietStep DEF Burn, Idle
<1>3. CASE challenge[n].state = "open"
  <2>1. challenge' = [challenge EXCEPT ![n].state = "burned"]
    BY <1>3 DEF Burn
  <2>2. /\ challenge' \in [Nonces -> Challenge]
        /\ challenge[n].target \in Target
        /\ challenge'[n] = Minted("burned", challenge[n].target)
        /\ \A m \in Nonces : m # n => challenge'[m] = challenge[m]
    BY <1>1, <1>3, <2>1, OpenChallenge DEF IInv
  <2>3. /\ verified[n] = 0
        /\ \A d \in Calls : ~Carries(d, n)
        /\ \A row \in attestations : row.nonce # n
    BY <1>1, <1>3, OpenIsUnused
  <2>4. \/ challenge[n].target = t /\ Becomes(c, next)
        \/ Becomes(c, Idle)
    BY <1>3 DEF Burn, Verifying
  <2>5. next \in Call /\ Idle \in Call
    BY <1>1, CallStates
  <2>6. /\ call'[c] \in {next, Idle}
        /\ call'[c] = next => challenge[n].target = t
        /\ \A d \in Calls : d # c => call'[d] = call[d]
        /\ call' \in [Calls -> Call]
    <3>1. next # Idle
      BY DEF Idle
    <3> QED
      BY <2>4, <2>5, <3>1, BecomesOne DEF IInv
  <2>7. TypeOK'
    BY <2>2, <2>6 DEF IInv, TypeOK, Burn
  <2>8. \A d \in Calls, m \in Nonces : Carries(d, m)' =>
          \/ d # c /\ m # n /\ Carries(d, m)
          \/ d = c /\ m = n /\ call'[c] = next
    <3>1. ASSUME NEW d \in Calls, NEW m \in Nonces, Carries(d, m)', d # c
          PROVE  m # n /\ Carries(d, m)
      BY <2>3, <2>6, <3>1 DEF Carries
    <3>2. ASSUME NEW m \in Nonces, Carries(c, m)'
          PROVE  m = n /\ call'[c] = next
      BY <2>6, <3>2 DEF Carries, Idle
    <3> QED
      BY <3>1, <3>2
  <2>9. CarriedOK'
    <3> SUFFICES ASSUME NEW d \in Calls, NEW m \in Nonces, Carries(d, m)'
                 PROVE  /\ challenge'[m] = Minted("burned", call'[d].target)
                        /\ \A row \in attestations' : row.nonce # m
                        /\ \A e \in Calls : Carries(e, m)' => e = d
                        /\ call'[d].pc = "verify" => verified'[m] = 0
      BY DEF CarriedOK
    <3>1. CASE d # c /\ m # n /\ Carries(d, m)
      BY <2>2, <2>6, <2>8, <3>1 DEF IInv, CarriedOK, Burn
    <3>2. CASE d = c /\ m = n /\ call'[c] = next
      BY <2>2, <2>3, <2>6, <2>8, <3>2 DEF Burn
    <3> QED
      BY <2>8, <3>1, <3>2
  <2>10. VerifiedOK' /\ ProofsAreChallenged'
    <3>1. \A row \in attestations : row.nonce \in Nonces
      BY DEF IInv, TypeOK, Row
    <3> QED
      BY <2>2, <2>3, <3>1 DEF IInv, VerifiedOK, ProofsAreChallenged, Burn
  <2>11. ProvenOK' /\ ApprovedIsAttested'
    BY <2>6 DEF IInv, ProvenOK, ApprovedIsAttested, Burn, Idle
  <2> QED
    BY <2>7, <2>9, <2>10, <2>11 DEF IInv
<1> QED
  BY <1>2, <1>3

(* Verify: the one verification of this nonce.                               *)
LEMMA VerifyStep ==
  ASSUME IInv, NEW c \in Calls, Verify(c)
  PROVE  IInv'
<1> DEFINE n == call[c].nonce
           t == call[c].target
           next(p) == [pc |-> "bank", target |-> t, nonce |-> n, person |-> p]
<1>1. n \in Nonces /\ t \in Target /\ Carries(c, n)
  BY CallShape DEF IInv, Verify, Carries
<1>2. /\ challenge[n] = Minted("burned", t)
      /\ \A row \in attestations : row.nonce # n
      /\ \A d \in Calls : Carries(d, n) => d = c
      /\ verified[n] = 0
  BY <1>1 DEF IInv, CarriedOK, Verify
<1>3. verified'[n] = 1 /\ \A m \in Nonces : m # n => verified'[m] = verified[m]
  BY <1>1, <1>2 DEF IInv, TypeOK, Verify
<1>4. verified' \in [Nonces -> Nat]
  BY <1>1, <1>2 DEF IInv, TypeOK, Verify
<1>5. PICK state \in Call : /\ Becomes(c, state)
                            /\ \/ state = Idle
                               \/ \E p \in Persons : state = next(p)
  BY <1>1, CallStates DEF Verify
<1>6. /\ call'[c] = state
      /\ \A d \in Calls : d # c => call'[d] = call[d]
      /\ call' \in [Calls -> Call]
  BY <1>5, BecomesOne DEF IInv
<1>7. state.pc \in {"idle", "bank"} /\ (state.pc = "bank" => state.nonce = n /\ state.target = t)
  BY <1>5 DEF Idle
<1>8. TypeOK'
  BY <1>4, <1>6 DEF IInv, TypeOK, Verify
<1>9. CarriedOK'
  <2>1. \A d \in Calls, m \in Nonces : Carries(d, m)' => Carries(d, m)
    BY <1>1, <1>6, <1>7 DEF Carries
  <2>2. \A d \in Calls : d # c => ~Carries(d, n)
    BY <1>2
  <2> SUFFICES ASSUME NEW d \in Calls, NEW m \in Nonces, Carries(d, m)'
               PROVE  /\ challenge'[m] = Minted("burned", call'[d].target)
                      /\ \A row \in attestations' : row.nonce # m
                      /\ \A e \in Calls : Carries(e, m)' => e = d
                      /\ call'[d].pc = "verify" => verified'[m] = 0
    BY DEF CarriedOK
  <2>3. CASE d = c
    <3>1. m = n /\ call'[c].pc = "bank" /\ call'[c].target = t
      BY <1>6, <1>7, <2>3 DEF Carries
    <3> QED
      BY <1>2, <2>1, <2>3, <3>1 DEF Verify
  <2>4. CASE d # c
    <3>1. m # n /\ Carries(d, m)
      BY <2>1, <2>2, <2>4
    <3> QED
      BY <1>3, <1>6, <2>1, <2>4, <3>1 DEF IInv, CarriedOK, Verify
  <2> QED
    BY <2>3, <2>4
<1>10. VerifiedOK'
  <2>1. challenge[n].state = "burned"
    BY <1>1, <1>2, MintedType
  <2> QED
    BY <1>3, <2>1 DEF IInv, VerifiedOK, Verify
<1>11. ProofsAreChallenged' /\ ApprovedIsAttested'
  BY DEF IInv, ProofsAreChallenged, ApprovedIsAttested, Verify
<1>12. ProvenOK'
  BY <1>6, <1>7 DEF IInv, ProvenOK, Verify
<1> QED
  BY <1>8, <1>9, <1>10, <1>11, <1>12 DEF IInv

(* Bank: the nonce passes from the handler to the attestation.               *)
LEMMA BankStep ==
  ASSUME IInv, NEW c \in Calls, Bank(c)
  PROVE  IInv'
<1> DEFINE n == call[c].nonce
           t == call[c].target
           row == [invoice |-> t.invoice, member |-> t.member,
                   person |-> call[c].person, nonce |-> n]
           old == {o \in attestations : Of(o) = Of(row) /\ o.person = row.person}
           refused == [pc |-> "replayed", stale |-> old \cap fresh = {}]
           next == [pc |-> "status", target |-> t]
<1>1. n \in Nonces /\ t \in Target /\ call[c].person \in Persons /\ Carries(c, n)
  BY CallShape DEF IInv, Bank, Carries
<1>2. row \in Row /\ row.nonce = n /\ Of(row) = t
  BY <1>1 DEF Row, Target, Of
<1>3. CASE old # {}
  <2>1. Becomes(c, refused) /\ UNCHANGED <<attestations, fresh>>
    BY <1>3 DEF Bank
  <2>2. refused \in Call /\ refused.pc = "replayed"
    BY CallStates
  <2> HIDE DEF refused
  <2>3. UNCHANGED <<pending, approved, challenge, attestations, fresh, verified>>
    BY <2>1 DEF Bank
  <2> QED
    BY <2>1, <2>2, <2>3, QuietStep
<1>4. CASE old = {}
  <2>1. /\ Becomes(c, next)
        /\ attestations' = attestations \cup {row}
        /\ fresh' = fresh \cup {row}
    BY <1>4 DEF Bank
  <2>2. next \in Call /\ next.pc = "status"
    BY <1>1, CallStates
  <2>3. /\ call'[c] = next
        /\ \A d \in Calls : d # c => call'[d] = call[d]
        /\ call' \in [Calls -> Call]
    BY <2>1, <2>2, BecomesOne DEF IInv
  <2>4. /\ challenge[n] = Minted("burned", t)
        /\ \A r \in attestations : r.nonce # n
        /\ \A d \in Calls : Carries(d, n) => d = c
    BY <1>1 DEF IInv, CarriedOK
  <2> HIDE DEF row, next
  <2>5. TypeOK'
    BY <1>2, <2>1, <2>3 DEF IInv, TypeOK, Bank
  <2>6. \A d \in Calls, m \in Nonces : Carries(d, m)' => d # c /\ m # n /\ Carries(d, m)
    BY <1>1, <2>2, <2>3, <2>4 DEF Carries
  <2>7. CarriedOK'
    BY <1>2, <2>1, <2>3, <2>6 DEF IInv, CarriedOK, Bank
  <2>8. VerifiedOK'
    BY DEF IInv, VerifiedOK, Bank
  <2>9. ProofsAreChallenged'
    BY <1>2, <2>1, <2>4 DEF IInv, ProofsAreChallenged, Bank
  <2>10. ProvenOK' /\ ApprovedIsAttested'
    BY <2>1, <2>2, <2>3 DEF IInv, ProvenOK, ApprovedIsAttested, Bank
  <2> QED
    BY <2>5, <2>7, <2>8, <2>9, <2>10 DEF IInv
<1> QED
  BY <1>3, <1>4

(* ReadProof and Record: a proof that was read is on the record for good.    *)
LEMMA ReadProofStep ==
  ASSUME IInv, NEW c \in Calls, ReadProof(c)
  PROVE  IInv'
<1> DEFINE t == call[c].target
           proven == \E row \in fresh : Of(row) = t
           next == [pc |-> "record", target |-> t, proven |-> proven]
<1>1. t \in Target
  BY CallShape DEF IInv, ReadProof
<1>2. next \in Call
  BY <1>1, CallStates
<1>3. /\ call'[c] = next
      /\ \A d \in Calls : d # c => call'[d] = call[d]
      /\ call' \in [Calls -> Call]
  BY <1>2, BecomesOne DEF IInv, ReadProof
<1>4. TypeOK'
  BY <1>3 DEF IInv, TypeOK, ReadProof
<1>5. \A d \in Calls, m \in Nonces : Carries(d, m)' => d # c /\ Carries(d, m)
  BY <1>3 DEF Carries
<1>6. CarriedOK'
  BY <1>3, <1>5 DEF IInv, CarriedOK, ReadProof
<1>7. VerifiedOK' /\ ProofsAreChallenged' /\ ApprovedIsAttested'
  BY DEF IInv, VerifiedOK, ProofsAreChallenged, ApprovedIsAttested, ReadProof
<1>8. ProvenOK'
  <2>1. proven => \E row \in attestations : Of(row) = t
    BY DEF IInv, TypeOK
  <2> QED
    BY <1>3, <2>1 DEF IInv, ProvenOK, ReadProof
<1> QED
  BY <1>4, <1>6, <1>7, <1>8 DEF IInv

LEMMA RecordStep ==
  ASSUME IInv, NEW c \in Calls, Record(c)
  PROVE  IInv'
<1>1. call[c].target \in Target
  BY CallShape DEF IInv, Record
<1>2. \E row \in attestations : Of(row) = call[c].target
  BY DEF IInv, ProvenOK, Record
<1>3. /\ call'[c] = Idle
      /\ \A d \in Calls : d # c => call'[d] = call[d]
      /\ call' \in [Calls -> Call]
  BY BecomesOne, CallStates DEF IInv, Record
<1>4. TypeOK'
  BY <1>1, <1>3 DEF IInv, TypeOK, Record
<1>5. \A d \in Calls, m \in Nonces : Carries(d, m)' => d # c /\ Carries(d, m)
  BY <1>3 DEF Carries, Idle
<1>6. CarriedOK'
  BY <1>3, <1>5 DEF IInv, CarriedOK, Record
<1>7. VerifiedOK' /\ ProofsAreChallenged'
  BY DEF IInv, VerifiedOK, ProofsAreChallenged, Record
<1>8. ApprovedIsAttested'
  BY <1>2 DEF IInv, ApprovedIsAttested, Record
<1>9. ProvenOK'
  BY <1>3 DEF IInv, ProvenOK, Record, Idle
<1> QED
  BY <1>4, <1>6, <1>7, <1>8, <1>9 DEF IInv

(* Time and the others.                                                      *)
LEMMA ExpireStep ==
  ASSUME IInv, NEW n \in Nonces, Expire(n)
  PROVE  IInv'
<1>1. /\ challenge' \in [Nonces -> Challenge]
      /\ \A m \in Nonces : m # n => challenge'[m] = challenge[m]
  BY OpenChallenge DEF IInv, Expire
<1>2. /\ verified[n] = 0
      /\ \A d \in Calls : ~Carries(d, n)
      /\ \A row \in attestations : row.nonce # n
  BY OpenIsUnused DEF Expire
<1>3. TypeOK'
  BY <1>1 DEF IInv, TypeOK, Expire
<1>4. CarriedOK'
  BY <1>1, <1>2 DEF IInv, CarriedOK, Carries, Expire
<1>5. VerifiedOK'
  BY <1>1, <1>2 DEF IInv, VerifiedOK, Expire
<1>6. ProofsAreChallenged'
  <2>1. \A row \in attestations : row.nonce \in Nonces
    BY DEF IInv, TypeOK, Row
  <2> QED
    BY <1>1, <1>2, <2>1 DEF IInv, ProofsAreChallenged, Expire
<1>7. ProvenOK' /\ ApprovedIsAttested'
  BY DEF IInv, ProvenOK, ApprovedIsAttested, Expire
<1> QED
  BY <1>3, <1>4, <1>5, <1>6, <1>7 DEF IInv

LEMMA ClosingStep ==
  ASSUME IInv, AgeOut \/ (\E i \in Invoices : Close(i))
  PROVE  IInv'
<1>1. UNCHANGED <<approved, challenge, attestations, call, verified>>
  BY DEF AgeOut, Close
<1>2. fresh' \subseteq attestations /\ pending' \subseteq Invoices
  BY DEF AgeOut, Close, IInv, TypeOK
<1> QED
  BY <1>1, <1>2 DEF IInv, TypeOK, CarriedOK, Carries, VerifiedOK, ProofsAreChallenged,
                    ProvenOK, ApprovedIsAttested

-----------------------------------------------------------------------------
LEMMA InitInv == Init => IInv
<1> SUFFICES ASSUME Init PROVE IInv
  OBVIOUS
<1>1. TypeOK
  BY CallStates DEF Init, TypeOK, Challenge
<1> QED
  BY <1>1 DEF Init, IInv, CarriedOK, Carries, VerifiedOK, ProofsAreChallenged, ProvenOK,
              ApprovedIsAttested, Idle

LEMMA NextInv == IInv /\ [Next]_vars => IInv'
<1> SUFFICES ASSUME IInv, [Next]_vars PROVE IInv'
  OBVIOUS
<1>1. ASSUME NEW c \in Calls, NEW target \in Target, Ask(c, target) \/ Approve(c, target)
      PROVE  IInv'
  <2>1. CASE Ask(c, target)
    BY <2>1, CallStates, QuietStep DEF Ask
  <2>2. CASE Approve(c, target)
    BY <2>2, CallStates, QuietStep DEF Approve
  <2> QED
    BY <1>1, <2>1, <2>2
<1>2. ASSUME NEW c \in Calls, NEW target \in Target, NEW n \in Nonces, Submit(c, target, n)
      PROVE  IInv'
  BY <1>2, CallStates, QuietStep DEF Submit
<1>3. ASSUME NEW c \in Calls, ReadStatus(c) \/ CallEnds(c)
      PROVE  IInv'
  <2>1. CASE ReadStatus(c)
    BY <2>1, ReadStatusStep
  <2>2. CASE CallEnds(c)
    BY <2>2, CallStates, QuietStep DEF CallEnds, Idle
  <2> QED
    BY <1>3, <2>1, <2>2
<1>4. CASE UNCHANGED vars
  BY <1>4 DEF vars, IInv, TypeOK, CarriedOK, Carries, VerifiedOK, ProofsAreChallenged,
              ProvenOK, ApprovedIsAttested
<1> QED
  BY <1>1, <1>2, <1>3, <1>4, MintStep, BurnStep, VerifyStep, BankStep, ReadProofStep,
     RecordStep, ExpireStep, ClosingStep DEF Next

THEOREM Invariance == Spec => []IInv
BY InitInv, NextInv, PTL DEF Spec

(* Every variable keeps to its type.                                         *)
THEOREM TypeCorrect == Spec => []TypeOK
<1>1. IInv => TypeOK
  BY DEF IInv
<1> QED
  BY <1>1, Invariance, PTL

(* A challenge is verified at most once, by however many handlers its proof  *)
(* is submitted to.                                                          *)
THEOREM ChallengesAreSingleUse == Spec => []OneUsePerChallenge
<1>1. IInv => OneUsePerChallenge
  BY DEF IInv, TypeOK, VerifiedOK, OneUsePerChallenge
<1> QED
  BY <1>1, Invariance, PTL

(* Every banked proof has a challenge of its own, minted for its invoice and *)
(* its approver.                                                             *)
THEOREM ProofsKeepTheirTarget == Spec => []ProofsAreChallenged
<1>1. IInv => ProofsAreChallenged
  BY DEF IInv
<1> QED
  BY <1>1, Invariance, PTL

(* No approval is recorded without a proof.                                  *)
THEOREM GateHolds == Spec => []ApprovedIsAttested
<1>1. IInv => ApprovedIsAttested
  BY DEF IInv
<1> QED
  BY <1>1, Invariance, PTL

-----------------------------------------------------------------------------
(* What the unique index over target and nullifier amounts to.  It keeps a   *)
(* person from banking one proof twice, and a person whose proof is too old  *)
(* from banking another.                                                     *)

\* A person has at most one proof of each approval.
OneProofPerPerson ==
  \A row, other \in attestations :
    Of(row) = Of(other) /\ row.person = other.person => row = other

\* The proof this person gave of this approval no longer counts.
TooLate(target, person) ==
  \E row \in attestations \ fresh : Of(row) = target /\ row.person = person

\* It stays too late for them: no proof of theirs counts for that approval
\* from there on.
LapsesForGood ==
  [][\A target \in Target, person \in Persons : TooLate(target, person) =>
       /\ TooLate(target, person)'
       /\ \A row \in fresh' : Of(row) = target => row.person # person]_vars

\* Proofs are banked in one step only.
LEMMA OnlyBankAdds ==
  ASSUME [Next]_vars
  PROVE  \/ attestations' = attestations /\ fresh' \subseteq fresh
         \/ \E row :
              /\ \A o \in attestations : ~(Of(o) = Of(row) /\ o.person = row.person)
              /\ attestations' = attestations \cup {row}
              /\ fresh' = fresh \cup {row}
<1>1. ASSUME NEW c \in Calls, Bank(c), attestations' # attestations
      PROVE  \E row :
               /\ \A o \in attestations : ~(Of(o) = Of(row) /\ o.person = row.person)
               /\ attestations' = attestations \cup {row}
               /\ fresh' = fresh \cup {row}
  <2> DEFINE row == [invoice |-> call[c].target.invoice, member |-> call[c].target.member,
                     person |-> call[c].person, nonce |-> call[c].nonce]
  <2>1. {o \in attestations : Of(o) = Of(row) /\ o.person = row.person} = {}
    BY <1>1 DEF Bank
  <2>2. attestations' = attestations \cup {row} /\ fresh' = fresh \cup {row}
    BY <1>1, <2>1 DEF Bank
  <2> HIDE DEF row
  <2> QED
    BY <2>1, <2>2
<1>2. ASSUME NEW c \in Calls, Bank(c), attestations' = attestations
      PROVE  fresh' \subseteq fresh \/ \E row :
               /\ \A o \in attestations : ~(Of(o) = Of(row) /\ o.person = row.person)
               /\ attestations' = attestations \cup {row}
               /\ fresh' = fresh \cup {row}
  <2> DEFINE row == [invoice |-> call[c].target.invoice, member |-> call[c].target.member,
                     person |-> call[c].person, nonce |-> call[c].nonce]
             old == {o \in attestations : Of(o) = Of(row) /\ o.person = row.person}
  <2>1. CASE old = {}
    <3>1. attestations' = attestations \cup {row} /\ fresh' = fresh \cup {row}
      BY <1>2, <2>1 DEF Bank
    <3> HIDE DEF row
    <3> QED
      BY <2>1, <3>1
  <2>2. CASE old # {}
    BY <1>2, <2>2 DEF Bank
  <2> QED
    BY <2>1, <2>2
<1>3. ASSUME NEW c \in Calls,
             \/ \E target \in Target :
                  \/ Ask(c, target) \/ Approve(c, target)
                  \/ \E n \in Nonces : Submit(c, target, n)
             \/ Mint(c) \/ Burn(c) \/ Verify(c)
             \/ ReadStatus(c) \/ ReadProof(c) \/ Record(c) \/ CallEnds(c)
      PROVE  attestations' = attestations /\ fresh' = fresh
  BY <1>3 DEF Ask, Approve, Submit, Mint, Burn, Verify, ReadStatus, ReadProof, Record, CallEnds
<1>4. ASSUME \/ \E n \in Nonces : Expire(n)
             \/ AgeOut
             \/ \E i \in Invoices : Close(i)
             \/ UNCHANGED vars
      PROVE  attestations' = attestations /\ fresh' \subseteq fresh
  BY <1>4 DEF Expire, AgeOut, Close, vars
<1> QED
  BY <1>1, <1>2, <1>3, <1>4 DEF Next

LEMMA OneProofInv == Spec => []OneProofPerPerson
<1>1. Init => OneProofPerPerson
  BY DEF Init, OneProofPerPerson
<1>2. OneProofPerPerson /\ [Next]_vars => OneProofPerPerson'
  BY OnlyBankAdds DEF OneProofPerPerson
<1> QED
  BY <1>1, <1>2, PTL DEF Spec

(* The nullifier of a banked proof is the person's one proof of that         *)
(* approval, whichever challenges it is tried under (RecordAttestation).     *)
THEOREM OneFaceOneProof == Spec => []OneProofPerPerson
BY OneProofInv

(* When a person's Selfie Check has aged out, no later gate of that approval *)
(* finds a proof of theirs again: what StaleCheckRenews shows of one call    *)
(* holds for good.                                                           *)
THEOREM StaleForGood == Spec => LapsesForGood
<1>1. ASSUME TypeOK, OneProofPerPerson, [Next]_vars,
             NEW target, NEW person, TooLate(target, person)
      PROVE  /\ TooLate(target, person)'
             /\ \A row \in fresh' : Of(row) = target => row.person # person
  <2>1. PICK o \in attestations : o \notin fresh /\ Of(o) = target /\ o.person = person
    BY <1>1 DEF TooLate
  <2>2. CASE attestations' = attestations /\ fresh' \subseteq fresh
    BY <1>1, <2>1, <2>2 DEF OneProofPerPerson, TooLate, TypeOK
  <2>3. ASSUME NEW row, attestations' = attestations \cup {row}, fresh' = fresh \cup {row},
               \A r \in attestations : ~(Of(r) = Of(row) /\ r.person = row.person)
        PROVE  /\ TooLate(target, person)'
               /\ \A r \in fresh' : Of(r) = target => r.person # person
    <3>1. o \in attestations' \ fresh'
      BY <2>1, <2>3
    <3>2. ~(Of(row) = target /\ row.person = person)
      BY <2>1, <2>3
    <3>3. \A r \in fresh : ~(Of(r) = target /\ r.person = person)
      BY <1>1, <2>1 DEF OneProofPerPerson, TypeOK
    <3> QED
      BY <2>1, <2>3, <3>1, <3>2, <3>3 DEF TooLate
  <2> QED
    BY <1>1, <2>2, <2>3, OnlyBankAdds
<1>2. TypeOK /\ OneProofPerPerson /\ [Next]_vars =>
        [\A target \in Target, person \in Persons : TooLate(target, person) =>
           /\ TooLate(target, person)'
           /\ \A row \in fresh' : Of(row) = target => row.person # person]_vars
  BY <1>1
<1> QED
  BY TypeCorrect, OneProofInv, <1>2, PTL DEF Spec, LapsesForGood
=============================================================================
