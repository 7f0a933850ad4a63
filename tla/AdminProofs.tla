----------------------------- MODULE AdminProofs -----------------------------
(***************************************************************************)
(* Proofs about Admin.  As long as owners' edits do not overlap, the edit  *)
(* in progress is an owner's who still is one, and what it has counted     *)
(* still stands when it writes.  Before the org is there nobody has a seat *)
(* and no tier has a row; once it is, no installation holds an empty       *)
(* rulebook any more.                                                      *)
(***************************************************************************)
EXTENDS Admin, FiniteSetTheorems, TLAPS

OneEditor ==
  ~overlapped => \A c, d \in Calls : Edits(c) /\ Edits(d) => c = d

EditorRules ==
  ~overlapped => \A c \in Calls : Edits(c) => role[call[c].by] = "owner"

CountsStand ==
  \A c \in Calls :
    /\ call[c].pc = "count owners" => StepsDown(call[c])
    /\ ~overlapped /\ call[c].pc = "set role" /\ StepsDown(call[c])
         => \E m \in Owners : m # call[c].by
    /\ ~overlapped /\ call[c].pc = "delete"
         => \E t \in ActiveTiers : t # call[c].tier

Unfounded ==
  ~org => /\ seedings = 0
          /\ \A t \in Tiers : tier[t] = "none"
          /\ \A m \in Members : role[m] = "none"
          /\ \A c \in Calls : /\ ~Edits(c) /\ call[c].pc # "seed owner"
                              /\ call[c].pc = "write defaults" => call[c].empty
          /\ \A c, d \in Calls :
               call[c].pc \in InstallTx /\ call[d].pc \in InstallTx => c = d

Settled ==
  org /\ ~overlapped =>
    /\ seedings = 1
    /\ \E t \in Tiers : tier[t] # "none"
    /\ \A c \in Calls : call[c].pc = "write defaults" => ~call[c].empty

IInv ==
  /\ TypeOK /\ OneEditor /\ EditorRules /\ CountsStand /\ Unfounded /\ Settled
  /\ OwnersRemain /\ ReferencesHold

-----------------------------------------------------------------------------
EditPcs ==
  {"create", "update", "count tiers", "delete", "invite", "count owners", "set role", "remove"}

LEMMA EditingShape ==
  ASSUME NEW state \in Editing
  PROVE  /\ state \in Call /\ state.pc \in EditPcs /\ state.by \in Members
         /\ state.pc = "set role" => state.member \in Members /\ state.role \in Roles
BY DEF Editing, EditPcs, Call

(* What a handler carries, by where it is.                                   *)
LEMMA CallShape ==
  ASSUME TypeOK, NEW c \in Calls
  PROVE  /\ Edits(c) <=> call[c].pc \in EditPcs
         /\ call[c].pc \in EditPcs \cup {"create org", "read tiers", "seed owner",
                                         "write defaults", "file"} => call[c].by \in Members
         /\ call[c].pc \in {"create", "update"} => call[c].active \in BOOLEAN
         /\ call[c].pc \in {"update", "count tiers", "delete", "file"} => call[c].tier \in Tiers
         /\ call[c].pc \in {"invite", "count owners", "set role"}
              => call[c].member \in Members /\ call[c].role \in Roles
         /\ call[c].pc = "remove" => call[c].member \in Members
         /\ call[c].pc = "write defaults" => call[c].empty \in BOOLEAN
<1>1. call[c] \in Call
  BY DEF TypeOK
<1>2. CASE call[c] = Idle
  <2>1. Idle.pc = "idle" /\ Idle.pc \notin EditPcs
    BY DEF Idle, EditPcs
  <2>2. Idle \notin Editing
    BY <2>1, EditingShape
  <2> QED
    BY <1>2, <2>1, <2>2 DEF Edits
<1>3. CASE call[c] \in Editing
  BY <1>3 DEF Edits, Editing, EditPcs
<1>4. CASE call[c] \in [pc: {"create org", "read tiers", "seed owner"}, by: Members]
  BY <1>4 DEF Edits, Editing, EditPcs
<1>5. CASE call[c] \in [pc: {"write defaults"}, by: Members, empty: BOOLEAN]
  BY <1>5 DEF Edits, Editing, EditPcs
<1>6. CASE call[c] \in [pc: {"file"}, by: Members, tier: Tiers]
  BY <1>6 DEF Edits, Editing, EditPcs
<1> QED
  BY <1>1, <1>2, <1>3, <1>4, <1>5, <1>6 DEF Call

LEMMA CallStates ==
  /\ Idle \in Call
  /\ \A m \in Members :
       /\ [pc |-> "create org", by |-> m] \in Call
       /\ [pc |-> "read tiers", by |-> m] \in Call
       /\ [pc |-> "seed owner", by |-> m] \in Call
       /\ \A b \in BOOLEAN : [pc |-> "write defaults", by |-> m, empty |-> b] \in Call
       /\ \A t \in Tiers : [pc |-> "file", by |-> m, tier |-> t] \in Call
  /\ \A m \in Members, t \in Tiers : [pc |-> "delete", by |-> m, tier |-> t] \in Editing
  /\ \A m, n \in Members, r \in Roles :
       [pc |-> "set role", by |-> m, member |-> n, role |-> r] \in Editing
BY DEF Call, Editing

LEMMA BecomesOne ==
  ASSUME TypeOK, NEW c \in Calls, NEW state \in Call, Becomes(c, state)
  PROVE  /\ call'[c] = state
         /\ \A d \in Calls : d # c => call'[d] = call[d]
         /\ call' \in [Calls -> Call]
BY DEF TypeOK, Becomes

(* A handler goes on without writing and without becoming an edit.           *)
LEMMA ReadingStep ==
  ASSUME IInv, NEW c \in Calls, NEW state \in Call, StepEdit(c, state),
         state.pc \notin EditPcs
  PROVE  /\ TypeOK' /\ OneEditor' /\ EditorRules' /\ CountsStand'
         /\ OwnersRemain' /\ ReferencesHold'
         /\ \A d \in Calls : Edits(d)' => d # c /\ Edits(d)
<1>1. /\ call'[c] = state
      /\ \A d \in Calls : d # c => call'[d] = call[d]
      /\ call' \in [Calls -> Call]
  BY BecomesOne DEF IInv, StepEdit
<1>2. TypeOK'
  BY <1>1 DEF IInv, TypeOK, StepEdit
<1>3. state \notin Editing
  BY EditingShape
<1>4. \A d \in Calls : Edits(d)' => d # c /\ Edits(d)
  BY <1>1, <1>3 DEF Edits
<1>5. OneEditor'
  BY <1>4 DEF IInv, OneEditor, StepEdit
<1>6. EditorRules'
  BY <1>1, <1>4 DEF IInv, EditorRules, StepEdit
<1>7. CountsStand'
  <2>1. Owners' = Owners /\ ActiveTiers' = ActiveTiers /\ overlapped' = overlapped
    BY DEF StepEdit, Owners, ActiveTiers
  <2>2. \A d \in Calls :
          call'[d].pc \in {"count owners", "set role", "delete"} => call'[d] = call[d]
    BY <1>1 DEF EditPcs
  <2> QED
    BY <2>1, <2>2 DEF IInv, CountsStand
<1>8. OwnersRemain' /\ ReferencesHold'
  BY DEF IInv, OwnersRemain, ReferencesHold, StepEdit, Owners
<1> QED
  BY <1>2, <1>4, <1>5, <1>6, <1>7, <1>8

(* A handler that ends, or goes on outside the transactions.                 *)
LEMMA QuietStep ==
  ASSUME IInv, NEW c \in Calls, NEW state \in Call, StepEdit(c, state),
         state.pc \in {"idle", "create org", "file"}
  PROVE  IInv'
<1>1. /\ call'[c] = state
      /\ \A d \in Calls : d # c => call'[d] = call[d]
  BY BecomesOne DEF IInv, StepEdit
<1>2. state.pc \notin EditPcs
  BY DEF EditPcs
<1>3. \A d \in Calls : Edits(d)' => d # c /\ Edits(d)
  BY <1>2, ReadingStep
<1>4. Unfounded'
  BY <1>1, <1>3 DEF IInv, Unfounded, StepEdit, InstallTx
<1>5. Settled'
  BY <1>1 DEF IInv, Settled, StepEdit
<1> QED
  BY <1>2, <1>4, <1>5, ReadingStep DEF IInv

LEMMA StopStep ==
  ASSUME IInv, NEW c \in Calls, StepEdit(c, Idle)
  PROVE  IInv'
BY CallStates, QuietStep DEF Idle

-----------------------------------------------------------------------------
(* The installation.                                                         *)

LEMMA CreateOrgStep ==
  ASSUME IInv, NEW c \in Calls, CreateOrg(c)
  PROVE  IInv'
<1> DEFINE state == [pc |-> "read tiers", by |-> call[c].by]
<1>1. state \in Call /\ state.pc \notin EditPcs
  BY CallShape, CallStates DEF CreateOrg, IInv, EditPcs
<1>2. StepEdit(c, state)
  BY DEF CreateOrg, StepEdit
<1>3. call'[c].pc = "read tiers" /\ \A d \in Calls : d # c => call'[d] = call[d]
  <2>1. call'[c] = state /\ \A d \in Calls : d # c => call'[d] = call[d]
    BY <1>1, <1>2, BecomesOne DEF IInv, StepEdit
  <2>2. state.pc = "read tiers"
    OBVIOUS
  <2> HIDE DEF state
  <2> QED
    BY <2>1, <2>2
<1> HIDE DEF state
<1>4. \A d \in Calls : Edits(d)' => d # c /\ Edits(d)
  BY <1>1, <1>2, ReadingStep
<1>5. Unfounded'
  <2>1. \A d \in Calls : ~org /\ d # c => call'[d].pc \notin InstallTx
    BY <1>3 DEF CreateOrg
  <2> QED
    BY <1>2, <1>3, <1>4, <2>1 DEF IInv, Unfounded, StepEdit
<1>6. Settled'
  BY <1>2, <1>3 DEF IInv, Settled, StepEdit
<1> QED
  BY <1>1, <1>2, <1>5, <1>6, ReadingStep DEF IInv

LEMMA ReadTiersStep ==
  ASSUME IInv, NEW c \in Calls, ReadTiers(c)
  PROVE  IInv'
<1> DEFINE state == [pc |-> "write defaults", by |-> call[c].by,
                     empty |-> \A t \in Tiers : tier[t] = "none"]
<1>1. state \in Call /\ state.pc \notin EditPcs
  BY CallShape, CallStates DEF ReadTiers, IInv, EditPcs
<1>2. StepEdit(c, state)
  BY DEF ReadTiers, StepEdit
<1>3. /\ call'[c].pc = "write defaults"
      /\ call'[c].empty <=> \A t \in Tiers : tier[t] = "none"
      /\ \A d \in Calls : d # c => call'[d] = call[d]
  <2>1. call'[c] = state /\ \A d \in Calls : d # c => call'[d] = call[d]
    BY <1>1, <1>2, BecomesOne DEF IInv, StepEdit
  <2>2. /\ state.pc = "write defaults"
        /\ state.empty <=> \A t \in Tiers : tier[t] = "none"
    OBVIOUS
  <2> HIDE DEF state
  <2> QED
    BY <2>1, <2>2
<1> HIDE DEF state
<1>4. \A d \in Calls : Edits(d)' => d # c /\ Edits(d)
  BY <1>1, <1>2, ReadingStep
<1>5. \A d \in Calls : call'[d].pc \in InstallTx => call[d].pc \in InstallTx
  BY <1>3 DEF ReadTiers, InstallTx
<1>6. Unfounded'
  BY <1>2, <1>3, <1>4, <1>5 DEF IInv, Unfounded, StepEdit
<1>7. Settled'
  BY <1>2, <1>3 DEF IInv, Settled, StepEdit
<1> QED
  BY <1>1, <1>2, <1>6, <1>7, ReadingStep DEF IInv

LEMMA WriteDefaultsStep ==
  ASSUME IInv, NEW c \in Calls, WriteDefaults(c)
  PROVE  IInv'
<1> DEFINE state == [pc |-> "seed owner", by |-> call[c].by]
<1>1. state \in Call /\ state.pc \notin EditPcs /\ state \notin Editing
  BY CallShape, CallStates, EditingShape DEF WriteDefaults, IInv, EditPcs
<1>2. /\ call'[c] = state /\ call'[c].pc = "seed owner"
      /\ \A d \in Calls : d # c => call'[d] = call[d]
      /\ call' \in [Calls -> Call]
  <2>1. Becomes(c, state)
    BY DEF WriteDefaults
  <2>2. state.pc = "seed owner"
    OBVIOUS
  <2> HIDE DEF state
  <2> QED
    BY <1>1, <2>1, <2>2, BecomesOne DEF IInv
<1> HIDE DEF state
<1>3. call[c].empty \in BOOLEAN
  BY CallShape DEF WriteDefaults, IInv
<1>4. /\ tier' \in [Tiers -> {"none", "active", "inactive"}]
      /\ \A t \in Tiers : /\ tier[t] # "none" => tier'[t] # "none"
                          /\ tier[t] = "active" => tier'[t] = "active"
      /\ call[c].empty => \E t \in Tiers : tier'[t] # "none"
  BY DefaultsAssumption DEF WriteDefaults, IInv, TypeOK
<1>5. TypeOK'
  <2>1. seedings' \in {seedings, 1, 2} /\ seedings \in 0..2
    BY DEF WriteDefaults, IInv, TypeOK
  <2>2. role' = role /\ invoice' = invoice /\ org' = TRUE
        /\ overlapped' = overlapped /\ founded' = founded
    BY DEF WriteDefaults
  <2>3. seedings' \in 0..2
    BY <2>1
  <2> QED
    BY <1>2, <1>4, <2>2, <2>3 DEF IInv, TypeOK
<1>6. \A d \in Calls : Edits(d)' => d # c /\ Edits(d)
  BY <1>1, <1>2 DEF Edits
<1>7. OneEditor'
  BY <1>6 DEF IInv, OneEditor, WriteDefaults
<1>8. EditorRules'
  BY <1>2, <1>6 DEF IInv, EditorRules, WriteDefaults
<1>9. CountsStand'
  <2>1. Owners' = Owners /\ ActiveTiers \subseteq ActiveTiers' /\ overlapped' = overlapped
    BY <1>4 DEF WriteDefaults, Owners, ActiveTiers
  <2>2. \A d \in Calls :
          call'[d].pc \in {"count owners", "set role", "delete"} => call'[d] = call[d]
    BY <1>2
  <2> QED
    BY <2>1, <2>2 DEF IInv, CountsStand
<1>10. Unfounded'
  BY DEF Unfounded, WriteDefaults
<1>11. Settled'
  <2>1. CASE org
    BY <1>2, <1>4, <2>1 DEF IInv, Settled, WriteDefaults
  <2>2. CASE ~org
    <3>1. call[c].empty /\ seedings = 0
      BY <2>2 DEF IInv, Unfounded, WriteDefaults
    <3>2. \A d \in Calls : call'[d].pc # "write defaults"
      BY <1>2, <2>2 DEF IInv, Unfounded, WriteDefaults, InstallTx
    <3> QED
      BY <1>4, <3>1, <3>2 DEF Settled, WriteDefaults
  <2> QED
    BY <2>1, <2>2 DEF IInv, TypeOK
<1>12. OwnersRemain' /\ ReferencesHold'
  BY <1>4 DEF IInv, TypeOK, OwnersRemain, ReferencesHold, WriteDefaults, Owners
<1> QED
  BY <1>5, <1>7, <1>8, <1>9, <1>10, <1>11, <1>12 DEF IInv

LEMMA SeedOwnerStep ==
  ASSUME IInv, NEW c \in Calls, SeedOwner(c)
  PROVE  IInv'
<1>1. Idle \in Call /\ Idle.pc = "idle" /\ Idle.pc \notin EditPcs /\ Idle \notin Editing
  BY CallStates, EditingShape DEF Idle, EditPcs
<1>2. /\ call'[c] = Idle
      /\ \A d \in Calls : d # c => call'[d] = call[d]
      /\ call' \in [Calls -> Call]
  BY <1>1, BecomesOne DEF SeedOwner, IInv
<1>3. call[c].by \in Members /\ org
  BY CallShape DEF SeedOwner, IInv, Unfounded, TypeOK
<1>4. /\ role' \in [Members -> Roles \cup {"none"}]
      /\ \A m \in Members : role[m] # "none" => role'[m] = role[m]
      /\ founded' \in BOOLEAN
      /\ founded' => founded \/ role'[call[c].by] = "owner"
  BY <1>3, OwnerAssumption DEF SeedOwner, IInv, TypeOK
<1>5. Owners \subseteq Owners' /\ ActiveTiers' = ActiveTiers
  BY <1>4, OwnerAssumption DEF Owners, ActiveTiers, SeedOwner
<1>6. TypeOK'
  BY <1>2, <1>4 DEF SeedOwner, IInv, TypeOK
<1>7. \A d \in Calls : Edits(d)' => d # c /\ Edits(d)
  BY <1>1, <1>2 DEF Edits
<1>8. OneEditor'
  BY <1>7 DEF IInv, OneEditor, SeedOwner
<1>9. EditorRules'
  <2>1. SUFFICES ASSUME ~overlapped', NEW d \in Calls, Edits(d)'
                 PROVE  role'[call'[d].by] = "owner"
    BY DEF EditorRules
  <2>2. role[call[d].by] = "owner" /\ call[d].by \in Members
    BY <1>7, <2>1, CallShape DEF IInv, EditorRules, SeedOwner
  <2> QED
    BY <1>2, <1>4, <1>7, <2>1, <2>2, OwnerAssumption
<1>10. CountsStand'
  <2>1. \A d \in Calls :
          call'[d].pc \in {"count owners", "set role", "delete"} => call'[d] = call[d]
    BY <1>1, <1>2
  <2> QED
    BY <1>5, <2>1 DEF IInv, CountsStand, SeedOwner
<1>11. Unfounded'
  BY <1>3 DEF Unfounded, SeedOwner
<1>12. Settled'
  BY <1>1, <1>2 DEF IInv, Settled, SeedOwner
<1>13. OwnersRemain'
  BY <1>3, <1>4, <1>5 DEF IInv, OwnersRemain, SeedOwner, Owners
<1>14. ReferencesHold'
  <2>1. \A i \in Invoices : invoice[i] # Unfiled => invoice[i].by \in Members
    BY DEF IInv, TypeOK
  <2> QED
    BY <1>4, <2>1 DEF IInv, ReferencesHold, SeedOwner
<1> QED
  BY <1>6, <1>8, <1>9, <1>10, <1>11, <1>12, <1>13, <1>14 DEF IInv

-----------------------------------------------------------------------------
(* The edits.                                                                *)

(* Whoever edits, the org is there.                                          *)
LEMMA EditsNeedAnOrg ==
  ASSUME IInv, NEW c \in Calls, Edits(c)
  PROVE  org
BY DEF IInv, Unfounded

LEMMA StartEditStep ==
  ASSUME IInv, NEW c \in Calls, NEW state \in FirstStates, StartEdit(c, state)
  PROVE  IInv'
<1>1. /\ state \in Editing /\ state \in Call /\ state.pc \in EditPcs /\ state.by \in Members
      /\ state.pc # "delete"
      /\ state.pc = "count owners" => StepsDown(state)
      /\ state.pc = "set role" => ~StepsDown(state)
  BY EditingShape DEF FirstStates
<1>2. /\ call'[c] = state
      /\ \A d \in Calls : d # c => call'[d] = call[d]
      /\ call' \in [Calls -> Call]
  BY <1>1, BecomesOne DEF StartEdit, IInv
<1>3. TypeOK'
  BY <1>2 DEF StartEdit, IInv, TypeOK
<1>4. ~overlapped' => ~overlapped /\ \A d \in Calls : Edits(d)' => d = c
  BY <1>2 DEF StartEdit, Edits
<1>5. OneEditor'
  BY <1>4 DEF OneEditor
<1>6. EditorRules'
  BY <1>2, <1>4 DEF EditorRules, StartEdit
<1>7. CountsStand'
  <2>1. Owners' = Owners /\ ActiveTiers' = ActiveTiers
    BY DEF StartEdit, Owners, ActiveTiers
  <2>2. SUFFICES ASSUME NEW d \in Calls
                 PROVE  /\ call'[d].pc = "count owners" => StepsDown(call'[d])
                        /\ ~overlapped' /\ call'[d].pc = "set role" /\ StepsDown(call'[d])
                             => \E m \in Owners' : m # call'[d].by
                        /\ ~overlapped' /\ call'[d].pc = "delete"
                             => \E t \in ActiveTiers' : t # call'[d].tier
    BY DEF CountsStand
  <2>3. CASE d = c
    BY <1>1, <1>2, <2>3
  <2>4. CASE d # c
    BY <1>2, <1>4, <2>1, <2>4 DEF IInv, CountsStand
  <2> QED
    BY <2>3, <2>4
<1>8. org
  BY <1>1, OwnerAssumption DEF StartEdit, IInv, Unfounded
<1>9. Unfounded'
  BY <1>8 DEF Unfounded, StartEdit
<1>10. Settled'
  BY <1>1, <1>2, <1>4 DEF IInv, Settled, StartEdit, EditPcs
<1>11. OwnersRemain' /\ ReferencesHold'
  BY <1>4 DEF IInv, OwnersRemain, ReferencesHold, StartEdit, Owners
<1> QED
  BY <1>3, <1>5, <1>6, <1>7, <1>9, <1>10, <1>11 DEF IInv

(* An edit goes on from its count to its write.                              *)
LEMMA CountStep ==
  ASSUME IInv, NEW c \in Calls, Edits(c), NEW state \in Editing, StepEdit(c, state),
         state.by = call[c].by,
         state.pc # "count owners",
         state.pc = "set role" => \E m \in Owners : m # state.by,
         state.pc = "delete" => \E t \in ActiveTiers : t # state.tier
  PROVE  IInv'
<1>1. state \in Call /\ state.pc \in EditPcs
  BY EditingShape
<1>2. /\ call'[c] = state
      /\ \A d \in Calls : d # c => call'[d] = call[d]
      /\ call' \in [Calls -> Call]
  BY <1>1, BecomesOne DEF StepEdit, IInv
<1>3. TypeOK'
  BY <1>2 DEF StepEdit, IInv, TypeOK
<1>4. \A d \in Calls : Edits(d)' => Edits(d) /\ call'[d].by = call[d].by
  BY <1>2 DEF Edits
<1>5. OneEditor' /\ EditorRules'
  BY <1>4 DEF IInv, OneEditor, EditorRules, StepEdit
<1>6. CountsStand'
  <2>1. Owners' = Owners /\ ActiveTiers' = ActiveTiers /\ overlapped' = overlapped
    BY DEF StepEdit, Owners, ActiveTiers
  <2> QED
    BY <1>2, <2>1 DEF IInv, CountsStand
<1>7. Unfounded'
  BY EditsNeedAnOrg DEF Unfounded, StepEdit
<1>8. Settled' /\ OwnersRemain' /\ ReferencesHold'
  BY <1>1, <1>2 DEF IInv, Settled, OwnersRemain, ReferencesHold, StepEdit, Owners, EditPcs
<1> QED
  BY <1>3, <1>5, <1>6, <1>7, <1>8 DEF IInv

(* What is left of the handlers after an edit has ended: none that edits,    *)
(* unless edits overlapped.                                                  *)
LEMMA EditEnds ==
  ASSUME IInv, NEW c \in Calls, Edits(c), Becomes(c, Idle), overlapped' = overlapped
  PROVE  /\ call' \in [Calls -> Call]
         /\ call'[c].pc = "idle"
         /\ \A d \in Calls : d # c => call'[d] = call[d]
         /\ \A d \in Calls : Edits(d)' => d # c /\ Edits(d)
         /\ ~overlapped' => \A d \in Calls : ~Edits(d)'
<1>1. Idle \in Call /\ Idle.pc = "idle" /\ Idle \notin Editing
  BY CallStates, EditingShape DEF Idle, EditPcs
<1>2. /\ call'[c] = Idle
      /\ \A d \in Calls : d # c => call'[d] = call[d]
      /\ call' \in [Calls -> Call]
  BY <1>1, BecomesOne DEF IInv
<1>3. \A d \in Calls : Edits(d)' => d # c /\ Edits(d)
  BY <1>1, <1>2 DEF Edits
<1>4. ~overlapped' => \A d \in Calls : ~Edits(d)'
  BY <1>3 DEF IInv, OneEditor
<1> QED
  BY <1>1, <1>2, <1>3, <1>4

(* The counts that other handlers rely on are moot when a single edit ends.  *)
LEMMA EditorsAfter ==
  ASSUME IInv, NEW c \in Calls, Edits(c), Becomes(c, Idle), overlapped' = overlapped
  PROVE  OneEditor' /\ EditorRules' /\ CountsStand'
<1>1. /\ call' \in [Calls -> Call]
      /\ call'[c].pc = "idle"
      /\ \A d \in Calls : d # c => call'[d] = call[d]
      /\ ~overlapped' => \A d \in Calls : ~Edits(d)'
  BY EditEnds
<1>2. OneEditor' /\ EditorRules'
  BY <1>1 DEF OneEditor, EditorRules
<1>3. \A d \in Calls : call'[d].pc = "count owners" => StepsDown(call'[d])
  BY <1>1 DEF IInv, CountsStand
<1>4. ~overlapped' => \A d \in Calls : call'[d].pc \notin {"set role", "delete"}
  <2>1. \A d \in Calls : call[d].pc \in {"set role", "delete"} => Edits(d)
    BY CallShape DEF IInv, EditPcs
  <2>2. \A d \in Calls : d # c => (Edits(d)' <=> Edits(d))
    BY <1>1 DEF Edits
  <2> QED
    BY <1>1, <2>1, <2>2
<1> QED
  BY <1>2, <1>3, <1>4 DEF CountsStand

LEMMA WriteTierStep ==
  ASSUME IInv, NEW c \in Calls, Edits(c), NEW t \in Tiers,
         NEW value \in {"none", "active", "inactive"}, WriteTier(c, t, value),
         ~overlapped => \E u \in Tiers : tier'[u] # "none",
         value = "none" => ~TierInUse(t)
  PROVE  IInv'
<1>1. Becomes(c, Idle) /\ overlapped' = overlapped
  BY DEF WriteTier
<1>2. /\ call' \in [Calls -> Call]
      /\ call'[c].pc = "idle"
      /\ \A d \in Calls : d # c => call'[d] = call[d]
  BY <1>1, EditEnds
<1>3. tier' \in [Tiers -> {"none", "active", "inactive"}]
  BY DEF WriteTier, IInv, TypeOK
<1>4. TypeOK'
  BY <1>2, <1>3 DEF WriteTier, IInv, TypeOK
<1>5. OneEditor' /\ EditorRules' /\ CountsStand'
  BY <1>1, EditorsAfter
<1>6. Unfounded'
  BY EditsNeedAnOrg DEF Unfounded, WriteTier
<1>7. Settled'
  BY <1>2 DEF IInv, Settled, WriteTier
<1>8. OwnersRemain'
  BY DEF IInv, OwnersRemain, WriteTier, Owners
<1>9. ReferencesHold'
  <2>1. \A i \in Invoices : invoice[i] # Unfiled => invoice[i].tier \in Tiers
    BY DEF IInv, TypeOK
  <2>2. \A u \in Tiers : tier[u] # "none" /\ tier'[u] = "none" => ~TierInUse(u)
    BY DEF WriteTier, IInv, TypeOK
  <2> QED
    BY <2>1, <2>2 DEF IInv, ReferencesHold, WriteTier, TierInUse
<1> QED
  BY <1>4, <1>5, <1>6, <1>7, <1>8, <1>9 DEF IInv

LEMMA WriteRoleStep ==
  ASSUME IInv, NEW c \in Calls, Edits(c), NEW m \in Members,
         NEW value \in Roles \cup {"none"}, WriteRole(c, m, value),
         ~overlapped => \E n \in Members : role'[n] = "owner",
         value = "none" => ~HasFiled(m)
  PROVE  IInv'
<1>1. Becomes(c, Idle) /\ overlapped' = overlapped
  BY DEF WriteRole
<1>2. /\ call' \in [Calls -> Call]
      /\ call'[c].pc = "idle"
      /\ \A d \in Calls : d # c => call'[d] = call[d]
  BY <1>1, EditEnds
<1>3. role' \in [Members -> Roles \cup {"none"}]
  BY DEF WriteRole, IInv, TypeOK
<1>4. TypeOK'
  BY <1>2, <1>3 DEF WriteRole, IInv, TypeOK
<1>5. OneEditor' /\ EditorRules' /\ CountsStand'
  BY <1>1, EditorsAfter
<1>6. Unfounded'
  BY EditsNeedAnOrg DEF Unfounded, WriteRole
<1>7. Settled'
  BY <1>2 DEF IInv, Settled, WriteRole
<1>8. OwnersRemain'
  BY DEF OwnersRemain, WriteRole, Owners
<1>9. ReferencesHold'
  <2>1. \A i \in Invoices : invoice[i] # Unfiled => invoice[i].by \in Members
    BY DEF IInv, TypeOK
  <2>2. \A n \in Members : role[n] # "none" /\ role'[n] = "none" => ~HasFiled(n)
    BY DEF WriteRole, IInv, TypeOK
  <2> QED
    BY <2>1, <2>2 DEF IInv, ReferencesHold, WriteRole, HasFiled
<1> QED
  BY <1>4, <1>5, <1>6, <1>7, <1>8, <1>9 DEF IInv

LEMMA SwitchValues == \A b : Switch(b) \in {"active", "inactive"}
BY DEF Switch

LEMMA CreatePolicyStep ==
  ASSUME IInv, NEW c \in Calls, CreatePolicy(c)
  PROVE  IInv'
<1>1. PICK t \in Tiers : tier[t] = "none" /\ WriteTier(c, t, Switch(call[c].active))
  BY DEF CreatePolicy
<1>2. Edits(c)
  BY CallShape DEF CreatePolicy, IInv, EditPcs
<1>3. tier'[t] # "none"
  BY <1>1, SwitchValues DEF WriteTier, IInv, TypeOK
<1> QED
  BY <1>1, <1>2, <1>3, SwitchValues, WriteTierStep

LEMMA UpdatePolicyStep ==
  ASSUME IInv, NEW c \in Calls, UpdatePolicy(c)
  PROVE  IInv'
<1>1. Edits(c) /\ call[c].tier \in Tiers
  BY CallShape DEF UpdatePolicy, IInv, EditPcs
<1>2. CASE WriteTier(c, call[c].tier, Switch(call[c].active))
  <2>1. tier'[call[c].tier] # "none"
    BY <1>1, <1>2, SwitchValues DEF WriteTier, IInv, TypeOK
  <2> QED
    BY <1>1, <1>2, <2>1, SwitchValues, WriteTierStep
<1>3. CASE StepEdit(c, Idle)
  BY <1>3, StopStep
<1> QED
  BY <1>2, <1>3 DEF UpdatePolicy

LEMMA CountTiersStep ==
  ASSUME IInv, NEW c \in Calls, CountTiers(c)
  PROVE  IInv'
<1> DEFINE state == [pc |-> "delete", by |-> call[c].by, tier |-> call[c].tier]
<1>1. Edits(c) /\ call[c].by \in Members /\ call[c].tier \in Tiers
  BY CallShape DEF CountTiers, IInv, EditPcs
<1>2. /\ state \in Editing /\ state.pc = "delete"
      /\ state.by = call[c].by /\ state.tier = call[c].tier
  BY <1>1, CallStates
<1>3. CASE StepEdit(c, Idle)
  BY <1>3, StopStep
<1>4. CASE ActiveTiers \ {call[c].tier} # {} /\ StepEdit(c, state)
  <2> HIDE DEF state
  <2>1. \E t \in ActiveTiers : t # state.tier
    BY <1>2, <1>4
  <2> QED
    BY <1>1, <1>2, <1>4, <2>1, CountStep
<1> QED
  BY <1>3, <1>4 DEF CountTiers

LEMMA DeletePolicyStep ==
  ASSUME IInv, NEW c \in Calls, DeletePolicy(c)
  PROVE  IInv'
<1>1. Edits(c) /\ call[c].tier \in Tiers
  BY CallShape DEF DeletePolicy, IInv, EditPcs
<1>2. CASE TierInUse(call[c].tier)
  BY <1>2, StopStep DEF DeletePolicy
<1>3. CASE ~TierInUse(call[c].tier)
  <2>1. WriteTier(c, call[c].tier, "none")
    BY <1>3 DEF DeletePolicy
  <2>2. ~overlapped => \E u \in Tiers : tier'[u] # "none"
    BY <2>1 DEF DeletePolicy, WriteTier, IInv, CountsStand, ActiveTiers, TypeOK
  <2> QED
    BY <1>1, <1>3, <2>1, <2>2, WriteTierStep
<1> QED
  BY <1>2, <1>3

(* Whoever edits is an owner, and somebody else's seat is not theirs.        *)
LEMMA EditorStays ==
  ASSUME IInv, NEW c \in Calls, Edits(c), NEW m \in Members, m # call[c].by,
         NEW value, WriteRole(c, m, value), ~overlapped
  PROVE  \E n \in Members : role'[n] = "owner"
<1>1. call[c].by \in Members
  BY CallShape DEF IInv
<1>2. role[call[c].by] = "owner"
  BY DEF IInv, EditorRules
<1> QED
  BY <1>1, <1>2 DEF WriteRole, IInv, TypeOK

LEMMA InviteMemberStep ==
  ASSUME IInv, NEW c \in Calls, InviteMember(c)
  PROVE  IInv'
<1>1. Edits(c) /\ call[c].member \in Members /\ call[c].role \in Roles
  BY CallShape DEF InviteMember, IInv, EditPcs
<1>2. CASE role[call[c].member] = "none"
  <2>1. WriteRole(c, call[c].member, call[c].role)
    BY <1>2 DEF InviteMember
  <2>2. ~overlapped => call[c].member # call[c].by
    BY <1>1, <1>2, OwnerAssumption DEF IInv, EditorRules
  <2>3. ~overlapped => \E n \in Members : role'[n] = "owner"
    BY <1>1, <2>1, <2>2, EditorStays
  <2> QED
    BY <1>1, <2>1, <2>3, OwnerAssumption, WriteRoleStep
<1>3. CASE role[call[c].member] # "none"
  BY <1>3, StopStep DEF InviteMember
<1> QED
  BY <1>2, <1>3

LEMMA CountOwnersStep ==
  ASSUME IInv, NEW c \in Calls, CountOwners(c)
  PROVE  IInv'
<1>1. /\ Edits(c) /\ call[c].by \in Members
      /\ call[c].member \in Members /\ call[c].role \in Roles
  BY CallShape DEF CountOwners, IInv, EditPcs
<1>2. /\ Counted(c) \in Editing /\ Counted(c).pc = "set role"
      /\ Counted(c).by = call[c].by
  BY <1>1, CallStates DEF Counted
<1>3. CASE StepEdit(c, Idle)
  BY <1>3, StopStep
<1>4. CASE ~(Cardinality(Owners) <= 1) /\ StepEdit(c, Counted(c))
  <2>1. SUFFICES \E m \in Owners : m # call[c].by
    BY <1>1, <1>2, <1>4, CountStep
  <2>2. SUFFICES ASSUME \A m \in Owners : m = call[c].by
                 PROVE  Cardinality(Owners) <= 1
    BY <1>4
  <2>3. Owners \subseteq {call[c].by}
    BY <2>2
  <2>4. IsFiniteSet({call[c].by}) /\ Cardinality({call[c].by}) = 1
    BY FS_Singleton
  <2> QED
    BY <2>3, <2>4, FS_Subset
<1> QED
  BY <1>3, <1>4 DEF CountOwners

LEMMA SetRoleStep ==
  ASSUME IInv, NEW c \in Calls, SetRole(c)
  PROVE  IInv'
<1>1. Edits(c) /\ call[c].member \in Members /\ call[c].role \in Roles /\ call[c].by \in Members
  BY CallShape DEF SetRole, IInv, EditPcs
<1>2. CASE WriteRole(c, call[c].member, call[c].role)
  <2>1. SUFFICES ASSUME ~overlapped
                 PROVE  \E n \in Members : role'[n] = "owner"
    BY <1>1, <1>2, OwnerAssumption, WriteRoleStep
  <2>2. CASE call[c].member # call[c].by
    BY <1>1, <1>2, <2>1, <2>2, EditorStays
  <2>3. CASE call[c].role = "owner"
    BY <1>1, <1>2, <2>3 DEF WriteRole, IInv, TypeOK
  <2>4. CASE StepsDown(call[c])
    <3>1. PICK n \in Owners : n # call[c].by
      BY <2>1, <2>4 DEF SetRole, IInv, CountsStand
    <3> QED
      BY <1>1, <1>2, <2>4, <3>1 DEF WriteRole, StepsDown, Owners, IInv, TypeOK
  <2> QED
    BY <2>2, <2>3, <2>4 DEF StepsDown
<1>3. CASE StepEdit(c, Idle)
  BY <1>3, StopStep
<1> QED
  BY <1>2, <1>3 DEF SetRole

LEMMA RemoveMemberStep ==
  ASSUME IInv, NEW c \in Calls, RemoveMember(c)
  PROVE  IInv'
<1>1. Edits(c) /\ call[c].member \in Members
  BY CallShape DEF RemoveMember, IInv, EditPcs
<1>2. CASE call[c].member # call[c].by /\ ~HasFiled(call[c].member)
  <2>1. WriteRole(c, call[c].member, "none")
    BY <1>2 DEF RemoveMember
  <2>2. ~overlapped => \E n \in Members : role'[n] = "owner"
    BY <1>1, <1>2, <2>1, EditorStays
  <2> QED
    BY <1>1, <1>2, <2>1, <2>2, WriteRoleStep
<1>3. CASE StepEdit(c, Idle)
  BY <1>3, StopStep
<1> QED
  BY <1>2, <1>3 DEF RemoveMember

-----------------------------------------------------------------------------
(* Invoices, and all of it together.                                         *)

LEMMA CreateInvoiceStep ==
  ASSUME IInv, NEW c \in Calls, CreateInvoice(c)
  PROVE  IInv'
<1>1. call[c].by \in Members /\ call[c].tier \in Tiers
  BY CallShape DEF CreateInvoice, IInv
<1>2. PICK i \in Invoices :
        invoice' = [invoice EXCEPT ![i] = [by |-> call[c].by, tier |-> call[c].tier]]
  BY DEF CreateInvoice
<1>3. Idle \in Call /\ Idle.pc = "idle" /\ Idle \notin Editing
  BY CallStates, EditingShape DEF Idle, EditPcs
<1>4. /\ call'[c] = Idle
      /\ \A d \in Calls : d # c => call'[d] = call[d]
      /\ call' \in [Calls -> Call]
  BY <1>3, BecomesOne DEF CreateInvoice, IInv
<1>5. invoice' \in [Invoices -> {Unfiled} \cup [by: Members, tier: Tiers]]
  BY <1>1, <1>2 DEF IInv, TypeOK
<1>6. TypeOK'
  BY <1>4, <1>5 DEF CreateInvoice, IInv, TypeOK
<1>7. \A d \in Calls : Edits(d)' => d # c /\ Edits(d)
  BY <1>3, <1>4 DEF Edits
<1>8. OneEditor' /\ EditorRules'
  BY <1>4, <1>7 DEF IInv, OneEditor, EditorRules, CreateInvoice
<1>9. CountsStand'
  <2>1. Owners' = Owners /\ ActiveTiers' = ActiveTiers /\ overlapped' = overlapped
    BY DEF CreateInvoice, Owners, ActiveTiers
  <2>2. \A d \in Calls :
          call'[d].pc \in {"count owners", "set role", "delete"} => call'[d] = call[d]
    BY <1>3, <1>4
  <2> QED
    BY <2>1, <2>2 DEF IInv, CountsStand
<1>10. Unfounded'
  BY <1>1 DEF IInv, Unfounded, CreateInvoice
<1>11. Settled'
  BY <1>3, <1>4 DEF IInv, Settled, CreateInvoice
<1>12. OwnersRemain'
  BY DEF IInv, OwnersRemain, CreateInvoice, Owners
<1>13. ReferencesHold'
  <2>1. SUFFICES ASSUME NEW j \in Invoices, invoice'[j] # Unfiled
                 PROVE  role[invoice'[j].by] # "none" /\ tier[invoice'[j].tier] # "none"
    BY DEF ReferencesHold, CreateInvoice
  <2>2. CASE j = i
    BY <1>2, <2>2 DEF CreateInvoice, IInv, TypeOK
  <2>3. CASE j # i
    BY <1>2, <2>1, <2>3 DEF IInv, TypeOK, ReferencesHold
  <2> QED
    BY <2>2, <2>3
<1> QED
  BY <1>6, <1>8, <1>9, <1>10, <1>11, <1>12, <1>13 DEF IInv

LEMMA InitInvariant == Init => IInv
<1> SUFFICES ASSUME Init PROVE IInv
  OBVIOUS
<1>1. Idle \in Call /\ Idle.pc = "idle" /\ Idle \notin Editing
  BY CallStates, EditingShape DEF Idle, EditPcs
<1>2. TypeOK
  <2>1. seedings \in 0..2
    BY DEF Init
  <2>2. call \in [Calls -> Call]
    BY <1>1 DEF Init
  <2> QED
    BY <2>1, <2>2 DEF Init, TypeOK
<1>3. \A c \in Calls : ~Edits(c) /\ call[c].pc = "idle"
  BY <1>1 DEF Init, Edits
<1>4. OneEditor /\ EditorRules /\ CountsStand
  BY <1>3 DEF OneEditor, EditorRules, CountsStand
<1>5. Unfounded /\ Settled
  BY <1>3 DEF Init, Unfounded, Settled, InstallTx
<1>6. OwnersRemain /\ ReferencesHold
  BY DEF Init, OwnersRemain, ReferencesHold
<1> QED
  BY <1>2, <1>4, <1>5, <1>6 DEF IInv

LEMMA InstallStep ==
  ASSUME IInv, NEW c \in Calls, NEW m \in Members, Install(c, m)
  PROVE  IInv'
<1> DEFINE state == [pc |-> "create org", by |-> m]
<1>1. state \in Call /\ state.pc = "create org"
  BY CallStates
<1>2. StepEdit(c, state)
  BY DEF Install, StepEdit
<1> QED
  BY <1>1, <1>2, QuietStep

LEMMA RouteInvoiceStep ==
  ASSUME IInv, NEW c \in Calls, NEW m \in Members, RouteInvoice(c, m)
  PROVE  IInv'
<1>1. PICK t \in Tiers : StepEdit(c, [pc |-> "file", by |-> m, tier |-> t])
  BY DEF RouteInvoice, ActiveTiers
<1>2. [pc |-> "file", by |-> m, tier |-> t] \in Call
  BY CallStates
<1> QED
  BY <1>1, <1>2, QuietStep

LEMMA NextInvariant == IInv /\ [Next]_vars => IInv'
<1> SUFFICES ASSUME IInv, [Next]_vars PROVE IInv'
  OBVIOUS
<1>1. CASE UNCHANGED vars
  BY <1>1 DEF vars, IInv, TypeOK, OneEditor, EditorRules, CountsStand, Unfounded, Settled,
              OwnersRemain, ReferencesHold, Edits, Owners, ActiveTiers
<1>2. CASE Next
  <2>1. PICK c \in Calls :
          \/ \E m \in Members : Install(c, m) \/ RouteInvoice(c, m)
          \/ CreateOrg(c) \/ ReadTiers(c) \/ WriteDefaults(c) \/ SeedOwner(c)
          \/ \E state \in FirstStates : StartEdit(c, state)
          \/ CreatePolicy(c) \/ UpdatePolicy(c) \/ CountTiers(c) \/ DeletePolicy(c)
          \/ InviteMember(c) \/ CountOwners(c) \/ SetRole(c)
          \/ RemoveMember(c)
          \/ CreateInvoice(c)
          \/ CallFails(c)
    BY <1>2 DEF Next
  <2>2. CASE \E m \in Members : Install(c, m) \/ RouteInvoice(c, m)
    BY <2>2, InstallStep, RouteInvoiceStep
  <2>3. CASE CreateOrg(c) \/ ReadTiers(c) \/ WriteDefaults(c) \/ SeedOwner(c)
    BY <2>3, CreateOrgStep, ReadTiersStep, WriteDefaultsStep, SeedOwnerStep
  <2>4. CASE \E state \in FirstStates : StartEdit(c, state)
    BY <2>4, StartEditStep
  <2>5. CASE CreatePolicy(c) \/ UpdatePolicy(c) \/ CountTiers(c) \/ DeletePolicy(c)
    BY <2>5, CreatePolicyStep, UpdatePolicyStep, CountTiersStep, DeletePolicyStep
  <2>6. CASE InviteMember(c) \/ CountOwners(c) \/ SetRole(c) \/ RemoveMember(c)
    BY <2>6, InviteMemberStep, CountOwnersStep, SetRoleStep, RemoveMemberStep
  <2>7. CASE CreateInvoice(c)
    BY <2>7, CreateInvoiceStep
  <2>8. CASE CallFails(c)
    BY <2>8, StopStep DEF CallFails
  <2> QED
    BY <2>1, <2>2, <2>3, <2>4, <2>5, <2>6, <2>7, <2>8
<1> QED
  BY <1>1, <1>2

(* IInv holds in every reachable state.                                      *)
THEOREM Invariance == Spec => []IInv
BY InitInvariant, NextInvariant, PTL DEF Spec

(* Handlers, seats, tiers and invoices stay what they are declared to be.    *)
THEOREM TypeCorrect == Spec => []TypeOK
<1>1. IInv => TypeOK
  BY DEF IInv
<1> QED
  BY <1>1, Invariance, PTL

(* With one owner's edit at a time, an org that had an owner never runs out  *)
(* of owners, however many members it has.                                   *)
THEOREM OwnersNeverRunOut == Spec => []OwnersRemain
<1>1. IInv => OwnersRemain
  BY DEF IInv
<1> QED
  BY <1>1, Invariance, PTL

(* However many installations run, the default tiers are written once.       *)
THEOREM DefaultsAreWrittenOnce == Spec => []DefaultsOnce
<1>1. IInv => DefaultsOnce
  <2>1. IInv /\ ~overlapped => seedings = 0 \/ seedings = 1
    BY DEF IInv, Unfounded, Settled, TypeOK
  <2> QED
    BY <2>1 DEF DefaultsOnce
<1> QED
  BY <1>1, Invariance, PTL

(* No edit takes an invoice's submitter or tier away.                        *)
THEOREM InvoicesKeepTheirReferences == Spec => []ReferencesHold
<1>1. IInv => ReferencesHold
  BY DEF IInv
<1> QED
  BY <1>1, Invariance, PTL

-----------------------------------------------------------------------------
(* The step property: only DeletePolicy takes a tier away.                   *)

Deletes == \E t \in Tiers : tier[t] # "none" /\ tier'[t] = "none"
LeavesOne == \E t \in Tiers : tier'[t] = "active"

LEMMA WritesDeleteNothing ==
  ASSUME IInv, NEW c \in Calls, NEW t \in Tiers, NEW b, WriteTier(c, t, Switch(b))
  PROVE  ~Deletes
BY SwitchValues DEF WriteTier, Deletes, IInv, TypeOK

LEMMA KeepingDeletesNothing ==
  ASSUME tier' = tier
  PROVE  ~Deletes
BY DEF Deletes

LEMMA DeletionLeavesATier ==
  ASSUME IInv, NEW c \in Calls, DeletePolicy(c), Deletes, ~overlapped
  PROVE  LeavesOne
<1>1. WriteTier(c, call[c].tier, "none")
  BY DEF DeletePolicy, StepEdit, Deletes
<1>2. PICK t \in ActiveTiers : t # call[c].tier
  BY DEF DeletePolicy, IInv, CountsStand
<1> QED
  BY <1>1, <1>2 DEF WriteTier, LeavesOne, ActiveTiers, IInv, TypeOK

LEMMA StepLeavesATier == IInv /\ [Next]_vars => (Deletes /\ ~overlapped => LeavesOne)
<1> SUFFICES ASSUME IInv, [Next]_vars, Deletes, ~overlapped PROVE LeavesOne
  OBVIOUS
<1>1. tier' # tier
  BY KeepingDeletesNothing
<1>2. PICK c \in Calls :
        WriteDefaults(c) \/ CreatePolicy(c) \/ UpdatePolicy(c) \/ DeletePolicy(c)
  BY <1>1 DEF Next, vars, Install, RouteInvoice, CreateOrg, ReadTiers, SeedOwner, StartEdit,
              CountTiers, InviteMember, CountOwners, SetRole, RemoveMember, CreateInvoice,
              CallFails, StepEdit, WriteRole
<1>3. CASE WriteDefaults(c)
  BY <1>3 DEF WriteDefaults, Deletes, IInv, TypeOK
<1>4. CASE CreatePolicy(c) \/ UpdatePolicy(c)
  <2>1. call[c].pc = "update" => call[c].tier \in Tiers
    BY CallShape DEF IInv
  <2> QED
    BY <1>1, <1>4, <2>1, WritesDeleteNothing DEF CreatePolicy, UpdatePolicy, StepEdit
<1>5. CASE DeletePolicy(c)
  BY <1>5, DeletionLeavesATier
<1> QED
  BY <1>2, <1>3, <1>4, <1>5

(* With one owner's edit at a time, a deletion always leaves a tier that is  *)
(* in force.                                                                 *)
THEOREM DeletionsLeaveATier == Spec => DeletesLeaveATier
<1>1. IInv /\ [Next]_vars
        => [Deletes /\ ~overlapped => LeavesOne]_vars
  BY StepLeavesATier
<1> QED
  BY <1>1, Invariance, PTL DEF Spec, DeletesLeaveATier, Deletes, LeavesOne

=============================================================================
