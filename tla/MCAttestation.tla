---------------------------- MODULE MCAttestation ----------------------------
(* Two approvers of one invoice, two people who may stand in for each of      *)
(* them, and as many challenges and handlers as it takes to cross.            *)
EXTENDS Attestation, TLC

Alike == Permutations(Invoices) \cup Permutations(Members) \cup Permutations(Persons)
           \cup Permutations(Nonces) \cup Permutations(Calls)
==============================================================================
