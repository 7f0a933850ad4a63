------------------------------- MODULE MCWeb --------------------------------
(***************************************************************************)
(* The web app's pages on a small instance.                                *)
(***************************************************************************)
EXTENDS Web

CONSTANTS
  ann, ben,            \* accounts
  nobody,
  ann_corp,            \* an address
  small, v1, v2, noTier, newTier,
  owner, guest, noMember,
  i1, i2,
  a1, a2

MCEmailOf == [a \in {ann, ben} |-> ann_corp]
=============================================================================
