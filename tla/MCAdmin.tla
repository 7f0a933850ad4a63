------------------------------- MODULE MCAdmin -------------------------------
EXTENDS Admin, TLC

Alike == Permutations(Members) \cup Permutations(Calls)
==============================================================================
