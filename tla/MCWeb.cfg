SPECIFICATION WebSpec

CONSTANTS
  ann = ann
  ben = ben
  nobody = nobody
  ann_corp = ann_corp
  small = small
  v1 = v1
  v2 = v2
  noTier = noTier
  newTier = newTier
  owner = owner
  guest = guest
  noMember = noMember
  i1 = i1
  i2 = i2
  a1 = a1
  a2 = a2
  Accounts = {ann, ben}
  Emails = {ann_corp}
  EmailOf <- MCEmailOf
  Nobody = nobody
  MaxCalls = 2
  Required = 2
  Patience = 1
  MaxAttempts = 2
  Tiers = {small}
  Terms = {v1, v2}
  Blank = v1
  NoTier = noTier
  NewTier = newTier
  MaxWrites = 2
  Members = {owner, guest}
  Myself = owner
  NoMember = noMember
  MaxTeamCalls = 2
  Invoices = {i1, i2}
  Slots = {1, 2, 3}
  MaxTopUps = 3
  MaxCrossed = 1
  MaxUnmined = 1
  Forms = {1}
  Addresses = {a1, a2}
  Treasury = a1
  Cooldown = 2
  MaxNow = 3
  MaxPool = 2

INVARIANTS
  WebTypeOK
  SignedOutIsLeaving
  DoneIsRecorded
  EachFormItsTier
  QuietPolicyIsCurrent
  QuietRosterIsCurrent
  OneSendPerCrossing
  OneTopUpPerMiss
  DripsAreSpaced
  KeyIsHeldBack

PROPERTIES
  SeatsAreKept
  SignInEnds
  DecisionIsShown
  RowComesBack
  FiledIsListed

CHECK_DEADLOCK FALSE
