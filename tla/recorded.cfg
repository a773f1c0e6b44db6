SPECIFICATION FairSpec
CONSTANTS
  root = root
  P = P
  A = A
  B = B
  a1 = a1
  a2 = a2
  j1 = j1
  j2 = j2
  j3 = j3
  Banks = {root, P, A, B}
  NoBank = NoBank
  Parent <- Tree
  Assocs = {a1}
  BankOf <- InLeaves
  Jobs = {j1, j2}
  AssocOf <- ChargedTo
  Usage <- Used
  DecayNum = 1
  DecayDen = 2
  None = None
  Configs <- WeeklyOrBiweekly
  Edits <- Weekly
  Second = 1
  ScrubAge = 2
  ClearBanks = {A}
  ClearTimes = {1}
  UserEdits = {a1}
  Updaters = {u1}
  MaxTime = 4
INVARIANTS CountedExactly UsageBounded BankUsageSums
PROPERTIES RotatedOncePerPeriod RecordsGetCounted
