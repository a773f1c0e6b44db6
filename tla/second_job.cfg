SPECIFICATION JobsSpec
CONSTANTS
  owner = owner
  u1 = u1
  u2 = u2
  own = own
  A = A
  B = B
  queues = queues
  factors = factors
  name = name
  default = default
  j1 = j1
  j2 = j2
  Users = {owner, u1}
  Banks = {own, A}
  Jobs = {j1, j2}
  JobUser <- BothOfOne
  Owner = owner
  OwnBank = own
  DNE = DNE
  NoBank = NoBank
  Absent = Absent
  On = On
  Off = Off
  Tables <- SentTables
  Merged = {factors}
  Names = {name}
  Values = {default, other}
  Initial <- EmptyMaps
  Changed = {}
  Runs = {p1}
  NULL = NULL
  MaxChanges = 0
  MaxKills = 0
  MaxLoads = 0
PROPERTIES
  WaitersGetIn
