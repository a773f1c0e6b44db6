SPECIFICATION StagedSpec
CONSTANTS
  owner = owner
  u1 = u1
  u2 = u2
  own = own
  A = A
  B = B
  queues = queues
  factors = factors
  name = name
  default = default
  j1 = j1
  j2 = j2
  Users = {owner, u1, u2}
  Banks = {own, A, B}
  Jobs = {j1, j2}
  JobUser <- OneEach
  Owner = owner
  OwnBank = own
  DNE = DNE
  NoBank = NoBank
  Absent = Absent
  On = On
  Off = Off
  Tables <- SentTables
  Merged = {factors}
  Names = {name}
  Values = {default, other}
  Initial <- EmptyMaps
  Changed <- TouchedAssocs
  Runs = {p1, p2}
  NULL = NULL
  MaxChanges = 2
  MaxKills = 1
  MaxLoads = 1
INVARIANTS
  CountsRecovered
  ScheduledUnderItsBank
PROPERTIES
  PluginCatchesUp
  WaitersGetIn
