SPECIFICATION FairSpec
CONSTANTS
  assocs = assocs
  queues = queues
  config = config
  factors = factors
  periods = periods
  name = name
  shares = shares
  cores = cores
  time = time
  last = last
  bin0 = bin0
  bin1 = bin1
  value = value
  k1 = k1
  k2 = k2
  Tables = {assocs, queues, config, factors, periods}
  Columns = {name, shares, cores, time, last, bin0, bin1, value}
  Keys = {k1, k2}
  Values = {Default, v1}
  Bins = {bin0, bin1}
  FactorTable = factors
  PeriodTable = periods
  Latest = 2
  Schema <- TwoSchemas
  Position <- CreationOrder
  Entries <- NewEntries
  Default = Default
  NoValue = NoValue
  Nobody = Nobody
  Updaters = {p1, p2}
  Touched = {assocs, config}
  OldRows <- SomeRows
  MaxWrites = 1
  MaxAborts = 1
INVARIANTS
  VersionTellsSchema
PROPERTIES
  NothingLost
  UpgradeEnds
