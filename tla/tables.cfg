SPECIFICATION StagedSpec
CONSTANTS
  root = root
  A = A
  B = B
  C = C
  ghost = ghost
  u1 = u1
  u2 = u2
  q1 = q1
  q2 = q2
  p1 = p1
  f1 = f1
  life = life
  mine = mine
  two = two
  Users = {u1, u2}
  Banks = {root, A, B, C, ghost}
  Queues = {q1, q2}
  Projects = {p1}
  Keys = {life, mine}
  Factors = {f1}
  BinKeys = {life}
  LockedKeys = {life}
  NoBank = NoBank
  Keep = Keep
  Reset = Reset
  Bad = Bad
  Shares = {Default, two}
  Default = Default
  Requests <- WholeRequests
  MaxBankRows = 4
  MaxDepth = 6
  MaxTime = 1
INVARIANTS
  CleanUnlessLocked
  OneRootBank
  NoMixedBank
  OneDefaultBank
  UsageRows
  NothingLeftOpen
PROPERTIES
  DeleteTakesSubtree
  DefaultFollows
  WholeCommands
