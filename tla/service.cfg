SPECIFICATION StagedSpec
CONSTANTS
  root = root
  A = A
  B = B
  ghost = ghost
  u1 = u1
  q1 = q1
  q2 = q2
  p1 = p1
  f1 = f1
  life = life
  mine = mine
  two = two
  admin = admin
  guest = guest
  Users = {u1}
  Banks = {root, A, B, ghost}
  Queues = {q1, q2}
  Projects = {p1}
  Keys = {life, mine}
  Factors = {f1}
  BinKeys = {life}
  LockedKeys = {life}
  NoBank = NoBank
  Keep = Keep
  Reset = Reset
  Bad = Bad
  Shares = {Default, two}
  Default = Default
  Requests <- AllEdits
  MaxBankRows = 4
  MaxDepth = 3
  MaxTime = 0
  Owner = admin
  Guests = {guest}
  Sent <- AllSent
  MaxCalls = 3
INVARIANTS
  ServiceTypeOK
  EachCallOnce
PROPERTIES
  ViewsShowCommitted
  FailedEditsCommitNothing
  CallsEnd
