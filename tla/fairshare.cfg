SPECIFICATION FairSpec
CONSTANTS
  root = root
  P = P
  A = A
  B = B
  Q = Q
  a1 = a1
  b1 = b1
  b2 = b2
  q1 = q1
  Banks = {root, P, A, B, Q}
  Root = root
  NoBank = NoBank
  Parent <- BankTree
  Assocs = {a1, b1, b2, q1}
  BankOf <- InLeaves
  Unit = 2
  Runs = {r1, r2}
  Shares = {0, 1, 2}
  MaxUsage = 4
  Tables <- SomeTables
  Orders <- EitherWay
  MaxChanges = 1
INVARIANTS RankedByStanding EmulatorAgrees
PROPERTIES UsingLessNeverHurts FairshareSettles
