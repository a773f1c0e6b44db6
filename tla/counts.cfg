SPECIFICATION Spec
CONSTANTS
  Jobs = {j1, j2, j3}
  user = u1
  bankA = A
  bankB = B
  queue = batch
  Users = {u1}
  Banks = {A, B}
  Queues = {batch}
  Projects = {}
  DNE = DNE
  NoQueue = NoQueue
  NULL = NULL
  Requests <- CountsRequests
  AssocPayloads <- CountsAssocs
  QueuePayloads <- CountsQueues
  ProjectPayloads = {{}}
SYMMETRY Symmetry
INVARIANTS JobsConsistent JobCountsExact ResourceCountsExact HeldJobsConsistent IteratorValid
PROPERTIES ActiveLimitKept
