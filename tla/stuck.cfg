SPECIFICATION FairSpec
CONSTANTS
  Jobs = {j1, j2, j3}
  user = u1
  bankA = A
  bankB = B
  queue = batch
  Users = {u1}
  Banks = {A}
  Queues = {batch}
  Projects = {}
  DNE = DNE
  NoQueue = NoQueue
  NULL = NULL
  Requests <- AfterAnyRequests
  AssocPayloads <- RunAssocs
  QueuePayloads <- NoQueues
  ProjectPayloads = {{}}
PROPERTIES HeldJobsLeave
