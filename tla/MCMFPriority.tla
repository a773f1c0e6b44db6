----------------------------- MODULE MCMFPriority -----------------------------
(***************************************************************************)
(* Small instances of MFPriority.                                          *)
(***************************************************************************)
EXTENDS MFPriority

CONSTANTS user, bankA, bankB, queue

Symmetry == Permutations(Jobs)

\* Limits that nobody reaches, as the database has them by default.
NoLimits ==
  [active |-> TRUE, max_run_jobs |-> INT_MAX, max_active_jobs |-> 0,
   max_sched_jobs |-> INT_MAX, max_nodes |-> INT_MAX, max_cores |-> INT_MAX,
   queues |-> {queue}, projects |-> {}]
NoQueueLimits ==
  [max_running_jobs |-> INT_MAX, max_nodes_per_assoc |-> INT_MAX,
   max_sched_jobs |-> INT_MAX, max_sched_nodes_per_assoc |-> INT_MAX,
   max_sched_cores_per_assoc |-> INT_MAX]

\* A payload that gives limits lim[b] in each bank b, with d as default bank.
Payload(lim, d) ==
  [limits |-> [a \in {user} \X DOMAIN lim |-> lim[a[2]]], def_bank |-> [u \in {user} |-> d]]
OneBank(lim) == Payload([b \in {bankA} |-> lim], bankA)
QueuePayload(q) == [n \in {queue} |-> q]

Job(b, q, n, after) ==
  [user |-> user, bank |-> b, queue |-> q, project |-> NULL, nnodes |-> n,
   ncores |-> n, afterany |-> after]

-----------------------------------------------------------------------------
(* counts: every kind of limit within reach of three jobs, two payloads that  *)
(* tighten and relax them and move the default bank                           *)
CountsRequests ==
  {Job(NULL, queue, 1, FALSE), Job(bankA, NoQueue, 2, TRUE)}
CountsAssocs ==
  LET tight == [NoLimits EXCEPT !.max_run_jobs = 1, !.max_sched_jobs = 1,
                                !.max_active_jobs = 2, !.max_nodes = 2]
  IN  {OneBank([tight EXCEPT !.max_active_jobs = 3]),
       Payload([b \in {bankA, bankB} |-> IF b = bankA THEN NoLimits ELSE tight], bankB)}
CountsQueues ==
  {<<>>,
   QueuePayload([NoQueueLimits EXCEPT !.max_running_jobs = 1, !.max_sched_jobs = 1,
                                      !.max_sched_nodes_per_assoc = 1])}

-----------------------------------------------------------------------------
(* limits: max_sched_jobs, or a limit of a queue that counts jobs in SCHED *)
SizedRequests == {Job(NULL, queue, n, FALSE) : n \in 1..2}
LimitsAssocs ==
  {OneBank(NoLimits)} \cup {OneBank([NoLimits EXCEPT !.max_sched_jobs = n]) : n \in 1..2}
LimitsQueues ==
  {<<>>,
   QueuePayload([NoQueueLimits EXCEPT !.max_sched_jobs = 1]),
   QueuePayload([NoQueueLimits EXCEPT !.max_sched_nodes_per_assoc = 2]),
   QueuePayload([NoQueueLimits EXCEPT !.max_sched_cores_per_assoc = 2]),
   QueuePayload([NoQueueLimits EXCEPT !.max_nodes_per_assoc = 2])}
\* One kind of limit at a time: held jobs are not compared with the others again.
LimitsInit ==
  /\ Init
  /\ KnownQueue(queue) => \A a \in known : limits[a].max_sched_jobs = INT_MAX
LimitsSpec == LimitsInit /\ [][StaticNext]_vars

(* progress: every kind of limit at once *)
ProgressAssocs ==
  {OneBank([NoLimits EXCEPT !.max_run_jobs = 1, !.max_sched_jobs = 1, !.max_nodes = 2])}
ProgressQueues ==
  {QueuePayload([NoQueueLimits EXCEPT !.max_running_jobs = 1, !.max_nodes_per_assoc = 2])}

(* stuck: one limit, and jobs with a dependency of their own                     *)
AfterAnyRequests == {Job(NULL, queue, 1, after) : after \in BOOLEAN}
NoQueues == {<<>>}
RunAssocs == {OneBank([NoLimits EXCEPT !.max_run_jobs = 1])}

=============================================================================
