---------------------------- MODULE AccountingTypes ----------------------------
(***************************************************************************)
(* The data the priority plugin works on: constants, record types and      *)
(* names shared by every module of the plugin (src/src/plugins/accounting  *)
(* .hpp and job.hpp).                                                      *)
(***************************************************************************)
EXTENDS Integers, FiniteSets

CONSTANTS
  Users, Banks,       \* userids and bank names of the database
  Queues,             \* queue names a job may name
  Projects,           \* project names
  Jobs,               \* job ids
  Requests,           \* jobspecs that users submit, a set of Request
  AssocPayloads,      \* payloads of the rec_update RPC: limits and default banks
  QueuePayloads,      \* payloads of the rec_q_update RPC: the queues they define
  ProjectPayloads,    \* payloads of the rec_proj_update RPC: sets of project names
  DNE,                \* the bank name of an association waiting for data
  NoQueue,            \* the empty queue string of a job that names no queue
  NULL                \* a null pointer or an absent attribute

BANK_INFO_MISSING == 999
INT_MAX == 2147483647
INT16_MAX == 32767

BankNames == Banks \cup {DNE}
QueueNames == Queues \cup {NoQueue}
Assoc == Users \X BankNames

D_QUEUE_MRJ  == "max-run-jobs-queue"
D_ASSOC_MRJ  == "max-running-jobs-user-limit"
D_ASSOC_MRES == "max-resources-user-limit"
D_QUEUE_MRES == "max-resources-queue"
D_ASSOC_MSJ  == "max-sched-jobs-user-limit"
D_QUEUE_MSJ  == "max-sched-jobs-queue-limit"
D_QUEUE_MSN  == "max-sched-nodes-queue-limit"
D_QUEUE_MSC  == "max-sched-cores-queue-limit"
Dep == {D_QUEUE_MRJ, D_ASSOC_MRJ, D_ASSOC_MRES, D_QUEUE_MRES,
        D_ASSOC_MSJ, D_QUEUE_MSJ, D_QUEUE_MSN, D_QUEUE_MSC}

\* Any dependency of a job that the plugin did not add (afterany:ID, ...).
AfterAny == "afterany"

\* The configured half of an Association, the half load_associations writes.
Limits == [active: BOOLEAN, max_run_jobs: Int, max_active_jobs: Int,
           max_sched_jobs: Int, max_nodes: Int, max_cores: Int,
           queues: SUBSET Queues, projects: SUBSET Projects]

\* An Association that no payload has filled in yet.
Blank == [active |-> FALSE, max_run_jobs |-> 0, max_active_jobs |-> 0,
          max_sched_jobs |-> 0, max_nodes |-> 0, max_cores |-> 0,
          queues |-> {}, projects |-> {}]

Queue == [max_running_jobs: Int, max_nodes_per_assoc: Int, max_sched_jobs: Int,
          max_sched_nodes_per_assoc: Int, max_sched_cores_per_assoc: Int]

QueueUsage == [cur_run_jobs: Int, cur_nodes: Int, cur_sched_jobs: Int,
               cur_sched_nodes: Int, cur_sched_cores: Int]

NothingUsed == [cur_run_jobs |-> 0, cur_nodes |-> 0, cur_sched_jobs |-> 0,
                cur_sched_nodes |-> 0, cur_sched_cores |-> 0]

Request == [user: Users, bank: BankNames \cup {NULL}, queue: QueueNames,
            project: Projects \cup {NULL}, nnodes: Nat, ncores: Nat,
            afterany: BOOLEAN]

\* Headroom already given away in the current pass over an association's held
\* jobs, and the contribution of the job the pass is looking at.
Released == [assoc_run: Int, assoc_sched: Int, queue_run: [QueueNames -> Int],
             queue_sched: [QueueNames -> Int],
             queue_sched_nodes: [QueueNames -> Int],
             queue_sched_cores: [QueueNames -> Int]]

NothingReleased ==
  LET zero == [q \in QueueNames |-> 0]
  IN  [assoc_run |-> 0, assoc_sched |-> 0, queue_run |-> zero,
       queue_sched |-> zero, queue_sched_nodes |-> zero, queue_sched_cores |-> zero]

JobState == {"UNSUBMITTED", "NEW", "DEPEND", "PRIORITY", "SCHED", "RUN",
             "CLEANUP", "INACTIVE"}

\* A callback that must run next, and one activation of
\* check_and_release_held_jobs (): the position of its iterator, the headroom
\* given away so far, and the job it has just released, with the dependencies
\* it took from it, until the loop body has booked that release.
Call == [cb: {"depend", "priority", "sched", "inactive"}, job: Jobs]
Pass == [assoc: Assoc, at: Nat \ {0}, released: Released, job: Jobs \cup {NULL},
         removed: SUBSET Dep]

ASSUME NamesAssumption ==
  /\ IsFiniteSet(Jobs) /\ Requests \subseteq Request
  /\ DNE \notin Banks
  /\ NoQueue \notin Queues
  /\ NULL \notin Users \cup Jobs \cup BankNames \cup QueueNames \cup Projects

\* NULL is none of the values it stands beside.
ASSUME NullAssumption ==
  /\ NULL \notin Queue /\ NULL \notin Request
  /\ NULL \notin Assoc /\ NULL \notin Call /\ NULL \notin Pass

\* What the update script can send: some rows of the association table with the
\* default bank of every user in them, some queues, some projects.
ASSUME PayloadAssumption ==
  /\ \A p \in AssocPayloads :
       /\ DOMAIN p.limits \subseteq Users \X Banks
       /\ \A a \in DOMAIN p.limits : p.limits[a] \in Limits
       /\ DOMAIN p.def_bank \subseteq Users
       /\ \A u \in DOMAIN p.def_bank : p.def_bank[u] \in Banks
  /\ \A p \in QueuePayloads :
       /\ DOMAIN p \subseteq Queues
       /\ \A q \in DOMAIN p : p[q] \in Queue
  /\ \A p \in ProjectPayloads : p \subseteq Projects

=============================================================================
