------------------------------ MODULE MFPriority ------------------------------
(***************************************************************************)
(* The limit enforcement of the multi-factor priority plugin               *)
(* (src/src/plugins/mf_priority.cpp, accounting.cpp, job.cpp): the maps it *)
(* keeps, the callbacks flux-core's job manager makes into it, and the     *)
(* loop that releases held jobs.                                           *)
(*                                                                         *)
(* The job manager is one reactor thread.  A callback runs to its end, but *)
(* flux_jobtap_dependency_remove () calls back into the plugin before it   *)
(* returns: the job whose last dependency goes away runs through           *)
(* job.state.priority and job.state.sched inside the loop that released    *)
(* it.  The model keeps that call structure in three variables:            *)
(*   call  - the callback of one job that must run next,                   *)
(*   pass  - the activation of check_and_release_held_jobs (), if any,     *)
(*   sweep - the associations reprior_cb () has still to visit.            *)
(* Something new may happen (a submission, an RPC, a scheduler answer)     *)
(* only when all three are empty: this is Idle.                            *)
(*                                                                         *)
(* The plugin has its data when the model starts, and -1 and 999, which it *)
(* uses as marks in max_run_jobs, are not limits anyone configured.        *)
(* Left out: priorities, logging, JSON building, failing allocations.      *)
(***************************************************************************)
EXTENDS AccountingTypes, Sequences, SequencesExt

-----------------------------------------------------------------------------
VARIABLES
  \* the plugin: std::map users, queues, users_def_bank, vector projects
  known,            \* keys of the users map
  def_bank,         \* users_def_bank; NULL for a user that is not in it
  limits,           \* configured half of each Association
  queues,           \* queues map; NULL for a queue it does not hold
  projects,         \* projects vector
  deny_unknown_queues,
  \* the plugin: counted half of each Association
  cur_active_jobs, cur_run_jobs, cur_sched_jobs, cur_nodes, cur_cores,
  queue_usage,
  held_jobs,        \* job ids in the held_jobs vector, oldest first
  deps,             \* Job::deps of the copy in held_jobs
  held_queue,       \* Job::queue of the copy in held_jobs
  \* flux-core: the job manager's record of each job
  state, jobspec, dependencies, posted,
  bank_info,        \* aux item "mf_priority:bank_info", NULL when not set
  job_info,         \* whether aux item "mf_priority:job_info" is set
  \* flux-core: what must run before anything new happens
  call, pass, sweep

confVars == <<known, def_bank, limits, queues, projects, deny_unknown_queues>>
countVars == <<cur_active_jobs, cur_run_jobs, cur_sched_jobs, cur_nodes,
               cur_cores, queue_usage>>
heldVars == <<held_jobs, deps, held_queue>>
jobVars == <<state, jobspec, dependencies, posted, bank_info, job_info>>
runVars == <<call, pass, sweep>>
vars == <<confVars, countVars, heldVars, jobVars, runVars>>

Idle == call = NULL /\ pass = NULL /\ sweep = {}

-----------------------------------------------------------------------------
(* Lookups *)

\* get_association (): the key of the Association, NULL when there is none.
GetAssociation(user, bank) ==
  LET key == <<user, IF bank = NULL THEN def_bank[user] ELSE bank>>
  IN  IF key \in known THEN key ELSE NULL

\* get_queue_info () = INVALID_QUEUE
InvalidQueue(a, q) ==
  q # NoQueue /\ queues[q] # NULL /\ q \notin limits[a].queues

\* get_project_info () < 0
InvalidProject(a, p) == p \notin projects \/ p \notin limits[a].projects

\* The limit of a queue, or none for a queue the plugin does not know.
KnownQueue(q) == q \in Queues /\ queues[q] # NULL

-----------------------------------------------------------------------------
(* The eight limit checks (under_...).  r is what the pass has given away. *)

Under(d, a, j, q, r) ==
  LET use == queue_usage[a][q]
      n == jobspec[j].nnodes
      c == jobspec[j].ncores
  IN  CASE d = D_QUEUE_MRJ ->
             KnownQueue(q) => use.cur_run_jobs + r.queue_run[q] < queues[q].max_running_jobs
        [] d = D_QUEUE_MSJ ->
             KnownQueue(q) => use.cur_sched_jobs + r.queue_sched[q] < queues[q].max_sched_jobs
        [] d = D_QUEUE_MSN ->
             KnownQueue(q) => use.cur_sched_nodes + n + r.queue_sched_nodes[q]
                                <= queues[q].max_sched_nodes_per_assoc
        [] d = D_QUEUE_MSC ->
             KnownQueue(q) => use.cur_sched_cores + c + r.queue_sched_cores[q]
                                <= queues[q].max_sched_cores_per_assoc
        [] d = D_QUEUE_MRES ->
             KnownQueue(q) => use.cur_nodes + use.cur_sched_nodes + n
                                <= queues[q].max_nodes_per_assoc
        [] d = D_ASSOC_MRJ -> cur_run_jobs[a] + r.assoc_run < limits[a].max_run_jobs
        [] d = D_ASSOC_MSJ -> cur_sched_jobs[a] + r.assoc_sched < limits[a].max_sched_jobs
        [] d = D_ASSOC_MRES ->
             /\ limits[a].max_nodes > 0 /\ limits[a].max_cores > 0
             /\ cur_nodes[a] + n <= limits[a].max_nodes
             /\ cur_cores[a] + c <= limits[a].max_cores

\* Variant: the SCHED limits and the limit on the nodes of a queue are forgotten.
ExceededByRunning(a, j, q, r) ==
  {d \in {D_ASSOC_MRJ, D_QUEUE_MRJ, D_ASSOC_MRES} : ~Under(d, a, j, q, r)}

Exceeded(a, j, q, r) == {d \in Dep : ~Under(d, a, j, q, r)}

-----------------------------------------------------------------------------
(* Counter updates *)

\* increment_resources () / decrement_resources (), the association's part; s is 1 or -1
CountResources(a, j, s) ==
  /\ cur_nodes' = [cur_nodes EXCEPT ![a] = @ + s * jobspec[j].nnodes]
  /\ cur_cores' = [cur_cores EXCEPT ![a] = @ + s * jobspec[j].ncores]

\* ... and the part of a queue's usage that counts running jobs; a job without
\* a queue has none.  The running count is not taken below zero.
StartedIn(use, q, j) ==
  IF q = NoQueue THEN use
  ELSE [use EXCEPT !.cur_run_jobs = use.cur_run_jobs + 1,
                   !.cur_nodes = use.cur_nodes + jobspec[j].nnodes]

\* Variant: the nodes of a job are not given back to its queue.
StoppedInKeepingNodes(use, q, j) ==
  IF q = NoQueue \/ use.cur_run_jobs = 0 THEN use
  ELSE [use EXCEPT !.cur_run_jobs = use.cur_run_jobs - 1]

StoppedIn(use, q, j) ==
  IF q = NoQueue THEN use
  ELSE [use EXCEPT !.cur_run_jobs =
                     IF use.cur_run_jobs > 0 THEN use.cur_run_jobs - 1 ELSE use.cur_run_jobs,
                   !.cur_nodes = use.cur_nodes - jobspec[j].nnodes]

EnteredSched(use, j) ==
  [use EXCEPT !.cur_sched_jobs = use.cur_sched_jobs + 1,
              !.cur_sched_nodes = use.cur_sched_nodes + jobspec[j].nnodes,
              !.cur_sched_cores = use.cur_sched_cores + jobspec[j].ncores]

LeftSched(use, j) ==
  [use EXCEPT !.cur_sched_jobs = use.cur_sched_jobs - 1,
              !.cur_sched_nodes = use.cur_sched_nodes - jobspec[j].nnodes,
              !.cur_sched_cores = use.cur_sched_cores - jobspec[j].ncores]

-----------------------------------------------------------------------------
(* Held jobs *)

\* The vector without job j, which depend_cb () puts in it at most once.
Erase(held, j) ==
  IF Contains(held, j)
  THEN RemoveAt(held, CHOOSE i \in DOMAIN held : held[i] = j)
  ELSE held

\* Variant: a job that ends while held is left in the vector.
UnholdNothing(a, j) == UNCHANGED heldVars

\* Job j leaves the held jobs of association a, if it is one of them.
Unhold(a, j) ==
  /\ held_jobs' = [held_jobs EXCEPT ![a] = Erase(@, j)]
  /\ IF Contains(held_jobs[a], j)
     THEN /\ deps' = [deps EXCEPT ![j] = {}]
          /\ held_queue' = [held_queue EXCEPT ![j] = NoQueue]
     ELSE UNCHANGED <<deps, held_queue>>

StartPass(a) ==
  [assoc |-> a, at |-> 1, released |-> NothingReleased, job |-> NULL, removed |-> {}]

\* Variant: nobody looks at the held jobs again.
NoPass(a, held) == pass' = pass

\* check_and_release_held_jobs () is called when something is held.
PassIfHeld(a, held) == pass' = IF held = <<>> THEN pass ELSE StartPass(a)

-----------------------------------------------------------------------------
(* Submission: job.validate, job.new, job.state.depend *)

\* The checks of validate_cb () on a job whose association is known.
Valid(a, r) ==
  /\ limits[a].active
  /\ ~(deny_unknown_queues /\ r.queue # NoQueue /\ queues[r.queue] = NULL)
  /\ ~InvalidQueue(a, r.queue)
  /\ r.project # NULL => ~InvalidProject(a, r.project)
  /\ limits[a].max_active_jobs > 0 => cur_active_jobs[a] < limits[a].max_active_jobs
  /\ KnownQueue(r.queue) => r.nnodes <= queues[r.queue].max_nodes_per_assoc
  /\ r.nnodes <= limits[a].max_nodes /\ r.ncores <= limits[a].max_cores

\* flux-core records a job that passed job.validate.
Accept(j, r) ==
  /\ state' = [state EXCEPT ![j] = "NEW"]
  /\ jobspec' = [jobspec EXCEPT ![j] = r]
  /\ dependencies' = [dependencies EXCEPT ![j] = IF r.afterany THEN {AfterAny} ELSE {}]

Validate(j, r) ==
  LET a == GetAssociation(r.user, r.bank)
  IN  /\ Idle /\ state[j] = "UNSUBMITTED"
      /\ a # NULL /\ Valid(a, r)
      /\ Accept(j, r)
      /\ UNCHANGED <<confVars, countVars, heldVars, posted, bank_info, job_info, runVars>>

\* Variant: one job more than max_active_jobs gets through.
AboveMaxActive(a) ==
  limits[a].max_active_jobs > 0 /\ cur_active_jobs[a] > limits[a].max_active_jobs

\* new_cb () refuses a job when its association is at max_active_jobs by now.
AtMaxActive(a) ==
  limits[a].max_active_jobs > 0 /\ cur_active_jobs[a] >= limits[a].max_active_jobs

\* The association new_cb () works with, and the jobspec it leaves: a job that
\* names no bank gets the default bank written into it.
NewAssociation(j) ==
  IF bank_info[j] # NULL THEN bank_info[j]
  ELSE GetAssociation(jobspec[j].user, jobspec[j].bank)

NewJobspec(j) ==
  IF bank_info[j] = NULL /\ jobspec[j].bank = NULL
  THEN [jobspec EXCEPT ![j].bank = def_bank[jobspec[j].user]] ELSE jobspec

\* Variants: the Job is not attached; the job is not counted.
AttachNoJob(j, a) ==
  /\ bank_info' = [bank_info EXCEPT ![j] = a]
  /\ jobspec' = NewJobspec(j)
  /\ cur_active_jobs' = [cur_active_jobs EXCEPT ![a] = @ + 1]
  /\ UNCHANGED job_info

AttachUncounted(j, a) ==
  /\ bank_info' = [bank_info EXCEPT ![j] = a]
  /\ job_info' = [job_info EXCEPT ![j] = TRUE]
  /\ jobspec' = NewJobspec(j)
  /\ UNCHANGED cur_active_jobs

\* The part of new_cb () common to every job it takes on.
Attach(j, a) ==
  /\ bank_info' = [bank_info EXCEPT ![j] = a]
  /\ job_info' = [job_info EXCEPT ![j] = TRUE]
  /\ jobspec' = NewJobspec(j)
  /\ cur_active_jobs' = [cur_active_jobs EXCEPT ![a] = @ + 1]

New(j) ==
  LET a == NewAssociation(j)
  IN  /\ Idle /\ state[j] = "NEW"
      /\ a # NULL /\ ~AtMaxActive(a) /\ limits[a].max_run_jobs # -1
      /\ Attach(j, a)
      /\ state' = [state EXCEPT ![j] = "DEPEND"]
      /\ call' = [cb |-> "depend", job |-> j]
      /\ UNCHANGED <<confVars, cur_run_jobs, cur_sched_jobs, cur_nodes, cur_cores,
                     queue_usage, heldVars, dependencies, posted, pass, sweep>>

\* The submission fails: the user is told, the job is forgotten.
NewRejected(j) ==
  LET a == NewAssociation(j)
  IN  /\ Idle /\ state[j] = "NEW"
      /\ a # NULL /\ AtMaxActive(a)
      /\ state' = [state EXCEPT ![j] = "UNSUBMITTED"]
      /\ jobspec' = [jobspec EXCEPT ![j] = NULL]
      /\ dependencies' = [dependencies EXCEPT ![j] = {}]
      /\ bank_info' = [bank_info EXCEPT ![j] = NULL]
      /\ UNCHANGED <<confVars, countVars, heldVars, posted, job_info, runVars>>

\* depend_cb (): a job over any limit gets one dependency for each of them and
\* joins its association's held jobs; one with no dependency at all moves on.
Depend(j) ==
  LET a == bank_info[j]
      q == jobspec[j].queue
      ex == Exceeded(a, j, q, NothingReleased)
  IN  /\ call = [cb |-> "depend", job |-> j]
      /\ a # NULL
      /\ dependencies' = [dependencies EXCEPT ![j] = @ \cup ex]
      /\ IF ex = {} THEN UNCHANGED heldVars
         ELSE /\ held_jobs' = [held_jobs EXCEPT ![a] = Append(@, j)]
              /\ deps' = [deps EXCEPT ![j] = ex]
              /\ held_queue' = [held_queue EXCEPT ![j] = q]
      /\ call' = IF dependencies'[j] = {} THEN [cb |-> "priority", job |-> j] ELSE NULL
      /\ UNCHANGED <<confVars, countVars, state, jobspec, posted, bank_info,
                     job_info, pass, sweep>>

\* flux-core: the job an afterany dependency waits for has finished.
AfterAnyDone(j) ==
  /\ Idle /\ state[j] = "DEPEND" /\ AfterAny \in dependencies[j]
  /\ dependencies' = [dependencies EXCEPT ![j] = @ \ {AfterAny}]
  /\ call' = IF dependencies'[j] = {} THEN [cb |-> "priority", job |-> j] ELSE NULL
  /\ UNCHANGED <<confVars, countVars, heldVars, state, jobspec, posted, bank_info,
                 job_info, pass, sweep>>

-----------------------------------------------------------------------------
(* job.state.priority and job.state.sched *)

\* A priority was computed: a pending job enters SCHED, one that is there stays.
Prioritized(j) ==
  IF state[j] = "SCHED" THEN call' = NULL /\ UNCHANGED state
  ELSE /\ call' = [cb |-> "sched", job |-> j]
       /\ state' = [state EXCEPT ![j] = "PRIORITY"]

\* priority_cb () on a job whose association it need not look up again.
Priority(j) ==
  /\ call = [cb |-> "priority", job |-> j]
  /\ bank_info[j] # NULL
  /\ limits[bank_info[j]].max_run_jobs # BANK_INFO_MISSING
  /\ job_info' = [job_info EXCEPT ![j] = TRUE]
  /\ Prioritized(j)
  /\ UNCHANGED <<confVars, countVars, heldVars, jobspec, dependencies, posted,
                 bank_info, pass, sweep>>

Sched(j) ==
  LET a == bank_info[j]
      q == jobspec[j].queue
  IN  /\ call = [cb |-> "sched", job |-> j]
      /\ state' = [state EXCEPT ![j] = "SCHED"]
      /\ posted' = [posted EXCEPT ![j] = @ \cup {"priority"}]
      /\ cur_sched_jobs' = [cur_sched_jobs EXCEPT ![a] = @ + 1]
      /\ queue_usage' = [queue_usage EXCEPT ![a][q] = EnteredSched(@, j)]
      /\ call' = NULL
      /\ UNCHANGED <<confVars, cur_active_jobs, cur_run_jobs, cur_nodes, cur_cores,
                     heldVars, jobspec, dependencies, bank_info, job_info, pass, sweep>>

-----------------------------------------------------------------------------
(* job.state.run, job.state.inactive and what leads to them *)

\* The scheduler allocates resources: run_cb ().
Run(j) ==
  LET a == bank_info[j]
      q == jobspec[j].queue
  IN  /\ Idle /\ state[j] = "SCHED"
      /\ a # NULL /\ job_info[j]
      /\ state' = [state EXCEPT ![j] = "RUN"]
      /\ posted' = [posted EXCEPT ![j] = @ \cup {"alloc"}]
      /\ cur_run_jobs' = [cur_run_jobs EXCEPT ![a] = @ + 1]
      /\ CountResources(a, j, 1)
      /\ cur_sched_jobs' = [cur_sched_jobs EXCEPT ![a] = @ - 1]
      /\ queue_usage' = [queue_usage EXCEPT ![a][q] = LeftSched(StartedIn(@, q, j), j)]
      /\ PassIfHeld(a, held_jobs[a])
      /\ UNCHANGED <<confVars, cur_active_jobs, heldVars, jobspec, dependencies,
                     bank_info, job_info, call, sweep>>

\* flux-core: a running job ends, or is cancelled.
Finish(j) ==
  /\ Idle /\ state[j] = "RUN"
  /\ state' = [state EXCEPT ![j] = "CLEANUP"]
  /\ UNCHANGED <<confVars, countVars, heldVars, jobspec, dependencies, posted,
                 bank_info, job_info, runVars>>

\* flux-core: a pending job is cancelled.  One that waits for the scheduler
\* stays in CLEANUP until its allocation request is withdrawn.
Cancel(j) ==
  /\ Idle /\ state[j] \in {"DEPEND", "PRIORITY", "SCHED"}
  /\ state' = [state EXCEPT ![j] = "CLEANUP"]
  /\ call' = IF state[j] = "SCHED" THEN NULL ELSE [cb |-> "inactive", job |-> j]
  /\ UNCHANGED <<confVars, countVars, heldVars, jobspec, dependencies, posted,
                 bank_info, job_info, pass, sweep>>

GoesInactive(j) ==
  /\ state[j] = "CLEANUP"
  /\ Idle \/ call = [cb |-> "inactive", job |-> j]
  /\ state' = [state EXCEPT ![j] = "INACTIVE"]
  /\ call' = NULL

\* inactive_cb () on a job that never ran.  A "priority" event in its eventlog
\* is taken to mean that it was counted in SCHED.
InactivePending(j) ==
  LET a == bank_info[j]
      q == jobspec[j].queue
  IN  /\ GoesInactive(j)
      /\ a # NULL /\ job_info[j] /\ "alloc" \notin posted[j]
      /\ cur_active_jobs' = [cur_active_jobs EXCEPT ![a] = @ - 1]
      /\ Unhold(a, j)
      /\ IF "priority" \in posted[j]
         THEN /\ cur_sched_jobs' = [cur_sched_jobs EXCEPT ![a] = @ - 1]
              /\ queue_usage' = [queue_usage EXCEPT ![a][q] = LeftSched(@, j)]
              /\ PassIfHeld(a, held_jobs'[a])
         ELSE UNCHANGED <<cur_sched_jobs, queue_usage, pass>>
      /\ UNCHANGED <<confVars, cur_run_jobs, cur_nodes, cur_cores,
                     jobspec, dependencies, posted, bank_info, job_info, sweep>>

\* inactive_cb () on a job that ran.
InactiveAllocated(j) ==
  LET a == bank_info[j]
      q == jobspec[j].queue
  IN  /\ GoesInactive(j)
      /\ a # NULL /\ job_info[j] /\ "alloc" \in posted[j]
      /\ cur_active_jobs' = [cur_active_jobs EXCEPT ![a] = @ - 1]
      /\ cur_run_jobs' = [cur_run_jobs EXCEPT ![a] = @ - 1]
      /\ CountResources(a, j, -1)
      /\ queue_usage' = [queue_usage EXCEPT ![a][q] = StoppedIn(@, q, j)]
      /\ PassIfHeld(a, held_jobs[a])
      /\ UNCHANGED <<confVars, cur_sched_jobs, heldVars, jobspec, dependencies, posted,
                     bank_info, job_info, sweep>>

-----------------------------------------------------------------------------
(* check_and_release_held_jobs (): one step for each held job it looks at, and *)
(* one for what it books after the released job's own callbacks have run.      *)

\* The pass looks at job j next.
LooksAt(j) ==
  /\ pass # NULL /\ call = NULL /\ pass.job = NULL
  /\ pass.at <= Len(held_jobs[pass.assoc])
  /\ j = held_jobs[pass.assoc][pass.at]

\* The dependencies the pass can take from j: those of limits that would hold
\* with j counted on top of what this pass has given away.
Removable(j) ==
  deps[j] \ Exceeded(pass.assoc, j, held_queue[j], pass.released)

\* Variant: the pass gives up at the first job it cannot release.
KeepAndStop(j) ==
  /\ LooksAt(j)
  /\ Removable(j) # deps[j]
  /\ deps' = [deps EXCEPT ![j] = @ \ Removable(j)]
  /\ dependencies' = [dependencies EXCEPT ![j] = @ \ Removable(j)]
  /\ pass' = [pass EXCEPT !.at = Len(held_jobs[pass.assoc]) + 1]
  /\ UNCHANGED <<confVars, countVars, held_jobs, held_queue, state, jobspec,
                 posted, bank_info, job_info, call, sweep>>

\* Some limit is still exceeded: the job stays held, without those it is under.
Keep(j) ==
  LET removed == Removable(j)
  IN  /\ LooksAt(j)
      /\ removed # deps[j]
      /\ deps' = [deps EXCEPT ![j] = @ \ removed]
      /\ dependencies' = [dependencies EXCEPT ![j] = @ \ removed]
      /\ pass' = [pass EXCEPT !.at = @ + 1]
      /\ UNCHANGED <<confVars, countVars, held_jobs, held_queue, state, jobspec,
                     posted, bank_info, job_info, call, sweep>>

\* Variant: the job is erased before its callbacks have run.
ReleaseErased(j) ==
  /\ LooksAt(j)
  /\ Removable(j) = deps[j]
  /\ deps' = [deps EXCEPT ![j] = {}]
  /\ dependencies' = [dependencies EXCEPT ![j] = @ \ deps[j]]
  /\ call' = IF dependencies'[j] = {} THEN [cb |-> "priority", job |-> j] ELSE NULL
  /\ pass' = [pass EXCEPT !.job = j, !.removed = deps[j]]
  /\ held_jobs' = [held_jobs EXCEPT ![pass.assoc] = RemoveAt(@, pass.at)]
  /\ UNCHANGED <<confVars, countVars, held_queue, state, jobspec,
                 posted, bank_info, job_info, sweep>>

\* Its last dependency of ours goes: with no other, the job runs through
\* job.state.priority and job.state.sched before the loop goes on.
Release(j) ==
  LET removed == Removable(j)
  IN  /\ LooksAt(j)
      /\ removed = deps[j]
      /\ deps' = [deps EXCEPT ![j] = {}]
      /\ dependencies' = [dependencies EXCEPT ![j] = @ \ removed]
      /\ call' = IF dependencies'[j] = {} THEN [cb |-> "priority", job |-> j] ELSE NULL
      /\ pass' = [pass EXCEPT !.job = j, !.removed = removed]
      /\ UNCHANGED <<confVars, countVars, held_jobs, held_queue, state, jobspec,
                     posted, bank_info, job_info, sweep>>

\* The headroom given away with j: against the limits whose dependency it
\* carried, and against the SCHED limits only when it is not in SCHED yet,
\* where its own callback has counted it.
Given(r, j, q, removed) ==
  LET one(d) == IF d \in removed THEN 1 ELSE 0
      pending(d) == IF state[j] # "SCHED" THEN one(d) ELSE 0
      add(f, n) == [f EXCEPT ![q] = @ + n]
  IN  [assoc_run |-> r.assoc_run + one(D_ASSOC_MRJ),
       queue_run |-> add(r.queue_run, one(D_QUEUE_MRJ)),
       assoc_sched |-> r.assoc_sched + pending(D_ASSOC_MSJ),
       queue_sched |-> add(r.queue_sched, pending(D_QUEUE_MSJ)),
       queue_sched_nodes |->
         add(r.queue_sched_nodes, pending(D_QUEUE_MSN) * jobspec[j].nnodes),
       queue_sched_cores |->
         add(r.queue_sched_cores, pending(D_QUEUE_MSC) * jobspec[j].ncores)]

\* ... and the loop body ends: j is erased, the iterator is on its successor.
Commit(j) ==
  /\ pass # NULL /\ call = NULL /\ pass.job = j
  /\ pass' = [pass EXCEPT
       !.job = NULL, !.removed = {},
       !.released = Given(pass.released, j, held_queue[j], pass.removed)]
  /\ held_jobs' = [held_jobs EXCEPT ![pass.assoc] = RemoveAt(@, pass.at)]
  /\ held_queue' = [held_queue EXCEPT ![j] = NoQueue]
  /\ UNCHANGED <<confVars, countVars, deps, jobVars, call, sweep>>

EndPass ==
  /\ pass # NULL /\ call = NULL /\ pass.job = NULL
  /\ pass.at > Len(held_jobs[pass.assoc])
  /\ pass' = NULL
  /\ UNCHANGED <<confVars, countVars, heldVars, jobVars, call, sweep>>

-----------------------------------------------------------------------------
(* RPCs of flux account-priority-update *)

\* load_associations () over the limits it finds.
LoadedLimits(before, p) ==
  [a \in Assoc |-> IF a \in DOMAIN p.limits THEN p.limits[a] ELSE before[a]]

LoadedDefBank(before, p) ==
  [u \in Users |-> IF u \in DOMAIN p.def_bank THEN p.def_bank[u] ELSE before[u]]

\* load_queues (), which empties the map first.
LoadedQueues(p) == [q \in Queues |-> IF q \in DOMAIN p THEN p[q] ELSE NULL]

\* A payload without the two marks that max_run_jobs is also used for.
Ordinary(p) ==
  \A a \in DOMAIN p.limits : p.limits[a].max_run_jobs \notin {-1, BANK_INFO_MISSING}

\* rec_update: an association is added or overwritten, never removed, and what
\* it has counted and holds stays.
RecUpdate(p) ==
  /\ Idle
  /\ known' = known \cup DOMAIN p.limits
  /\ limits' = LoadedLimits(limits, p)
  /\ def_bank' = LoadedDefBank(def_bank, p)
  /\ UNCHANGED <<queues, projects, deny_unknown_queues, countVars, heldVars, jobVars,
                 runVars>>

RecQUpdate(p) ==
  /\ Idle
  /\ queues' = LoadedQueues(p)
  /\ UNCHANGED <<known, def_bank, limits, projects, deny_unknown_queues, countVars,
                 heldVars, jobVars, runVars>>

RecProjUpdate(p) ==
  /\ Idle
  /\ projects' = p
  /\ UNCHANGED <<known, def_bank, limits, queues, deny_unknown_queues, countVars,
                 heldVars, jobVars, runVars>>

RecConfigUpdate(deny) ==
  /\ Idle
  /\ deny_unknown_queues' = deny
  /\ UNCHANGED <<known, def_bank, limits, queues, projects, countVars, heldVars,
                 jobVars, runVars>>

\* reprioritize: a pass over every association that holds jobs.  Computing the
\* priorities anew changes nothing that is modelled here.
Reprioritize ==
  /\ Idle
  /\ sweep' = {a \in known : held_jobs[a] # <<>>}
  /\ sweep' # {}
  /\ UNCHANGED <<confVars, countVars, heldVars, jobVars, call, pass>>

ReprioritizeNext(a) ==
  /\ call = NULL /\ pass = NULL /\ a \in sweep
  /\ sweep' = sweep \ {a}
  /\ PassIfHeld(a, held_jobs[a])
  /\ UNCHANGED <<confVars, countVars, heldVars, jobVars, call>>

-----------------------------------------------------------------------------
InitCounts ==
  /\ cur_active_jobs = [a \in Assoc |-> 0]
  /\ cur_run_jobs = [a \in Assoc |-> 0]
  /\ cur_sched_jobs = [a \in Assoc |-> 0]
  /\ cur_nodes = [a \in Assoc |-> 0]
  /\ cur_cores = [a \in Assoc |-> 0]
  /\ queue_usage = [a \in Assoc |-> [q \in QueueNames |-> NothingUsed]]
  /\ held_jobs = [a \in Assoc |-> <<>>]
  /\ deps = [j \in Jobs |-> {}]
  /\ held_queue = [j \in Jobs |-> NoQueue]

InitJobs ==
  /\ state = [j \in Jobs |-> "UNSUBMITTED"]
  /\ jobspec = [j \in Jobs |-> NULL]
  /\ dependencies = [j \in Jobs |-> {}]
  /\ posted = [j \in Jobs |-> {}]
  /\ bank_info = [j \in Jobs |-> NULL]
  /\ job_info = [j \in Jobs |-> FALSE]
  /\ call = NULL /\ pass = NULL /\ sweep = {}

Init ==
  /\ \E p \in AssocPayloads :
       /\ Ordinary(p)
       /\ known = DOMAIN p.limits
       /\ limits = LoadedLimits([a \in Assoc |-> Blank], p)
       /\ def_bank = LoadedDefBank([u \in Users |-> NULL], p)
  /\ \E p \in QueuePayloads : queues = LoadedQueues(p)
  /\ projects \in ProjectPayloads
  /\ deny_unknown_queues = FALSE
  /\ InitCounts
  /\ InitJobs

\* Callbacks that are already due.
Callback(j) == Depend(j) \/ Priority(j) \/ Sched(j) \/ InactivePending(j)
                 \/ InactiveAllocated(j)

ReleasePass ==
  \/ \E j \in Jobs : Keep(j) \/ Release(j) \/ Commit(j)
  \/ EndPass
  \/ \E a \in Assoc : ReprioritizeNext(a)

Update ==
  \/ \E p \in AssocPayloads : Ordinary(p) /\ RecUpdate(p)
  \/ \E p \in QueuePayloads : RecQUpdate(p)
  \/ \E p \in ProjectPayloads : RecProjUpdate(p)
  \/ \E deny \in BOOLEAN : RecConfigUpdate(deny)
  \/ Reprioritize

Submit(j) == (\E r \in Requests : Validate(j, r)) \/ New(j) \/ NewRejected(j)

JobEvent(j) == AfterAnyDone(j) \/ Run(j) \/ Finish(j) \/ Cancel(j)

Next ==
  \/ \E j \in Jobs : Submit(j) \/ Callback(j) \/ JobEvent(j)
  \/ ReleasePass
  \/ Update

Spec == Init /\ [][Next]_vars

\* The set of job ids is finite: once all are used up nothing is left to do.
JobsUsedUp == Idle /\ (\A j \in Jobs : state[j] = "INACTIVE") /\ UNCHANGED vars

\* The same with the limits left as they are.
StaticNext ==
  \/ \E j \in Jobs : Submit(j) \/ Callback(j) \/ JobEvent(j)
  \/ ReleasePass
  \/ Reprioritize
  \/ JobsUsedUp

StaticSpec == Init /\ [][StaticNext]_vars

\* Callbacks that are due run.  The job manager takes events in the order they
\* arrive, so one that is ready comes through however many others do: the
\* scheduler allocates every job in the end and jobs end.  Nobody has to submit,
\* cancel or send an RPC.
Fairness ==
  /\ WF_vars(ReleasePass)
  /\ \A j \in Jobs :
       SF_vars(New(j) \/ Callback(j) \/ Run(j) \/ Finish(j) \/ AfterAnyDone(j))

FairSpec == StaticSpec /\ Fairness

-----------------------------------------------------------------------------
(* Properties *)

\* The values the variables range over.
TypeOK ==
  /\ known \subseteq Assoc
  /\ def_bank \in [Users -> BankNames \cup {NULL}]
  /\ limits \in [Assoc -> Limits]
  /\ queues \in [Queues -> Queue \cup {NULL}]
  /\ projects \subseteq Projects
  /\ deny_unknown_queues \in BOOLEAN
  /\ cur_active_jobs \in [Assoc -> Int]
  /\ cur_run_jobs \in [Assoc -> Int]
  /\ cur_sched_jobs \in [Assoc -> Int]
  /\ cur_nodes \in [Assoc -> Int]
  /\ cur_cores \in [Assoc -> Int]
  /\ queue_usage \in [Assoc -> [QueueNames -> QueueUsage]]
  /\ held_jobs \in [Assoc -> Seq(Jobs)]
  /\ deps \in [Jobs -> SUBSET Dep]
  /\ held_queue \in [Jobs -> QueueNames]
  /\ state \in [Jobs -> JobState]
  /\ jobspec \in [Jobs -> Request \cup {NULL}]
  /\ dependencies \in [Jobs -> SUBSET (Dep \cup {AfterAny})]
  /\ posted \in [Jobs -> SUBSET {"priority", "alloc"}]
  /\ bank_info \in [Jobs -> Assoc \cup {NULL}]
  /\ job_info \in [Jobs -> BOOLEAN]
  /\ call \in Call \cup {NULL}
  /\ pass \in Pass \cup {NULL}
  /\ sweep \subseteq Assoc

\* How far a job is, in flux-core's eyes, and what the plugin has attached to it
\* go together: an active job has its association and its Job, the events that
\* inactive_cb () reads off the eventlog are those of the states it has been in,
\* and a callback finds the job in the state it is for.
JobsConsistent ==
  \A j \in Jobs :
    /\ state[j] # "UNSUBMITTED" => jobspec[j] # NULL
    /\ IF state[j] \in {"UNSUBMITTED", "NEW"} THEN bank_info[j] = NULL
       ELSE bank_info[j] # NULL /\ job_info[j]
    /\ state[j] \in {"UNSUBMITTED", "NEW", "DEPEND", "PRIORITY"} => posted[j] = {}
    /\ state[j] = "SCHED" => posted[j] = {"priority"}
    /\ state[j] = "RUN" => posted[j] = {"priority", "alloc"}
    /\ state[j] = "PRIORITY" => call = [cb |-> "sched", job |-> j]
    /\ call = [cb |-> "depend", job |-> j] => state[j] = "DEPEND"
    /\ call = [cb |-> "priority", job |-> j] => state[j] = "DEPEND"
    /\ call = [cb |-> "sched", job |-> j] => state[j] = "PRIORITY"
    /\ call = [cb |-> "inactive", job |-> j] => state[j] = "CLEANUP" /\ posted[j] = {}

\* The jobs an association answers for: all that are active, those that have
\* run or run, and those that wait, or waited when cancelled, for the scheduler.
ActiveJobs(a) ==
  {j \in Jobs : bank_info[j] = a /\ state[j] \notin {"UNSUBMITTED", "NEW", "INACTIVE"}}
RunJobs(a) == {j \in ActiveJobs(a) : "alloc" \in posted[j]}
SchedJobs(a) ==
  {j \in ActiveJobs(a) : "priority" \in posted[j] /\ "alloc" \notin posted[j]}

\* What the counters of an Association say is what its jobs are doing: over any
\* interleaving of callbacks, releases, cancellations and updates no job is
\* counted twice, forgotten or taken off twice (new_cb, sched_cb, run_cb,
\* inactive_cb).
JobCountsExact ==
  \A a \in Assoc :
    /\ cur_active_jobs[a] = Cardinality(ActiveJobs(a))
    /\ cur_run_jobs[a] = Cardinality(RunJobs(a))
    /\ cur_sched_jobs[a] = Cardinality(SchedJobs(a))

Nodes(S) == SumFunctionOnSet([j \in S |-> jobspec[j].nnodes], S)
Cores(S) == SumFunctionOnSet([j \in S |-> jobspec[j].ncores], S)
In(S, q) == {j \in S : jobspec[j].queue = q}

\* The same of nodes and cores, of an association and of each of its queues.
\* What runs outside any queue is counted for the association only.
ResourceCountsExact ==
  \A a \in Assoc :
    /\ cur_nodes[a] = Nodes(RunJobs(a))
    /\ cur_cores[a] = Cores(RunJobs(a))
    /\ \A q \in QueueNames :
         LET use == queue_usage[a][q]
             running == IF q = NoQueue THEN {} ELSE In(RunJobs(a), q)
             waiting == In(SchedJobs(a), q)
         IN  /\ use.cur_run_jobs = Cardinality(running)
             /\ use.cur_nodes = Nodes(running)
             /\ use.cur_sched_jobs = Cardinality(waiting)
             /\ use.cur_sched_nodes = Nodes(waiting)
             /\ use.cur_sched_cores = Cores(waiting)

\* The job whose release the pass has still to book.
Releasing(j) == pass # NULL /\ pass.job = j

HeldBy(a) == ToSet(held_jobs[a])

\* flux-core and the plugin agree on who is held: a job that carries one of the
\* plugin's dependencies is in the held_jobs of its own association, once, with
\* just those dependencies, and nothing else is in there.  Otherwise nobody
\* would ever take the dependency off the job, or a pass would try to take one
\* off a job that has none.
DependentsAreHeld ==
  \A j \in Jobs :
    /\ state[j] = "DEPEND" /\ dependencies[j] \cap Dep # {} => j \in HeldBy(bank_info[j])
    /\ state[j] \in {"UNSUBMITTED", "NEW"} \/ call = [cb |-> "depend", job |-> j] \/ Releasing(j)
         => dependencies[j] \cap Dep = {}
    /\ call = [cb |-> "priority", job |-> j] => dependencies[j] = {}

HeldAreDependents ==
  \A a \in Assoc : \A j \in HeldBy(a) :
    /\ bank_info[j] = a /\ held_queue[j] = jobspec[j].queue
    /\ \/ state[j] = "DEPEND" /\ deps[j] # {} /\ deps[j] = dependencies[j] \cap Dep
       \/ call = [cb |-> "inactive", job |-> j]
       \/ Releasing(j)

HeldJobsConsistent ==
  /\ DependentsAreHeld
  /\ HeldAreDependents
  /\ \A a \in Assoc : IsInjective(held_jobs[a])

\* The callbacks that run inside the loop are those of the job it has just
\* released, and they leave its iterator on that job: the erase () that follows
\* takes out that job and no other.
IteratorValid ==
  pass # NULL =>
    /\ call # NULL => call.cb \in {"priority", "sched"} /\ call.job = pass.job
    /\ pass.job # NULL => /\ pass.at \in 1..Len(held_jobs[pass.assoc])
                         /\ held_jobs[pass.assoc][pass.at] = pass.job

\* An association is only ever taken up to its max_active_jobs, although
\* several jobs may have passed job.validate before the first reaches job.new.
ActiveLimitKept ==
  [][\A a \in Assoc :
       cur_active_jobs'[a] > cur_active_jobs[a] /\ limits[a].max_active_jobs > 0
         => cur_active_jobs'[a] <= limits[a].max_active_jobs]_vars

\* max_sched_jobs: "the max number of jobs in SCHED state an association can have".
SchedLimitKept ==
  \A a \in known : cur_sched_jobs[a] <= limits[a].max_sched_jobs

\* The limits of a queue on what an association has waiting in it, and on the
\* nodes it has waiting or running in it.
QueueLimitsKept ==
  \A a \in known, q \in Queues : KnownQueue(q) =>
    LET use == queue_usage[a][q]
    IN  /\ use.cur_sched_jobs <= queues[q].max_sched_jobs
        /\ use.cur_sched_nodes <= queues[q].max_sched_nodes_per_assoc
        /\ use.cur_sched_cores <= queues[q].max_sched_cores_per_assoc
        /\ use.cur_nodes + use.cur_sched_nodes <= queues[q].max_nodes_per_assoc

\* No job is held by limits that have room for it: whenever headroom appears, by
\* a job starting, ending or being cancelled, some pass takes it up.
HeldForAReason ==
  Idle => \A a \in Assoc : \A i \in DOMAIN held_jobs[a] :
            LET j == held_jobs[a][i]
            IN  deps[j] \cap Exceeded(a, j, held_queue[j], NothingReleased) # {}

\* The last three hold where a job in DEPEND is only ever over limit d, one of
\* those that count jobs waiting for the scheduler, and carries no dependency
\* but the plugin's: a held job is not compared with other limits when its own
\* lets it go, nor any job again when another dependency of its goes away.
SchedDep == {D_ASSOC_MSJ, D_QUEUE_MSJ, D_QUEUE_MSN, D_QUEUE_MSC, D_QUEUE_MRES}
OneLimit(d) ==
  \A j \in Jobs : state[j] = "DEPEND" =>
    Exceeded(bank_info[j], j, jobspec[j].queue, NothingReleased) \subseteq {d}
NoAfterAny == \A r \in Requests : ~r.afterany

\* Nobody configures a limit below zero.
LimitsAreCounts ==
  /\ \A p \in AssocPayloads : \A a \in DOMAIN p.limits : p.limits[a].max_sched_jobs >= 0
  /\ \A p \in QueuePayloads : \A q \in DOMAIN p :
       /\ p[q].max_sched_jobs >= 0 /\ p[q].max_nodes_per_assoc >= 0
       /\ p[q].max_sched_nodes_per_assoc >= 0 /\ p[q].max_sched_cores_per_assoc >= 0

\* "Any subsequently submitted jobs will be held" until one of the running jobs
\* finishes, and no longer: no job stays in DEPEND for ever.
HeldJobsLeave ==
  \A j \in Jobs : state[j] = "DEPEND" ~> state[j] # "DEPEND"

=============================================================================
