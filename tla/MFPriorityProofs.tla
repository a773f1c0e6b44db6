--------------------------- MODULE MFPriorityProofs ---------------------------
(***************************************************************************)
(* Proofs about MFPriority for every set of users, banks, queues and jobs, *)
(* and every configuration of limits: which jobs are where, then the       *)
(* counters, then the limits on waiting jobs.                              *)
(***************************************************************************)
EXTENDS MFPriority, SumProofs

-----------------------------------------------------------------------------
(* Sequences *)

\* Taking one entry out of a sequence leaves a sequence over the same set.
LEMMA RemoveAtType ==
  ASSUME NEW S, NEW s \in Seq(S), NEW i \in 1..Len(s)
  PROVE  RemoveAt(s, i) \in Seq(S)
  BY DEF RemoveAt

LEMMA AppendType ==
  ASSUME NEW S, NEW s \in Seq(S), NEW j \in S
  PROVE  Append(s, j) \in Seq(S)
  OBVIOUS

\* A function changed at one argument keeps its type.
LEMMA ExceptType ==
  ASSUME NEW D, NEW R, NEW f \in [D -> R], NEW d \in D, NEW v \in R
  PROVE  [f EXCEPT ![d] = v] \in [D -> R]
  OBVIOUS

LEMMA EraseType ==
  ASSUME NEW S, NEW s \in Seq(S), NEW j
  PROVE  Erase(s, j) \in Seq(S)
<1>1. CASE Contains(s, j)
  <2>1. \E i \in DOMAIN s : s[i] = j
    BY <1>1 DEF Contains
  <2>2. (CHOOSE i \in DOMAIN s : s[i] = j) \in 1..Len(s)
    BY <2>1
  <2> QED BY <1>1, <2>2, RemoveAtType DEF Erase
<1>2. CASE ~Contains(s, j)
  BY <1>2 DEF Erase
<1> QED BY <1>1, <1>2

\* What the vector of held jobs is after push_back () of a job it does not hold.
LEMMA AppendHeld ==
  ASSUME NEW S, NEW s \in Seq(S), NEW j \in S
  PROVE  /\ ToSet(Append(s, j)) = ToSet(s) \cup {j}
         /\ IsInjective(s) /\ j \notin ToSet(s) => IsInjective(Append(s, j))
<1>1. /\ Len(Append(s, j)) = Len(s) + 1
      /\ DOMAIN Append(s, j) = 1..(Len(s) + 1) /\ DOMAIN s = 1..Len(s)
      /\ \A i \in 1..Len(s) : Append(s, j)[i] = s[i]
      /\ Append(s, j)[Len(s) + 1] = j
  OBVIOUS
<1>2. DOMAIN Append(s, j) = DOMAIN s \cup {Len(s) + 1} /\ Len(s) + 1 \notin DOMAIN s
  BY <1>1
<1>3. ToSet(Append(s, j)) = ToSet(s) \cup {j}
  BY <1>1, <1>2, ZenonT(60) DEF ToSet
<1>4. ASSUME IsInjective(s), j \notin ToSet(s) PROVE IsInjective(Append(s, j))
  BY <1>1, <1>2, <1>4, ZenonT(60) DEF ToSet, IsInjective
<1> QED BY <1>3, <1>4

\* ... and after erase () of one entry.
LEMMA RemoveAtHeld ==
  ASSUME NEW S, NEW s \in Seq(S), IsInjective(s), NEW i \in 1..Len(s)
  PROVE  ToSet(RemoveAt(s, i)) = ToSet(s) \ {s[i]} /\ IsInjective(RemoveAt(s, i))
<1> DEFINE t == RemoveAt(s, i)
           old(k) == IF k < i THEN k ELSE k + 1
<1>1. /\ DOMAIN s = 1..Len(s) /\ Len(s) \in Nat
      /\ DOMAIN t = 1..(Len(s) - 1)
      /\ \A k \in 1..(Len(s) - 1) : t[k] = s[old(k)]
  <2> DEFINE u == SubSeq(s, 1, i - 1)  v == SubSeq(s, i + 1, Len(s))
  <2>1. /\ u \in Seq(S) /\ Len(u) = i - 1 /\ \A k \in 1..(i - 1) : u[k] = s[k]
        /\ v \in Seq(S) /\ Len(v) = Len(s) - i /\ \A k \in 1..(Len(s) - i) : v[k] = s[i + k]
    OBVIOUS
  <2>2. t = u \o v
    BY DEF RemoveAt
  <2> HIDE DEF t, u, v
  <2>3. t \in Seq(S) /\ Len(t) = Len(s) - 1
    BY <2>1, <2>2, SMTT(40)
  <2>4. ASSUME NEW k \in 1..(Len(s) - 1) PROVE t[k] = s[old(k)]
    <3>1. CASE k < i
      BY <2>1, <2>2, <3>1
    <3>2. CASE k >= i
      <4>1. t[k] = v[k - (i - 1)]
        BY <2>1, <2>2, <3>2, SMTT(40)
      <4>2. k - (i - 1) \in 1..(Len(s) - i) /\ i + (k - (i - 1)) = k + 1
        BY <3>2
      <4> QED BY <2>1, <3>2, <4>1, <4>2
    <3> QED BY <3>1, <3>2
  <2> QED BY <2>3, <2>4
<1>2. \A k \in DOMAIN t : old(k) \in DOMAIN s \ {i}
  BY <1>1
<1>3. \A k, l \in DOMAIN t : old(k) = old(l) => k = l
  BY <1>1
<1>4. \A m \in DOMAIN s \ {i} : \E k \in DOMAIN t : old(k) = m
  <2> SUFFICES ASSUME NEW m \in DOMAIN s \ {i} PROVE \E k \in DOMAIN t : old(k) = m
    OBVIOUS
  <2>1. CASE m < i
    BY <1>1, <2>1
  <2>2. CASE m > i
    <3>1. m - 1 \in DOMAIN t /\ old(m - 1) = m
      BY <1>1, <2>2
    <3> QED BY <3>1
  <2> QED BY <1>1, <2>1, <2>2
<1> HIDE DEF t, old
<1>5. \A k \in DOMAIN t : t[k] = s[old(k)]
  BY <1>1
<1>6. ToSet(t) = {s[m] : m \in DOMAIN s \ {i}}
  <2>1. ASSUME NEW x \in ToSet(t) PROVE x \in {s[m] : m \in DOMAIN s \ {i}}
    BY <1>2, <1>5, Zenon DEF ToSet
  <2>2. ASSUME NEW m \in DOMAIN s \ {i} PROVE s[m] \in ToSet(t)
    <3>1. PICK k \in DOMAIN t : old(k) = m
      BY <1>4
    <3>2. t[k] = s[m]
      BY <1>5, <3>1
    <3> QED BY <3>2, Zenon DEF ToSet
  <2> QED BY <2>1, <2>2
<1>7. {s[m] : m \in DOMAIN s \ {i}} = ToSet(s) \ {s[i]}
  BY <1>1, Zenon DEF ToSet, IsInjective
<1>8. IsInjective(t)
  BY <1>2, <1>3, <1>5 DEF IsInjective
<1> QED BY <1>6, <1>7, <1>8 DEF t

LEMMA EraseHeld ==
  ASSUME NEW S, NEW s \in Seq(S), IsInjective(s), NEW j
  PROVE  ToSet(Erase(s, j)) = ToSet(s) \ {j} /\ IsInjective(Erase(s, j))
<1>1. CASE Contains(s, j)
  <2> DEFINE i == CHOOSE k \in DOMAIN s : s[k] = j
  <2>1. i \in 1..Len(s) /\ s[i] = j
    BY <1>1 DEF Contains
  <2> HIDE DEF i
  <2>2. Erase(s, j) = RemoveAt(s, i)
    BY <1>1 DEF Erase, i
  <2> QED BY <2>1, <2>2, RemoveAtHeld
<1>2. CASE ~Contains(s, j)
  <2>1. j \notin ToSet(s)
    BY <1>2 DEF Contains, ToSet
  <2> QED BY <1>2, <2>1 DEF Erase
<1> QED BY <1>1, <1>2

-----------------------------------------------------------------------------
(* Types *)

LEMMA InitType == Init => TypeOK
<1> SUFFICES ASSUME Init PROVE TypeOK
  OBVIOUS
<1> USE DEF Init, InitCounts, InitJobs, TypeOK
<1>1. PICK p \in AssocPayloads :
        /\ known = DOMAIN p.limits
        /\ limits = LoadedLimits([a \in Assoc |-> Blank], p)
        /\ def_bank = LoadedDefBank([u \in Users |-> NULL], p)
  OBVIOUS
<1>2. known \subseteq Assoc
  BY <1>1, PayloadAssumption DEF Assoc, BankNames
<1>3. Blank \in Limits
  BY DEF Blank, Limits
<1>4. limits \in [Assoc -> Limits]
  BY <1>1, <1>3, PayloadAssumption DEF LoadedLimits
<1>5. def_bank \in [Users -> BankNames \cup {NULL}]
  BY <1>1, PayloadAssumption DEF LoadedDefBank, BankNames
<1>6. queues \in [Queues -> Queue \cup {NULL}]
  BY PayloadAssumption DEF LoadedQueues
<1>7. projects \subseteq Projects
  BY PayloadAssumption
<1>8. queue_usage \in [Assoc -> [QueueNames -> QueueUsage]]
  BY DEF NothingUsed, QueueUsage
<1>9. held_jobs \in [Assoc -> Seq(Jobs)] /\ held_queue \in [Jobs -> QueueNames]
  BY DEF QueueNames
<1>10. state \in [Jobs -> JobState]
  BY DEF JobState
<1>11. deps \in [Jobs -> SUBSET Dep] /\ dependencies \in [Jobs -> SUBSET (Dep \cup {AfterAny})]
  OBVIOUS
<1>12. posted \in [Jobs -> SUBSET {"priority", "alloc"}]
  OBVIOUS
<1>13. deny_unknown_queues \in BOOLEAN /\ job_info \in [Jobs -> BOOLEAN]
  OBVIOUS
<1>14. call \in Call \cup {NULL} /\ pass \in Pass \cup {NULL} /\ sweep \subseteq Assoc
  OBVIOUS
<1>15. jobspec \in [Jobs -> Request \cup {NULL}] /\ bank_info \in [Jobs -> Assoc \cup {NULL}]
  OBVIOUS
<1>16. /\ cur_active_jobs \in [Assoc -> Int] /\ cur_run_jobs \in [Assoc -> Int]
       /\ cur_sched_jobs \in [Assoc -> Int]
       /\ cur_nodes \in [Assoc -> Int] /\ cur_cores \in [Assoc -> Int]
  OBVIOUS
<1> QED
  BY <1>2, <1>4, <1>5, <1>6, <1>7, <1>8, <1>9, <1>10, <1>11, <1>12, <1>13, <1>14,
     <1>15, <1>16

\* What starts or stops counting in a queue is still a usage record.
LEMMA UsageType ==
  ASSUME NEW use \in QueueUsage, NEW q, NEW j \in Jobs,
         jobspec[j].nnodes \in Int, jobspec[j].ncores \in Int
  PROVE  /\ EnteredSched(use, j) \in QueueUsage /\ LeftSched(use, j) \in QueueUsage
         /\ StartedIn(use, q, j) \in QueueUsage /\ StoppedIn(use, q, j) \in QueueUsage
<1>1. ASSUME NEW jobs \in Int, NEW nodes \in Int, NEW cores \in Int
      PROVE  /\ [use EXCEPT !.cur_sched_jobs = jobs, !.cur_sched_nodes = nodes,
                            !.cur_sched_cores = cores] \in QueueUsage
             /\ [use EXCEPT !.cur_run_jobs = jobs, !.cur_nodes = nodes] \in QueueUsage
  BY DEF QueueUsage
<1>2. /\ use.cur_sched_jobs \in Int /\ use.cur_sched_nodes \in Int
      /\ use.cur_sched_cores \in Int /\ use.cur_run_jobs \in Int /\ use.cur_nodes \in Int
  BY DEF QueueUsage
<1>3. EnteredSched(use, j) \in QueueUsage
  <2> DEFINE jobs == use.cur_sched_jobs + 1
             nodes == use.cur_sched_nodes + jobspec[j].nnodes
             cores == use.cur_sched_cores + jobspec[j].ncores
  <2>1. jobs \in Int /\ nodes \in Int /\ cores \in Int
    BY <1>2
  <2> HIDE DEF jobs, nodes, cores
  <2> QED BY <1>1, <2>1 DEF EnteredSched, jobs, nodes, cores
<1>4. LeftSched(use, j) \in QueueUsage
  <2> DEFINE jobs == use.cur_sched_jobs - 1
             nodes == use.cur_sched_nodes - jobspec[j].nnodes
             cores == use.cur_sched_cores - jobspec[j].ncores
  <2>1. jobs \in Int /\ nodes \in Int /\ cores \in Int
    BY <1>2
  <2> HIDE DEF jobs, nodes, cores
  <2> QED BY <1>1, <2>1 DEF LeftSched, jobs, nodes, cores
<1>5. StartedIn(use, q, j) \in QueueUsage
  <2> DEFINE jobs == use.cur_run_jobs + 1
             nodes == use.cur_nodes + jobspec[j].nnodes
  <2>1. jobs \in Int /\ nodes \in Int
    BY <1>2
  <2> HIDE DEF jobs, nodes
  <2> QED BY <1>1, <2>1 DEF StartedIn, jobs, nodes
<1>6. StoppedIn(use, q, j) \in QueueUsage
  <2> DEFINE jobs == IF use.cur_run_jobs > 0 THEN use.cur_run_jobs - 1 ELSE use.cur_run_jobs
             nodes == use.cur_nodes - jobspec[j].nnodes
  <2>1. jobs \in Int /\ nodes \in Int
    BY <1>2
  <2> HIDE DEF jobs, nodes
  <2> QED BY <1>1, <2>1 DEF StoppedIn, jobs, nodes
<1> QED BY <1>3, <1>4, <1>5, <1>6

\* Changing the usage of one queue of one association.
LEMMA UsageTableType ==
  ASSUME NEW table \in [Assoc -> [QueueNames -> QueueUsage]],
         NEW a \in Assoc, NEW q \in QueueNames, NEW use \in QueueUsage
  PROVE  [table EXCEPT ![a][q] = use] \in [Assoc -> [QueueNames -> QueueUsage]]
  OBVIOUS

\* Booking a release keeps the tally of what a pass gave away well formed.
LEMMA GivenType ==
  ASSUME NEW r \in Released, NEW j \in Jobs, NEW q \in QueueNames, NEW removed,
         jobspec[j].nnodes \in Int, jobspec[j].ncores \in Int
  PROVE  Given(r, j, q, removed) \in Released
<1> DEFINE one(d) == IF d \in removed THEN 1 ELSE 0
           pending(d) == IF state[j] # "SCHED" THEN one(d) ELSE 0
<1>1. \A d : one(d) \in Int /\ pending(d) \in Int
  OBVIOUS
<1>2. /\ r.assoc_run + one(D_ASSOC_MRJ) \in Int
      /\ r.assoc_sched + pending(D_ASSOC_MSJ) \in Int
      /\ r.queue_run[q] + one(D_QUEUE_MRJ) \in Int
      /\ r.queue_sched[q] + pending(D_QUEUE_MSJ) \in Int
      /\ r.queue_sched_nodes[q] + pending(D_QUEUE_MSN) * jobspec[j].nnodes \in Int
      /\ r.queue_sched_cores[q] + pending(D_QUEUE_MSC) * jobspec[j].ncores \in Int
  BY <1>1 DEF Released
<1> QED BY <1>2 DEF Given, Released

LEMMA StartPassType ==
  ASSUME NEW a \in Assoc PROVE StartPass(a) \in Pass
  BY DEF StartPass, Pass, NothingReleased, Released

\* What a callback can rely on: a job beyond job.new has all it needs.
LEMMA AttachedJob ==
  ASSUME TypeOK, JobsConsistent, NEW j \in Jobs, state[j] \notin {"UNSUBMITTED", "NEW"}
  PROVE  /\ bank_info[j] \in Assoc /\ jobspec[j] \in Request
         /\ jobspec[j].queue \in QueueNames
         /\ jobspec[j].nnodes \in Int /\ jobspec[j].ncores \in Int
<1>1. bank_info[j] \in Assoc /\ jobspec[j] \in Request
  BY DEF TypeOK, JobsConsistent
<1> QED BY <1>1 DEF Request

\* What job.new leaves: a known association, and a jobspec with a bank in it.
LEMMA NewJobspecType ==
  ASSUME TypeOK, JobsConsistent, NEW j \in Jobs, New(j)
  PROVE  /\ NewAssociation(j) \in Assoc /\ state[j] = "NEW" /\ bank_info[j] = NULL
         /\ jobspec' = NewJobspec(j) /\ jobspec' \in [Jobs -> Request \cup {NULL}]
         /\ jobspec'[j] \in Request /\ jobspec'[j].queue = jobspec[j].queue
         /\ jobspec'[j].nnodes = jobspec[j].nnodes /\ jobspec'[j].ncores = jobspec[j].ncores
         /\ \A i \in Jobs \ {j} : jobspec'[i] = jobspec[i]
<1> DEFINE a == NewAssociation(j)
           default == [jobspec[j] EXCEPT !.bank = def_bank[jobspec[j].user]]
<1>1. state[j] = "NEW" /\ a # NULL /\ bank_info[j] = NULL /\ jobspec[j] \in Request
  BY DEF TypeOK, New, JobsConsistent
<1>2. a \in known
  BY <1>1 DEF NewAssociation, GetAssociation
<1>3. a \in Assoc
  BY <1>2 DEF TypeOK
<1>4. jobspec[j].bank = NULL => def_bank[jobspec[j].user] \in BankNames
  BY <1>1, <1>2, <1>3 DEF NewAssociation, GetAssociation, Assoc
<1>5. jobspec[j].bank = NULL =>
        /\ default \in Request /\ default.queue = jobspec[j].queue
        /\ default.nnodes = jobspec[j].nnodes /\ default.ncores = jobspec[j].ncores
  BY <1>1, <1>4 DEF Request
<1>6. jobspec' = NewJobspec(j)
  BY DEF New, Attach
<1>7. jobspec \in [Jobs -> Request \cup {NULL}]
  BY DEF TypeOK
<1> HIDE DEF a
<1>8. jobspec' = IF jobspec[j].bank = NULL THEN [jobspec EXCEPT ![j] = default] ELSE jobspec
  BY <1>1, <1>6, <1>7 DEF NewJobspec
<1> HIDE DEF default
<1> QED BY <1>1, <1>3, <1>5, <1>6, <1>7, <1>8 DEF a

\* The strengthening that makes type correctness inductive.
IInv == TypeOK /\ JobsConsistent /\ HeldJobsConsistent /\ IteratorValid

\* What a job uses is added to or taken from integers.
LEMMA CountResourcesType ==
  ASSUME TypeOK, NEW a \in Assoc, NEW j \in Jobs, NEW s \in Int,
         jobspec[j].nnodes \in Int, jobspec[j].ncores \in Int, CountResources(a, j, s)
  PROVE  cur_nodes' \in [Assoc -> Int] /\ cur_cores' \in [Assoc -> Int]
<1> DEFINE n == s * jobspec[j].nnodes  c == s * jobspec[j].ncores
<1>1. n \in Int /\ c \in Int
  OBVIOUS
<1>2. cur_nodes \in [Assoc -> Int] /\ cur_cores \in [Assoc -> Int]
  BY DEF TypeOK
<1>3. /\ cur_nodes' = [cur_nodes EXCEPT ![a] = cur_nodes[a] + n]
      /\ cur_cores' = [cur_cores EXCEPT ![a] = cur_cores[a] + c]
  BY DEF CountResources
<1> HIDE DEF n, c
<1> QED BY <1>1, <1>2, <1>3

LEMMA NextType ==
  IInv /\ [Next]_vars => TypeOK'
<1> SUFFICES ASSUME TypeOK, JobsConsistent, HeldJobsConsistent, IteratorValid, [Next]_vars
             PROVE  TypeOK'
  BY DEF IInv
<1> USE DEF TypeOK, confVars, countVars, heldVars, jobVars, runVars
<1>1. ASSUME NEW j \in Jobs, NEW r \in Requests, Validate(j, r) PROVE TypeOK'
  BY <1>1, NamesAssumption DEF Validate, Accept, JobState
<1>2. ASSUME NEW j \in Jobs, New(j) PROVE TypeOK'
  <2> DEFINE a == NewAssociation(j)
  <2>1. a \in Assoc /\ jobspec' \in [Jobs -> Request \cup {NULL}]
    BY <1>2, NewJobspecType
  <2> HIDE DEF a
  <2>2. bank_info' \in [Jobs -> Assoc \cup {NULL}] /\ cur_active_jobs' \in [Assoc -> Int]
    BY <1>2, <2>1 DEF New, Attach, a
  <2> QED BY <1>2, <2>1, <2>2 DEF New, Attach, JobState, Call
<1>3. ASSUME NEW j \in Jobs, NewRejected(j) PROVE TypeOK'
  BY <1>3 DEF NewRejected, JobState
<1>4. ASSUME NEW j \in Jobs, Depend(j) PROVE TypeOK'
  <2>1. state[j] = "DEPEND"
    BY <1>4 DEF Depend, JobsConsistent
  <2>2. bank_info[j] \in Assoc /\ jobspec[j].queue \in QueueNames
    BY <2>1, AttachedJob
  <2> DEFINE ex == Exceeded(bank_info[j], j, jobspec[j].queue, NothingReleased)
  <2>3. ex \subseteq Dep
    BY DEF Exceeded
  <2>4. /\ dependencies' = [dependencies EXCEPT ![j] = dependencies[j] \cup ex]
        /\ \/ UNCHANGED heldVars
           \/ /\ held_jobs' = [held_jobs EXCEPT
                               ![bank_info[j]] = Append(held_jobs[bank_info[j]], j)]
              /\ deps' = [deps EXCEPT ![j] = ex]
              /\ held_queue' = [held_queue EXCEPT ![j] = jobspec[j].queue]
        /\ call' = NULL \/ call' = [cb |-> "priority", job |-> j]
    BY <1>4 DEF Depend
  <2> HIDE DEF ex
  <2>5. held_jobs' \in [Assoc -> Seq(Jobs)]
    <3>1. held_jobs \in [Assoc -> Seq(Jobs)]
      OBVIOUS
    <3>2. Append(held_jobs[bank_info[j]], j) \in Seq(Jobs)
      BY <2>2, <3>1, AppendType
    <3>3. \/ held_jobs' = held_jobs
          \/ held_jobs' = [held_jobs EXCEPT
                            ![bank_info[j]] = Append(held_jobs[bank_info[j]], j)]
      BY <2>4
    <3> HIDE DEF TypeOK
    <3> QED BY <2>2, <3>1, <3>2, <3>3
  <2>6. deps' \in [Jobs -> SUBSET Dep]
    <3>1. deps' = deps \/ deps' = [deps EXCEPT ![j] = ex]
      BY <2>4
    <3> QED BY <2>3, <3>1
  <2>7. dependencies' \in [Jobs -> SUBSET (Dep \cup {AfterAny})]
    <3>1. dependencies' = [dependencies EXCEPT ![j] = dependencies[j] \cup ex]
      BY <2>4
    <3>2. dependencies[j] \cup ex \in SUBSET (Dep \cup {AfterAny})
      BY <2>3
    <3> QED BY <3>1, <3>2
  <2>8. held_queue' \in [Jobs -> QueueNames]
    <3>1. held_queue' = held_queue \/ held_queue' = [held_queue EXCEPT ![j] = jobspec[j].queue]
      BY <2>4
    <3> QED BY <2>2, <3>1
  <2>9. call' \in Call \cup {NULL}
    BY <2>4 DEF Call
  <2> QED BY <1>4, <2>5, <2>6, <2>7, <2>8, <2>9 DEF Depend
<1>5. ASSUME NEW j \in Jobs, Priority(j) PROVE TypeOK'
  BY <1>5 DEF Priority, Prioritized, JobState, Call
<1>6. ASSUME NEW j \in Jobs, Sched(j) PROVE TypeOK'
  <2> DEFINE a == bank_info[j]  q == jobspec[j].queue
  <2>1. state[j] = "PRIORITY"
    BY <1>6 DEF Sched, JobsConsistent
  <2>2. /\ a \in Assoc /\ q \in QueueNames
        /\ jobspec[j].nnodes \in Int /\ jobspec[j].ncores \in Int
    BY <2>1, AttachedJob
  <2>5. queue_usage[a][q] \in QueueUsage
    BY <2>2
  <2>3. EnteredSched(queue_usage[a][q], j) \in QueueUsage
    BY <2>2, <2>5, UsageType
  <2>4. queue_usage' \in [Assoc -> [QueueNames -> QueueUsage]]
    BY <1>6, <2>2, <2>3, UsageTableType DEF Sched
  <2> QED BY <1>6, <2>4 DEF Sched, JobState
<1>7. ASSUME NEW j \in Jobs, Run(j) PROVE TypeOK'
  <2> DEFINE a == bank_info[j]  q == jobspec[j].queue
  <2>1. /\ a \in Assoc /\ q \in QueueNames /\ queue_usage[a][q] \in QueueUsage
        /\ jobspec[j].nnodes \in Int /\ jobspec[j].ncores \in Int
    BY <1>7, AttachedJob DEF Run
  <2>2. LeftSched(StartedIn(queue_usage[a][q], q, j), j) \in QueueUsage
    <3>1. StartedIn(queue_usage[a][q], q, j) \in QueueUsage
      BY <2>1, UsageType
    <3> QED BY <2>1, <3>1, UsageType
  <2>3. queue_usage' \in [Assoc -> [QueueNames -> QueueUsage]]
    BY <1>7, <2>1, <2>2, UsageTableType DEF Run
  <2>4. cur_nodes' \in [Assoc -> Int] /\ cur_cores' \in [Assoc -> Int]
    <3>1. CountResources(a, j, 1)
      BY <1>7 DEF Run
    <3> QED BY <2>1, <3>1, CountResourcesType
  <2>5. pass' \in Pass \cup {NULL}
    BY <1>7, <2>1, StartPassType DEF Run, PassIfHeld
  <2> QED BY <1>7, <2>3, <2>4, <2>5 DEF Run, JobState
<1>8. ASSUME NEW j \in Jobs, Finish(j) PROVE TypeOK'
  BY <1>8 DEF Finish, JobState
<1>9. ASSUME NEW j \in Jobs, Cancel(j) PROVE TypeOK'
  BY <1>9 DEF Cancel, JobState, Call
<1>10. ASSUME NEW j \in Jobs, AfterAnyDone(j) PROVE TypeOK'
  BY <1>10 DEF AfterAnyDone, Call
<1>11. ASSUME NEW j \in Jobs, InactivePending(j) PROVE TypeOK'
  <2> DEFINE a == bank_info[j]  q == jobspec[j].queue
  <2>1. /\ a \in Assoc /\ q \in QueueNames /\ queue_usage[a][q] \in QueueUsage
        /\ jobspec[j].nnodes \in Int /\ jobspec[j].ncores \in Int
    BY <1>11, AttachedJob DEF InactivePending, GoesInactive
  <2>2. LeftSched(queue_usage[a][q], j) \in QueueUsage
    BY <2>1, UsageType
  <2>3. queue_usage' \in [Assoc -> [QueueNames -> QueueUsage]]
    <3>1. CASE "priority" \in posted[j]
      <4>1. queue_usage' = [queue_usage EXCEPT ![a][q] = LeftSched(queue_usage[a][q], j)]
        BY <1>11, <3>1 DEF InactivePending
      <4> QED BY <2>1, <2>2, <4>1, UsageTableType
    <3>2. CASE "priority" \notin posted[j]
      BY <1>11, <3>2 DEF InactivePending
    <3> QED BY <3>1, <3>2
  <2>4. held_jobs' \in [Assoc -> Seq(Jobs)]
    BY <1>11, <2>1, EraseType DEF InactivePending, Unhold
  <2>5. deps' \in [Jobs -> SUBSET Dep] /\ held_queue' \in [Jobs -> QueueNames]
    BY <1>11 DEF InactivePending, Unhold, QueueNames
  <2>6. pass' \in Pass \cup {NULL}
    BY <1>11, <2>1, StartPassType DEF InactivePending, PassIfHeld
  <2>7. cur_active_jobs' \in [Assoc -> Int] /\ cur_sched_jobs' \in [Assoc -> Int]
    BY <1>11 DEF InactivePending
  <2> QED BY <1>11, <2>3, <2>4, <2>5, <2>6, <2>7
          DEF InactivePending, GoesInactive, JobState
<1>12. ASSUME NEW j \in Jobs, InactiveAllocated(j) PROVE TypeOK'
  <2> DEFINE a == bank_info[j]  q == jobspec[j].queue
  <2>1. /\ a \in Assoc /\ q \in QueueNames /\ queue_usage[a][q] \in QueueUsage
        /\ jobspec[j].nnodes \in Int /\ jobspec[j].ncores \in Int
    BY <1>12, AttachedJob DEF InactiveAllocated, GoesInactive
  <2>2. StoppedIn(queue_usage[a][q], q, j) \in QueueUsage
    BY <2>1, UsageType
  <2>3. queue_usage' \in [Assoc -> [QueueNames -> QueueUsage]]
    BY <1>12, <2>1, <2>2, UsageTableType DEF InactiveAllocated
  <2>4. cur_nodes' \in [Assoc -> Int] /\ cur_cores' \in [Assoc -> Int]
    <3>1. CountResources(a, j, -1) /\ -1 \in Int
      BY <1>12 DEF InactiveAllocated
    <3>2. a \in Assoc /\ jobspec[j].nnodes \in Int /\ jobspec[j].ncores \in Int
      BY <2>1
    <3> QED BY <3>1, <3>2, CountResourcesType
  <2>5. pass' \in Pass \cup {NULL}
    BY <1>12, <2>1, StartPassType DEF InactiveAllocated, PassIfHeld
  <2> QED BY <1>12, <2>3, <2>4, <2>5 DEF InactiveAllocated, GoesInactive, JobState
<1>13. ASSUME NEW j \in Jobs, Keep(j) PROVE TypeOK'
  <2>1. deps' \in [Jobs -> SUBSET Dep] /\ dependencies' \in [Jobs -> SUBSET (Dep \cup {AfterAny})]
    BY <1>13 DEF Keep
  <2>2. pass' \in Pass
    <3> DEFINE next == pass.at + 1
    <3>1. pass \in Pass /\ next \in Nat \ {0}
      BY <1>13 DEF Keep, LooksAt, Pass
    <3> HIDE DEF next
    <3>2. [pass EXCEPT !.at = next] \in Pass
      BY <3>1 DEF Pass
    <3> QED BY <1>13, <3>2 DEF Keep, next
  <2> QED BY <1>13, <2>1, <2>2 DEF Keep
<1>14. ASSUME NEW j \in Jobs, Release(j) PROVE TypeOK'
  BY <1>14 DEF Release, LooksAt, Removable, Exceeded, Pass, Call
<1>15. ASSUME NEW j \in Jobs, Commit(j) PROVE TypeOK'
  <2> DEFINE a == pass.assoc  q == held_queue[j]
             r == Given(pass.released, j, q, pass.removed)
  <2>1. /\ pass \in Pass /\ a \in Assoc /\ pass.released \in Released
        /\ pass.job = j /\ q \in QueueNames
    BY <1>15 DEF Commit, Pass
  <2>2. pass.at \in 1..Len(held_jobs[a]) /\ held_jobs[a][pass.at] = j
    BY <1>15, <2>1, NamesAssumption DEF Commit, IteratorValid
  <2>3. jobspec[j].nnodes \in Int /\ jobspec[j].ncores \in Int
    <3>1. j \in HeldBy(a)
      BY <2>1, <2>2 DEF HeldBy, ToSet
    <3>2. bank_info[j] = a
      BY <2>1, <3>1 DEF HeldJobsConsistent, HeldAreDependents
    <3>3. state[j] \notin {"UNSUBMITTED", "NEW"}
      BY <2>1, <3>2, NullAssumption DEF JobsConsistent
    <3> QED BY <3>3, AttachedJob
  <2>4. r \in Released
    BY <2>1, <2>3, GivenType
  <2> HIDE DEF r
  <2>5. pass' \in Pass
    BY <1>15, <2>1, <2>4 DEF Commit, Pass, r
  <2>6. held_jobs' \in [Assoc -> Seq(Jobs)]
    BY <1>15, <2>1, <2>2, RemoveAtType DEF Commit
  <2> QED BY <1>15, <2>5, <2>6 DEF Commit, QueueNames
<1>16. CASE EndPass
  BY <1>16 DEF EndPass
<1>17. ASSUME NEW p \in AssocPayloads, RecUpdate(p) PROVE TypeOK'
  <2>1. DOMAIN p.limits \subseteq Assoc
    BY PayloadAssumption DEF Assoc, BankNames
  <2>2. limits' \in [Assoc -> Limits]
    BY <1>17, PayloadAssumption DEF RecUpdate, LoadedLimits
  <2>3. def_bank' \in [Users -> BankNames \cup {NULL}]
    BY <1>17, PayloadAssumption DEF RecUpdate, LoadedDefBank, BankNames
  <2> QED BY <1>17, <2>1, <2>2, <2>3 DEF RecUpdate
<1>18. ASSUME NEW p \in QueuePayloads, RecQUpdate(p) PROVE TypeOK'
  BY <1>18, PayloadAssumption DEF RecQUpdate, LoadedQueues
<1>19. ASSUME NEW p \in ProjectPayloads, RecProjUpdate(p) PROVE TypeOK'
  BY <1>19, PayloadAssumption DEF RecProjUpdate
<1>20. ASSUME NEW deny \in BOOLEAN, RecConfigUpdate(deny) PROVE TypeOK'
  BY <1>20 DEF RecConfigUpdate
<1>21. CASE Reprioritize
  BY <1>21 DEF Reprioritize
<1>22. ASSUME NEW a \in Assoc, ReprioritizeNext(a) PROVE TypeOK'
  BY <1>22, StartPassType DEF ReprioritizeNext, PassIfHeld
<1>23. CASE UNCHANGED vars
  BY <1>23 DEF vars
<1> QED
  BY <1>1, <1>2, <1>3, <1>4, <1>5, <1>6, <1>7, <1>8, <1>9, <1>10, <1>11, <1>12, <1>13,
     <1>14, <1>15, <1>16, <1>17, <1>18, <1>19, <1>20, <1>21, <1>22, <1>23
  DEF Next, Submit, Callback, JobEvent, ReleasePass, Update

-----------------------------------------------------------------------------
(* Jobs and what is attached to them *)

\* A pass lets go of jobs in DEPEND only.
LEMMA LooksAtDependent ==
  ASSUME TypeOK, HeldJobsConsistent, NEW j \in Jobs, LooksAt(j)
  PROVE  /\ pass \in Pass /\ pass.assoc \in Assoc /\ j \in HeldBy(pass.assoc)
         /\ pass.at \in 1..Len(held_jobs[pass.assoc]) /\ held_jobs[pass.assoc][pass.at] = j
         /\ bank_info[j] = pass.assoc /\ held_queue[j] = jobspec[j].queue
         /\ state[j] = "DEPEND" /\ deps[j] # {} /\ deps[j] = dependencies[j] \cap Dep
<1>1. /\ pass \in Pass /\ pass.assoc \in Assoc /\ pass.at \in Nat \ {0}
  BY DEF LooksAt, TypeOK, Pass
<1>2. held_jobs[pass.assoc] \in Seq(Jobs)
  BY <1>1 DEF TypeOK
<1>3. pass.at \in 1..Len(held_jobs[pass.assoc]) /\ held_jobs[pass.assoc][pass.at] = j
  BY <1>1, <1>2 DEF LooksAt
<1>4. j \in HeldBy(pass.assoc)
  BY <1>2, <1>3 DEF HeldBy, ToSet
<1>5. ~Releasing(j) /\ call = NULL
  BY NamesAssumption DEF LooksAt, Releasing
<1>6. call # [cb |-> "inactive", job |-> j]
  BY <1>5, NullAssumption DEF Call
<1> QED BY <1>1, <1>3, <1>4, <1>5, <1>6 DEF HeldJobsConsistent, HeldAreDependents

\* A callback is that of one job.
LEMMA SameCall ==
  \A c, d, i, j : [cb |-> c, job |-> i] = [cb |-> d, job |-> j] => c = d /\ i = j
<1> TAKE c, d, i, j
<1>1. /\ [cb |-> c, job |-> i].cb = c /\ [cb |-> d, job |-> j].cb = d
      /\ [cb |-> c, job |-> i].job = i /\ [cb |-> d, job |-> j].job = j
  OBVIOUS
<1> QED BY <1>1, Zenon

LEMMA NextJobs ==
  IInv /\ [Next]_vars => JobsConsistent'
<1> SUFFICES ASSUME TypeOK, JobsConsistent, HeldJobsConsistent, IteratorValid, [Next]_vars
             PROVE  JobsConsistent'
  BY DEF IInv
<1> USE DEF JobsConsistent, confVars, countVars, heldVars, jobVars, runVars
<1>t. /\ state \in [Jobs -> JobState] /\ jobspec \in [Jobs -> Request \cup {NULL}]
      /\ posted \in [Jobs -> SUBSET {"priority", "alloc"}]
      /\ bank_info \in [Jobs -> Assoc \cup {NULL}] /\ job_info \in [Jobs -> BOOLEAN]
  BY DEF TypeOK
<1>n. \A c : \A j \in Jobs : c \in {"depend", "priority", "sched", "inactive"}
                             => [cb |-> c, job |-> j] # NULL
  BY NullAssumption DEF Call
<1>1. ASSUME NEW j \in Jobs, NEW r \in Requests, Validate(j, r) PROVE JobsConsistent'
  BY <1>1, <1>t, <1>n, NamesAssumption, NullAssumption DEF Validate, Accept, Idle
<1>2. ASSUME NEW j \in Jobs, New(j) PROVE JobsConsistent'
  <2>1. /\ NewAssociation(j) \in Assoc /\ jobspec'[j] \in Request
        /\ \A i \in Jobs \ {j} : jobspec'[i] = jobspec[i]
    BY <1>2, NewJobspecType
  <2>2. /\ bank_info' = [bank_info EXCEPT ![j] = NewAssociation(j)]
        /\ job_info' = [job_info EXCEPT ![j] = TRUE]
        /\ state' = [state EXCEPT ![j] = "DEPEND"] /\ state[j] = "NEW"
        /\ call = NULL /\ call' = [cb |-> "depend", job |-> j] /\ posted' = posted
    BY <1>2 DEF New, Attach, Idle
  <2> QED BY <2>1, <2>2, <1>t, <1>n, NullAssumption
<1>3. ASSUME NEW j \in Jobs, NewRejected(j) PROVE JobsConsistent'
  BY <1>3, <1>t, <1>n DEF NewRejected, Idle
<1>4. ASSUME NEW j \in Jobs, Depend(j) PROVE JobsConsistent'
  <2>1. /\ call = [cb |-> "depend", job |-> j] /\ state[j] = "DEPEND"
        /\ \/ call' = NULL \/ call' = [cb |-> "priority", job |-> j]
        /\ UNCHANGED <<state, jobspec, posted, bank_info, job_info>>
    BY <1>4 DEF Depend
  <2>2. \A i \in Jobs : state[i] # "PRIORITY"
    BY <2>1, SameCall
  <2>3. CASE call' = NULL
    <3>1. UNCHANGED <<state, jobspec, posted, bank_info, job_info>>
      BY <2>1
    <3> QED BY <2>2, <2>3, <3>1, <1>n
  <2>4. CASE call' = [cb |-> "priority", job |-> j]
    <3>1. ASSUME NEW i \in Jobs PROVE
            /\ call' = [cb |-> "priority", job |-> i] => i = j
            /\ call' # [cb |-> "depend", job |-> i] /\ call' # [cb |-> "sched", job |-> i]
            /\ call' # [cb |-> "inactive", job |-> i]
      BY <2>4, SameCall
    <3> QED BY <2>1, <2>2, <3>1
  <2> QED BY <2>1, <2>3, <2>4
<1>5. ASSUME NEW j \in Jobs, Priority(j) PROVE JobsConsistent'
  <2>1. /\ call = [cb |-> "priority", job |-> j] /\ state[j] = "DEPEND"
        /\ call' = [cb |-> "sched", job |-> j] /\ state' = [state EXCEPT ![j] = "PRIORITY"]
        /\ job_info' = [job_info EXCEPT ![j] = TRUE]
        /\ UNCHANGED <<jobspec, posted, bank_info>>
    BY <1>5 DEF Priority, Prioritized
  <2>2. \A i \in Jobs : state[i] # "PRIORITY"
    BY <2>1, SameCall
  <2> QED BY <2>1, <2>2, SameCall, <1>t, <1>n
<1>6. ASSUME NEW j \in Jobs, Sched(j) PROVE JobsConsistent'
  <2>1. /\ call = [cb |-> "sched", job |-> j] /\ state[j] = "PRIORITY"
        /\ call' = NULL /\ state' = [state EXCEPT ![j] = "SCHED"]
        /\ posted' = [posted EXCEPT ![j] = @ \cup {"priority"}]
        /\ UNCHANGED <<jobspec, bank_info, job_info>>
    BY <1>6 DEF Sched
  <2>2. \A i \in Jobs \ {j} : state[i] # "PRIORITY"
    BY <2>1, SameCall
  <2>3. posted'[j] = {"priority"} /\ \A i \in Jobs \ {j} : posted'[i] = posted[i]
    BY <2>1, <1>t
  <2>4. state'[j] = "SCHED" /\ \A i \in Jobs \ {j} : state'[i] = state[i]
    BY <2>1, <1>t
  <2>5. call' = NULL /\ UNCHANGED <<jobspec, bank_info, job_info>> /\ state[j] = "PRIORITY"
    BY <2>1
  <2> QED BY <2>2, <2>3, <2>4, <2>5, <1>n
<1>7. ASSUME NEW j \in Jobs, Run(j) PROVE JobsConsistent'
  BY <1>7, <1>t, <1>n DEF Run, Idle
<1>8. ASSUME NEW j \in Jobs, Finish(j) PROVE JobsConsistent'
  BY <1>8, <1>t, <1>n DEF Finish, Idle
<1>9. ASSUME NEW j \in Jobs, Cancel(j) PROVE JobsConsistent'
  BY <1>9, <1>t, <1>n DEF Cancel, Idle
<1>10. ASSUME NEW j \in Jobs, AfterAnyDone(j) PROVE JobsConsistent'
  BY <1>10, <1>t, <1>n DEF AfterAnyDone, Idle
<1>11. ASSUME NEW j \in Jobs, InactivePending(j) PROVE JobsConsistent'
  BY <1>11, <1>t, <1>n DEF InactivePending, GoesInactive, Idle
<1>12. ASSUME NEW j \in Jobs, InactiveAllocated(j) PROVE JobsConsistent'
  BY <1>12, <1>t, <1>n DEF InactiveAllocated, GoesInactive, Idle
<1>13. ASSUME NEW j \in Jobs, Release(j) PROVE JobsConsistent'
  <2>1. LooksAt(j)
    BY <1>13 DEF Release
  <2>2. state[j] = "DEPEND" /\ call = NULL
    BY <2>1, LooksAtDependent DEF LooksAt
  <2> QED BY <1>13, <2>2, <1>t, <1>n DEF Release
<1>14. CASE UNCHANGED <<jobVars, call>>
  BY <1>14
<1>15. CASE \E j \in Jobs : Keep(j) \/ Commit(j)
  <2>1. PICK j \in Jobs : Keep(j) \/ Commit(j)
    BY <1>15
  <2> QED BY <2>1 DEF Keep, Commit
<1>16. CASE EndPass \/ \E a \in Assoc : ReprioritizeNext(a)
  BY <1>14, <1>16 DEF EndPass, ReprioritizeNext
<1>17. CASE Update
  BY <1>14, <1>17
  DEF Update, RecUpdate, RecQUpdate, RecProjUpdate, RecConfigUpdate, Reprioritize
<1>18. CASE UNCHANGED vars
  BY <1>14, <1>18 DEF vars
<1> QED
  BY <1>1, <1>2, <1>3, <1>4, <1>5, <1>6, <1>7, <1>8, <1>9, <1>10, <1>11, <1>12, <1>13,
     <1>15, <1>16, <1>17, <1>18
  DEF Next, Submit, Callback, JobEvent, ReleasePass

-----------------------------------------------------------------------------
(* The iterator of a pass *)

\* Only the callbacks of the job being released run inside a pass.
LEMMA NoPassOutside ==
  ASSUME IteratorValid,
         Idle \/ \E j \in Jobs : \/ call = [cb |-> "depend", job |-> j]
                                \/ call = [cb |-> "inactive", job |-> j]
  PROVE  pass = NULL
  BY NullAssumption DEF IteratorValid, Idle, Call

\* A pass starts at the first held job, with nothing released.
LEMMA StartPassValid ==
  ASSUME NEW a \in Assoc, call' = NULL, pass' = NULL \/ pass' = StartPass(a)
  PROVE  IteratorValid'
  BY DEF IteratorValid, StartPass

LEMMA NextIterator ==
  IInv /\ [Next]_vars => IteratorValid'
<1> SUFFICES ASSUME TypeOK, JobsConsistent, HeldJobsConsistent, IteratorValid, [Next]_vars
             PROVE  IteratorValid'
  BY DEF IInv
<1> USE DEF confVars, countVars, heldVars, jobVars, runVars
<1>1. ASSUME pass' = NULL PROVE IteratorValid'
  BY <1>1 DEF IteratorValid
<1>2. ASSUME UNCHANGED <<call, pass, held_jobs>> PROVE IteratorValid'
  BY <1>2 DEF IteratorValid
<1>3. ASSUME NEW j \in Jobs, Submit(j) PROVE IteratorValid'
  <2>1. pass' = NULL
    BY <1>3 DEF Submit, Validate, New, NewRejected, Idle
  <2> QED BY <1>1, <2>1
<1>4. ASSUME NEW j \in Jobs, Depend(j) PROVE IteratorValid'
  <2>1. pass = NULL
    BY <1>4, NoPassOutside DEF Depend
  <2> QED BY <1>1, <1>4, <2>1 DEF Depend
<1>5. ASSUME NEW j \in Jobs, Priority(j) PROVE IteratorValid'
  <2>1. /\ call = [cb |-> "priority", job |-> j] /\ call' = [cb |-> "sched", job |-> j]
        /\ UNCHANGED <<pass, held_jobs>>
    BY <1>5 DEF Priority, Prioritized, JobsConsistent
  <2>2. call # NULL /\ call.job = j /\ call'.cb = "sched" /\ call'.job = j
    BY <2>1, NullAssumption DEF Call
  <2> QED BY <2>1, <2>2 DEF IteratorValid
<1>6. ASSUME NEW j \in Jobs, Sched(j) PROVE IteratorValid'
  BY <1>6 DEF Sched, IteratorValid
<1>7. ASSUME NEW j \in Jobs, Run(j) PROVE IteratorValid'
  <2>1. bank_info[j] \in Assoc
    BY <1>7, AttachedJob DEF Run
  <2>2. call' = NULL /\ (pass' = NULL \/ pass' = StartPass(bank_info[j]))
    BY <1>7 DEF Run, Idle, PassIfHeld
  <2> QED BY <2>1, <2>2, StartPassValid
<1>8. ASSUME NEW j \in Jobs, InactivePending(j) \/ InactiveAllocated(j) PROVE IteratorValid'
  <2>1. bank_info[j] \in Assoc
    BY <1>8, AttachedJob DEF InactivePending, InactiveAllocated, GoesInactive
  <2>2. pass = NULL /\ call' = NULL
    BY <1>8, NoPassOutside DEF InactivePending, InactiveAllocated, GoesInactive
  <2>3. pass' = NULL \/ pass' = StartPass(bank_info[j])
    BY <1>8, <2>2 DEF InactivePending, InactiveAllocated, PassIfHeld
  <2> QED BY <2>1, <2>2, <2>3, StartPassValid
<1>9. ASSUME NEW j \in Jobs, Finish(j) \/ Cancel(j) \/ AfterAnyDone(j) PROVE IteratorValid'
  BY <1>1, <1>9 DEF Finish, Cancel, AfterAnyDone, Idle
<1>10. ASSUME NEW j \in Jobs, Keep(j) PROVE IteratorValid'
  <2>1. pass \in Pass /\ call = NULL /\ pass.job = NULL
    BY <1>10, LooksAtDependent DEF Keep, LooksAt
  <2> QED BY <1>10, <2>1 DEF Keep, IteratorValid, Pass
<1>11. ASSUME NEW j \in Jobs, Release(j) PROVE IteratorValid'
  <2>1. LooksAt(j)
    BY <1>11 DEF Release
  <2>2. /\ pass \in Pass /\ pass.at \in 1..Len(held_jobs[pass.assoc])
        /\ held_jobs[pass.assoc][pass.at] = j
    BY <2>1, LooksAtDependent
  <2>3. pass'.job = j /\ pass'.at = pass.at /\ pass'.assoc = pass.assoc /\ held_jobs' = held_jobs
    BY <1>11, <2>2 DEF Release, Pass
  <2>4. call' # NULL => call'.cb = "priority" /\ call'.job = j
    BY <1>11 DEF Release
  <2> QED BY <2>2, <2>3, <2>4 DEF IteratorValid
<1>12. ASSUME NEW j \in Jobs, Commit(j) PROVE IteratorValid'
  <2>1. pass \in Pass
    BY <1>12 DEF Commit, TypeOK
  <2>2. pass'.job = NULL /\ call' = NULL
    BY <1>12, <2>1 DEF Commit, Pass
  <2> QED BY <2>2 DEF IteratorValid
<1>13. CASE EndPass
  BY <1>1, <1>13 DEF EndPass
<1>14. ASSUME NEW a \in Assoc, ReprioritizeNext(a) PROVE IteratorValid'
  BY <1>14, StartPassValid DEF ReprioritizeNext, PassIfHeld
<1>15. CASE Update
  BY <1>2, <1>15
  DEF Update, RecUpdate, RecQUpdate, RecProjUpdate, RecConfigUpdate, Reprioritize
<1>16. CASE UNCHANGED vars
  BY <1>2, <1>16 DEF vars
<1> QED
  BY <1>3, <1>4, <1>5, <1>6, <1>7, <1>8, <1>9, <1>10, <1>11, <1>12, <1>13, <1>14, <1>15, <1>16
  DEF Next, Callback, JobEvent, ReleasePass

-----------------------------------------------------------------------------
(* Held jobs *)

\* HeldJobsConsistent, said of one job.
Dependent(j) ==
  /\ state[j] = "DEPEND" /\ dependencies[j] \cap Dep # {} => j \in HeldBy(bank_info[j])
  /\ state[j] \in {"UNSUBMITTED", "NEW"} \/ call = [cb |-> "depend", job |-> j] \/ Releasing(j)
       => dependencies[j] \cap Dep = {}
  /\ call = [cb |-> "priority", job |-> j] => dependencies[j] = {}

HeldWell(a, j) ==
  /\ bank_info[j] = a /\ held_queue[j] = jobspec[j].queue
  /\ \/ state[j] = "DEPEND" /\ deps[j] # {} /\ deps[j] = dependencies[j] \cap Dep
     \/ call = [cb |-> "inactive", job |-> j]
     \/ Releasing(j)

LEMMA HeldByJobs ==
  ASSUME TypeOK, NEW a \in Assoc PROVE HeldBy(a) \subseteq Jobs
<1>1. held_jobs[a] \in Seq(Jobs)
  BY DEF TypeOK
<1> QED BY <1>1 DEF HeldBy, ToSet

LEMMA HeldJobByJob ==
  ASSUME TypeOK
  PROVE  HeldJobsConsistent <=>
           /\ \A j \in Jobs : Dependent(j) /\ \A a \in Assoc : j \in HeldBy(a) => HeldWell(a, j)
           /\ \A a \in Assoc : IsInjective(held_jobs[a])
  BY HeldByJobs, Zenon
  DEF HeldJobsConsistent, DependentsAreHeld, HeldAreDependents, Dependent, HeldWell

\* Nothing but job j is being called back or released.
Alone(j) ==
  /\ call = NULL \/ \E c \in {"depend", "priority", "sched", "inactive"} :
                      call = [cb |-> c, job |-> j]
  /\ pass = NULL \/ pass.job = NULL \/ pass.job = j

LEMMA AloneOthers ==
  ASSUME NEW j \in Jobs, Alone(j), NEW i \in Jobs \ {j}
  PROVE  /\ ~Releasing(i)
         /\ call # [cb |-> "depend", job |-> i] /\ call # [cb |-> "priority", job |-> i]
         /\ call # [cb |-> "inactive", job |-> i]
<1>1. ~Releasing(i)
  BY NamesAssumption DEF Alone, Releasing
<1>2. ASSUME NEW c \in {"depend", "priority", "sched", "inactive"} PROVE call # [cb |-> c, job |-> i]
  <2>1. [cb |-> c, job |-> i] # NULL
    BY NullAssumption DEF Call
  <2> QED BY <2>1, SameCall, Zenon DEF Alone
<1> QED BY <1>1, <1>2

\* A step that touches job j alone leaves the other jobs held as they were.
LEMMA OthersHeld ==
  ASSUME TypeOK, TypeOK', JobsConsistent, HeldJobsConsistent,
         NEW j \in Jobs, Alone(j), Alone(j)',
         \A i \in Jobs \ {j} :
           /\ state'[i] = state[i] /\ dependencies'[i] = dependencies[i]
           /\ deps'[i] = deps[i] /\ held_queue'[i] = held_queue[i]
           /\ bank_info'[i] = bank_info[i] /\ jobspec'[i] = jobspec[i],
         \A a \in Assoc : HeldBy(a)' \ {j} = HeldBy(a) \ {j},
         Dependent(j)', \A a \in Assoc : j \in HeldBy(a)' => HeldWell(a, j)',
         \A a \in Assoc : IsInjective(held_jobs'[a])
  PROVE  HeldJobsConsistent'
<1>1. ASSUME NEW i \in Jobs \ {j}
      PROVE  Dependent(i)' /\ \A a \in Assoc : i \in HeldBy(a)' => HeldWell(a, i)'
  <2>1. Dependent(i) /\ \A a \in Assoc : i \in HeldBy(a) => HeldWell(a, i)
    BY HeldJobByJob
  <2>2. /\ ~Releasing(i)
        /\ call # [cb |-> "depend", job |-> i] /\ call # [cb |-> "priority", job |-> i]
        /\ call # [cb |-> "inactive", job |-> i]
    BY AloneOthers
  <2>3. /\ ~Releasing(i)'
        /\ call' # [cb |-> "depend", job |-> i] /\ call' # [cb |-> "priority", job |-> i]
        /\ call' # [cb |-> "inactive", job |-> i]
    <3>1. ~Releasing(i)'
      BY NamesAssumption DEF Alone, Releasing
    <3>2. ASSUME NEW c \in {"depend", "priority", "sched", "inactive"}
          PROVE  call' # [cb |-> c, job |-> i]
      <4>1. [cb |-> c, job |-> i] # NULL
        BY NullAssumption DEF Call
      <4>2. call' = NULL \/ \E d \in {"depend", "priority", "sched", "inactive"} :
                               call' = [cb |-> d, job |-> j]
        BY DEF Alone
      <4>3. ASSUME NEW d, call' = [cb |-> d, job |-> j] PROVE call' # [cb |-> c, job |-> i]
        BY <4>3, SameCall
      <4> QED BY <4>1, <4>2, <4>3
    <3> QED BY <3>1, <3>2
  <2>4. \A a \in Assoc : i \in HeldBy(a)' <=> i \in HeldBy(a)
    OBVIOUS
  <2>5. state[i] = "DEPEND" => bank_info[i] \in Assoc
    BY AttachedJob
  <2>6. Dependent(i)'
    <3>1. state'[i] = "DEPEND" /\ dependencies'[i] \cap Dep # {} => i \in HeldBy(bank_info[i])'
      BY <2>1, <2>4, <2>5 DEF Dependent
    <3>2. HeldBy(bank_info[i])' = ToSet(held_jobs'[bank_info'[i]])
      BY DEF HeldBy
    <3> QED BY <2>1, <2>2, <2>3, <3>1, <3>2 DEF Dependent
  <2>7. ASSUME NEW a \in Assoc, i \in HeldBy(a)' PROVE HeldWell(a, i)'
    BY <2>1, <2>2, <2>3, <2>4, <2>7 DEF HeldWell
  <2> QED BY <2>6, <2>7
<1>2. ASSUME NEW i \in Jobs
      PROVE  Dependent(i)' /\ \A a \in Assoc : i \in HeldBy(a)' => HeldWell(a, i)'
  BY <1>1
<1>3. ASSUME NEW a \in Assoc PROVE HeldBy(a)' \subseteq Jobs
  <2>1. held_jobs'[a] \in Seq(Jobs)
    BY DEF TypeOK
  <2> QED BY <2>1 DEF HeldBy, ToSet
<1>4. DependentsAreHeld'
  BY <1>2, Zenon DEF DependentsAreHeld, Dependent
<1>5. HeldAreDependents'
  BY <1>2, <1>3, Zenon DEF HeldAreDependents, HeldWell
<1> QED BY <1>4, <1>5 DEF HeldJobsConsistent

LEMMA SameHeld ==
  ASSUME TypeOK, TypeOK', JobsConsistent, HeldJobsConsistent,
         NEW j \in Jobs, Alone(j), Alone(j)',
         \A i \in Jobs \ {j} :
           /\ state'[i] = state[i] /\ dependencies'[i] = dependencies[i]
           /\ deps'[i] = deps[i] /\ held_queue'[i] = held_queue[i]
           /\ bank_info'[i] = bank_info[i] /\ jobspec'[i] = jobspec[i],
         held_jobs' = held_jobs,
         Dependent(j)', \A a \in Assoc : j \in HeldBy(a) => HeldWell(a, j)'
  PROVE  HeldJobsConsistent'
<1>1. \A a \in Assoc : HeldBy(a)' = HeldBy(a) /\ IsInjective(held_jobs'[a])
  BY DEF HeldBy, HeldJobsConsistent
<1> QED BY <1>1, OthersHeld

\* When the plugin is idle, what is held is in DEPEND.
LEMMA IdleJob ==
  ASSUME HeldJobsConsistent, NEW j \in Jobs, Idle
  PROVE  /\ Alone(j) /\ ~Releasing(j)
         /\ \A c \in {"depend", "priority", "sched", "inactive"} : call # [cb |-> c, job |-> j]
         /\ \A a \in Assoc : j \in HeldBy(a) =>
              /\ state[j] = "DEPEND" /\ bank_info[j] = a /\ held_queue[j] = jobspec[j].queue
              /\ deps[j] # {} /\ deps[j] = dependencies[j] \cap Dep
<1>1. Alone(j) /\ ~Releasing(j)
  BY DEF Idle, Alone, Releasing
<1>2. \A c \in {"depend", "priority", "sched", "inactive"} : call # [cb |-> c, job |-> j]
  BY NullAssumption DEF Idle, Call
<1> QED BY <1>1, <1>2 DEF HeldJobsConsistent, HeldAreDependents

\* A callback of job j runs alone.
LEMMA CalledJob ==
  ASSUME IteratorValid, HeldJobsConsistent, NEW j \in Jobs,
         NEW c \in {"depend", "priority", "sched", "inactive"}, call = [cb |-> c, job |-> j]
  PROVE  /\ Alone(j)
         /\ c \in {"depend", "inactive"} => ~Releasing(j) /\ pass = NULL
         /\ pass # NULL => Releasing(j)
         /\ \A a \in Assoc : j \in HeldBy(a) =>
              /\ bank_info[j] = a /\ held_queue[j] = jobspec[j].queue
              /\ \/ state[j] = "DEPEND" /\ deps[j] # {} /\ deps[j] = dependencies[j] \cap Dep
                 \/ c = "inactive"
                 \/ Releasing(j)
<1>1. call # NULL /\ call.cb = c /\ call.job = j
  BY NullAssumption DEF Call
<1>2. pass # NULL => Releasing(j) /\ c \in {"priority", "sched"}
  BY <1>1 DEF IteratorValid, Releasing
<1>3. Alone(j)
  BY <1>2 DEF Alone, Releasing
<1>4. call = [cb |-> "inactive", job |-> j] => c = "inactive"
  BY <1>1
<1> QED BY <1>2, <1>3, <1>4 DEF HeldJobsConsistent, HeldAreDependents, Releasing

LEMMA NextHeld ==
  IInv /\ [Next]_vars => HeldJobsConsistent'
<1> SUFFICES ASSUME TypeOK, JobsConsistent, HeldJobsConsistent, IteratorValid, [Next]_vars
             PROVE  HeldJobsConsistent'
  BY DEF IInv
<1> USE DEF confVars, countVars, heldVars, jobVars, runVars
<1>t. /\ TypeOK' /\ JobsConsistent'
      /\ state \in [Jobs -> JobState] /\ bank_info \in [Jobs -> Assoc \cup {NULL}]
      /\ jobspec \in [Jobs -> Request \cup {NULL}]
      /\ dependencies \in [Jobs -> SUBSET (Dep \cup {AfterAny})]
      /\ deps \in [Jobs -> SUBSET Dep] /\ held_queue \in [Jobs -> QueueNames]
  BY NextType, NextJobs DEF IInv, TypeOK
<1>a. AfterAny \notin Dep
  BY DEF AfterAny, Dep, D_QUEUE_MRJ, D_ASSOC_MRJ, D_ASSOC_MRES, D_QUEUE_MRES,
         D_ASSOC_MSJ, D_QUEUE_MSJ, D_QUEUE_MSN, D_QUEUE_MSC
<1>n. \A c \in {"depend", "priority", "sched", "inactive"} : \A j \in Jobs :
        [cb |-> c, job |-> j] # NULL
  BY NullAssumption DEF Call
<1>1. ASSUME NEW j \in Jobs, NEW r \in Requests, Validate(j, r) PROVE HeldJobsConsistent'
  <2>1. /\ Idle /\ state[j] = "UNSUBMITTED" /\ UNCHANGED <<runVars, heldVars, bank_info>>
        /\ state' = [state EXCEPT ![j] = "NEW"] /\ jobspec' = [jobspec EXCEPT ![j] = r]
        /\ \E b \in BOOLEAN :
             dependencies' = [dependencies EXCEPT ![j] = IF b THEN {AfterAny} ELSE {}]
    BY <1>1 DEF Validate, Accept
  <2>2. Alone(j) /\ ~Releasing(j) /\ \A a \in Assoc : j \notin HeldBy(a)
    BY <2>1, IdleJob
  <2>3. Alone(j)'
    BY <2>1 DEF Alone, Idle
  <2>4. state'[j] = "NEW" /\ dependencies'[j] \cap Dep = {} /\ call' = NULL
    BY <2>1, <1>t, <1>a DEF Idle
  <2>5. Dependent(j)'
    BY <2>4, <1>n DEF Dependent
  <2> QED BY <2>1, <2>2, <2>3, <2>5, <1>t, SameHeld
<1>2. ASSUME NEW j \in Jobs, New(j) PROVE HeldJobsConsistent'
  <2>1. /\ Idle /\ state[j] = "NEW" /\ UNCHANGED <<heldVars, dependencies, pass>>
        /\ state' = [state EXCEPT ![j] = "DEPEND"] /\ call' = [cb |-> "depend", job |-> j]
        /\ bank_info' = [bank_info EXCEPT ![j] = NewAssociation(j)]
        /\ \A i \in Jobs \ {j} : jobspec'[i] = jobspec[i]
    BY <1>2, NewJobspecType DEF New, Attach
  <2>2. Alone(j) /\ ~Releasing(j) /\ \A a \in Assoc : j \notin HeldBy(a)
    BY <2>1, IdleJob
  <2>3. Alone(j)'
    BY <2>1 DEF Alone, Idle
  <2>4. dependencies'[j] \cap Dep = {}
    <3>1. Dependent(j)
      BY HeldJobByJob
    <3> QED BY <2>1, <3>1 DEF Dependent
  <2>5. call' # [cb |-> "priority", job |-> j]
    BY <2>1, SameCall
  <2>6. Dependent(j)'
    BY <2>4, <2>5 DEF Dependent
  <2> QED BY <2>1, <2>2, <2>3, <2>6, <1>t, SameHeld
<1>3. ASSUME NEW j \in Jobs, NewRejected(j) PROVE HeldJobsConsistent'
  <2>1. /\ Idle /\ state[j] = "NEW" /\ UNCHANGED <<heldVars, runVars>>
        /\ state' = [state EXCEPT ![j] = "UNSUBMITTED"]
        /\ jobspec' = [jobspec EXCEPT ![j] = NULL]
        /\ dependencies' = [dependencies EXCEPT ![j] = {}]
        /\ bank_info' = [bank_info EXCEPT ![j] = NULL]
    BY <1>3 DEF NewRejected
  <2>2. Alone(j) /\ ~Releasing(j) /\ \A a \in Assoc : j \notin HeldBy(a)
    BY <2>1, IdleJob
  <2>3. Alone(j)'
    BY <2>1 DEF Alone, Idle
  <2>4. dependencies'[j] = {}
    BY <2>1, <1>t
  <2>5. Dependent(j)'
    BY <2>4 DEF Dependent
  <2> QED BY <2>1, <2>2, <2>3, <2>5, <1>t, SameHeld
<1>4. ASSUME NEW j \in Jobs, Depend(j) PROVE HeldJobsConsistent'
  <2> DEFINE a == bank_info[j]  q == jobspec[j].queue
             ex == Exceeded(a, j, q, NothingReleased)
  <2>1. /\ call = [cb |-> "depend", job |-> j] /\ state[j] = "DEPEND"
        /\ dependencies' = [dependencies EXCEPT ![j] = @ \cup ex]
        /\ call' = IF dependencies'[j] = {} THEN [cb |-> "priority", job |-> j] ELSE NULL
        /\ UNCHANGED <<state, bank_info, jobspec, pass>>
    BY <1>4 DEF Depend, JobsConsistent
  <2>2. /\ Alone(j) /\ ~Releasing(j) /\ pass = NULL
    BY <2>1, CalledJob
  <2>3. dependencies[j] \cap Dep = {}
    <3>1. Dependent(j)
      BY HeldJobByJob
    <3> QED BY <2>1, <3>1 DEF Dependent
  <2>4. \A b \in Assoc : j \notin HeldBy(b)
    BY <2>1, <2>2, <2>3, CalledJob
  <2>5. a \in Assoc /\ held_jobs[a] \in Seq(Jobs)
    <3>1. a \in Assoc
      BY <2>1, AttachedJob
    <3> QED BY <3>1 DEF TypeOK
  <2>6. ex \subseteq Dep
    BY DEF Exceeded
  <2> HIDE DEF ex
  <2>7. dependencies'[j] = dependencies[j] \cup ex
    BY <2>1, <1>t
  <2>8. Alone(j)' /\ ~Releasing(j)' /\ call' # [cb |-> "depend", job |-> j]
    BY <2>1, <2>2, <1>n, SameCall DEF Alone, Releasing
  <2>9. \A i \in Jobs \ {j} : dependencies'[i] = dependencies[i]
    BY <2>1
  <2>10. CASE ex = {}
    <3>1. UNCHANGED heldVars
      BY <1>4, <2>10 DEF Depend, ex
    <3>2. dependencies'[j] \cap Dep = {}
      BY <2>3, <2>7, <2>10
    <3>3. call' = [cb |-> "priority", job |-> j] => dependencies'[j] = {}
      BY <2>1, <1>n
    <3>4. Dependent(j)'
      BY <3>2, <3>3 DEF Dependent
    <3> QED BY <2>1, <2>2, <2>4, <2>8, <2>9, <3>1, <3>4, <1>t, SameHeld
  <2>11. CASE ex # {}
    <3>1. /\ held_jobs' = [held_jobs EXCEPT ![a] = Append(@, j)]
          /\ deps' = [deps EXCEPT ![j] = ex] /\ held_queue' = [held_queue EXCEPT ![j] = q]
      BY <1>4, <2>11 DEF Depend, ex
    <3>2. call' = NULL
      BY <2>1, <2>7, <2>11
    <3>3. ASSUME NEW b \in Assoc
          PROVE  /\ HeldBy(b)' = IF b = a THEN HeldBy(b) \cup {j} ELSE HeldBy(b)
                 /\ IsInjective(held_jobs'[b])
      <4>0. held_jobs \in [Assoc -> Seq(Jobs)]
        BY DEF TypeOK
      <4>1. CASE b = a
        <5>1. held_jobs'[b] = Append(held_jobs[a], j)
          BY <2>5, <3>1, <4>0, <4>1
        <5> QED BY <2>4, <2>5, <4>1, <5>1, AppendHeld DEF HeldBy, HeldJobsConsistent
      <4>2. CASE b # a
        <5>1. held_jobs'[b] = held_jobs[b]
          BY <3>1, <4>0, <4>2
        <5> QED BY <4>2, <5>1 DEF HeldBy, HeldJobsConsistent
      <4> QED BY <4>1, <4>2
    <3>4. /\ state'[j] = "DEPEND" /\ bank_info'[j] = a /\ held_queue'[j] = q /\ deps'[j] = ex
          /\ ex = dependencies'[j] \cap Dep
      BY <2>1, <2>3, <2>6, <2>7, <3>1, <1>t
    <3>5. j \in HeldBy(bank_info[j])'
      BY <2>1, <2>5, <3>3 DEF HeldBy
    <3>6. Dependent(j)'
      BY <2>1, <2>8, <3>2, <3>5, <1>n DEF Dependent
    <3>7. \A b \in Assoc : j \in HeldBy(b)' => b = a
      BY <2>4, <3>3
    <3>8. \A b \in Assoc : j \in HeldBy(b)' => HeldWell(b, j)'
      BY <2>1, <2>11, <3>4, <3>7 DEF HeldWell
    <3>9. \A b \in Assoc : HeldBy(b)' \ {j} = HeldBy(b) \ {j} /\ IsInjective(held_jobs'[b])
      BY <3>3
    <3> QED BY <2>1, <2>2, <2>8, <2>9, <3>1, <3>6, <3>8, <3>9, <1>t, OthersHeld
  <2> QED BY <2>10, <2>11
<1>5. ASSUME NEW j \in Jobs, Priority(j) PROVE HeldJobsConsistent'
  <2>1. /\ call = [cb |-> "priority", job |-> j] /\ state[j] = "DEPEND"
        /\ state' = [state EXCEPT ![j] = "PRIORITY"] /\ call' = [cb |-> "sched", job |-> j]
        /\ UNCHANGED <<heldVars, dependencies, jobspec, bank_info, pass>>
    BY <1>5 DEF Priority, Prioritized, JobsConsistent
  <2>2. dependencies[j] = {}
    BY <2>1 DEF HeldJobsConsistent, DependentsAreHeld
  <2>3. Alone(j) /\ \A a \in Assoc : j \in HeldBy(a) =>
          bank_info[j] = a /\ held_queue[j] = jobspec[j].queue /\ Releasing(j)
    <3>1. call = [cb |-> "priority", job |-> j]
      BY <2>1
    <3>2. Alone(j)
      BY <3>1, CalledJob
    <3>3. \A a \in Assoc : j \in HeldBy(a) =>
            /\ bank_info[j] = a /\ held_queue[j] = jobspec[j].queue
            /\ (deps[j] # {} /\ deps[j] = dependencies[j] \cap Dep) \/ Releasing(j)
      BY <3>1, CalledJob
    <3> QED BY <2>2, <3>2, <3>3
  <2>4. Alone(j)'
    BY <2>1, <2>3 DEF Alone
  <2>5. Dependent(j)'
    BY <2>1, <2>2 DEF Dependent
  <2>6. \A a \in Assoc : j \in HeldBy(a) => HeldWell(a, j)'
    BY <2>1, <2>3 DEF HeldWell, Releasing
  <2> QED BY <2>1, <2>3, <2>4, <2>5, <2>6, <1>t, SameHeld
<1>6. ASSUME NEW j \in Jobs, Sched(j) PROVE HeldJobsConsistent'
  <2>1. /\ call = [cb |-> "sched", job |-> j] /\ state[j] = "PRIORITY"
        /\ state' = [state EXCEPT ![j] = "SCHED"] /\ call' = NULL
        /\ UNCHANGED <<heldVars, dependencies, jobspec, bank_info, pass>>
    BY <1>6 DEF Sched, JobsConsistent
  <2>2. Alone(j) /\ \A a \in Assoc : j \in HeldBy(a) =>
          bank_info[j] = a /\ held_queue[j] = jobspec[j].queue /\ Releasing(j)
    BY <2>1, CalledJob
  <2>3. Alone(j)' /\ state'[j] = "SCHED"
    BY <2>1, <2>2, <1>t DEF Alone
  <2>4. Releasing(j)' => dependencies'[j] \cap Dep = {}
    BY <2>1 DEF HeldJobsConsistent, DependentsAreHeld, Releasing
  <2>5. Dependent(j)'
    BY <2>1, <2>3, <2>4, <1>n DEF Dependent
  <2>6. \A a \in Assoc : j \in HeldBy(a) => HeldWell(a, j)'
    BY <2>1, <2>2 DEF HeldWell, Releasing
  <2> QED BY <2>1, <2>2, <2>3, <2>5, <2>6, <1>t, SameHeld
<1>7. ASSUME NEW j \in Jobs, Run(j) \/ Finish(j) PROVE HeldJobsConsistent'
  <2>1. /\ Idle /\ state[j] \in {"SCHED", "RUN"}
        /\ \E s \in {"RUN", "CLEANUP"} : state' = [state EXCEPT ![j] = s]
        /\ UNCHANGED <<heldVars, dependencies, jobspec, bank_info, call>>
    BY <1>7 DEF Run, Finish
  <2>2. pass' = NULL \/ pass'.job = NULL
    BY <1>7 DEF Run, Finish, PassIfHeld, StartPass, Idle
  <2>3. Alone(j) /\ ~Releasing(j) /\ \A a \in Assoc : j \notin HeldBy(a)
    BY <2>1, IdleJob
  <2>4. Alone(j)' /\ state'[j] \in {"RUN", "CLEANUP"} /\ call' = NULL
    BY <2>1, <2>2, <1>t DEF Alone, Idle
  <2>5. ~Releasing(j)'
    BY <2>2, NamesAssumption DEF Releasing
  <2>6. Dependent(j)'
    BY <2>4, <2>5, <1>n DEF Dependent
  <2> QED BY <2>1, <2>3, <2>4, <2>6, <1>t, SameHeld
<1>8. ASSUME NEW j \in Jobs, Cancel(j) PROVE HeldJobsConsistent'
  <2>1. /\ Idle /\ state' = [state EXCEPT ![j] = "CLEANUP"]
        /\ call' = IF state[j] = "SCHED" THEN NULL ELSE [cb |-> "inactive", job |-> j]
        /\ UNCHANGED <<heldVars, dependencies, jobspec, bank_info, pass>>
    BY <1>8 DEF Cancel
  <2>2. Alone(j) /\ ~Releasing(j) /\ \A a \in Assoc : j \in HeldBy(a) =>
          state[j] = "DEPEND" /\ bank_info[j] = a /\ held_queue[j] = jobspec[j].queue
    BY <2>1, IdleJob
  <2>3. Alone(j)' /\ state'[j] = "CLEANUP" /\ ~Releasing(j)'
    BY <2>1, <2>2, <1>t DEF Alone, Releasing
  <2>4. call' # [cb |-> "depend", job |-> j] /\ call' # [cb |-> "priority", job |-> j]
    BY <2>1, <1>n, SameCall
  <2>5. Dependent(j)'
    BY <2>3, <2>4 DEF Dependent
  <2>6. \A a \in Assoc : j \in HeldBy(a) => HeldWell(a, j)'
    BY <2>1, <2>2 DEF HeldWell
  <2> QED BY <2>1, <2>2, <2>3, <2>5, <2>6, <1>t, SameHeld
<1>9. ASSUME NEW j \in Jobs, AfterAnyDone(j) PROVE HeldJobsConsistent'
  <2>1. /\ Idle /\ state[j] = "DEPEND"
        /\ dependencies' = [dependencies EXCEPT ![j] = @ \ {AfterAny}]
        /\ call' = IF dependencies'[j] = {} THEN [cb |-> "priority", job |-> j] ELSE NULL
        /\ UNCHANGED <<heldVars, state, jobspec, bank_info, pass>>
    BY <1>9 DEF AfterAnyDone
  <2>2. Alone(j) /\ ~Releasing(j) /\ \A a \in Assoc : j \in HeldBy(a) =>
          /\ state[j] = "DEPEND" /\ bank_info[j] = a /\ held_queue[j] = jobspec[j].queue
          /\ deps[j] # {} /\ deps[j] = dependencies[j] \cap Dep
    BY <2>1, IdleJob
  <2>3. Alone(j)' /\ ~Releasing(j)'
    BY <2>1, <2>2 DEF Alone, Releasing
  <2>4. dependencies'[j] \cap Dep = dependencies[j] \cap Dep
    BY <2>1, <1>t, <1>a
  <2>5. call' # [cb |-> "depend", job |-> j]
    BY <2>1, <1>n, SameCall
  <2>6. call' = [cb |-> "priority", job |-> j] => dependencies'[j] = {}
    BY <2>1, <1>n
  <2>7. dependencies[j] \cap Dep # {} => j \in HeldBy(bank_info[j])
    BY <2>1 DEF HeldJobsConsistent, DependentsAreHeld
  <2>8. HeldBy(bank_info[j])' = HeldBy(bank_info[j])
    BY <2>1 DEF HeldBy
  <2>9. Dependent(j)'
    BY <2>1, <2>3, <2>4, <2>5, <2>6, <2>7, <2>8 DEF Dependent
  <2>10. \A a \in Assoc : j \in HeldBy(a) => HeldWell(a, j)'
    BY <2>1, <2>2, <2>4 DEF HeldWell
  <2> QED BY <2>1, <2>2, <2>3, <2>9, <2>10, <1>t, SameHeld
<1>10. ASSUME NEW j \in Jobs, InactivePending(j) PROVE HeldJobsConsistent'
  <2> DEFINE a == bank_info[j]
  <2>1. /\ Idle \/ call = [cb |-> "inactive", job |-> j]
        /\ state[j] = "CLEANUP" /\ state' = [state EXCEPT ![j] = "INACTIVE"] /\ call' = NULL
        /\ Unhold(a, j) /\ UNCHANGED <<dependencies, jobspec, bank_info>>
    BY <1>10 DEF InactivePending, GoesInactive
  <2>2. Alone(j) /\ pass = NULL
    BY <2>1, IdleJob, CalledJob DEF Idle
  <2>3. pass' = NULL \/ pass'.job = NULL
    BY <1>10, <2>2 DEF InactivePending, PassIfHeld, StartPass
  <2>4. Alone(j)' /\ ~Releasing(j)' /\ state'[j] = "INACTIVE"
    BY <2>1, <2>3, <1>t, NamesAssumption DEF Alone, Releasing
  <2>5. Dependent(j)'
    BY <2>1, <2>4, <1>n DEF Dependent
  <2>6. a \in Assoc /\ held_jobs \in [Assoc -> Seq(Jobs)]
    <3>1. a \in Assoc
      BY <2>1, AttachedJob
    <3> QED BY <3>1 DEF TypeOK
  <2>7. ASSUME NEW b \in Assoc
        PROVE  HeldBy(b)' = HeldBy(b) \ {j} /\ IsInjective(held_jobs'[b])
    <3>1. CASE b = a
      <4>1. held_jobs'[b] = Erase(held_jobs[b], j)
        BY <2>1, <2>6, <3>1 DEF Unhold
      <4>2. held_jobs[b] \in Seq(Jobs) /\ IsInjective(held_jobs[b])
        BY <2>6 DEF HeldJobsConsistent
      <4> QED BY <4>1, <4>2, EraseHeld DEF HeldBy
    <3>2. CASE b # a
      <4>1. held_jobs'[b] = held_jobs[b]
        BY <2>1, <2>6, <3>2 DEF Unhold
      <4>2. j \notin HeldBy(b)
        BY <3>2 DEF HeldJobsConsistent, HeldAreDependents
      <4> QED BY <4>1, <4>2 DEF HeldBy, HeldJobsConsistent
    <3> QED BY <3>1, <3>2
  <2>8. \A i \in Jobs \ {j} : deps'[i] = deps[i] /\ held_queue'[i] = held_queue[i]
    BY <2>1, <1>t DEF Unhold
  <2>9. \A b \in Assoc : j \notin HeldBy(b)'
    BY <2>7
  <2>10. \A b \in Assoc : HeldBy(b)' \ {j} = HeldBy(b) \ {j} /\ IsInjective(held_jobs'[b])
    BY <2>7
  <2> QED BY <2>1, <2>2, <2>4, <2>5, <2>8, <2>9, <2>10, <1>t, OthersHeld
<1>11. ASSUME NEW j \in Jobs, InactiveAllocated(j) PROVE HeldJobsConsistent'
  <2>1. /\ state[j] = "CLEANUP" /\ state' = [state EXCEPT ![j] = "INACTIVE"] /\ call' = NULL
        /\ Idle \/ call = [cb |-> "inactive", job |-> j]
        /\ "alloc" \in posted[j]
        /\ UNCHANGED <<heldVars, dependencies, jobspec, bank_info>>
    BY <1>11 DEF InactiveAllocated, GoesInactive
  <2>2. Idle
    BY <2>1 DEF JobsConsistent
  <2>3. Alone(j) /\ \A a \in Assoc : j \notin HeldBy(a)
    BY <2>1, <2>2, IdleJob
  <2>4. pass' = NULL \/ pass'.job = NULL
    BY <1>11, <2>2 DEF InactiveAllocated, PassIfHeld, StartPass, Idle
  <2>5. Alone(j)' /\ ~Releasing(j)' /\ state'[j] = "INACTIVE"
    BY <2>1, <2>4, <1>t, NamesAssumption DEF Alone, Releasing
  <2>6. Dependent(j)'
    BY <2>1, <2>5, <1>n DEF Dependent
  <2> QED BY <2>1, <2>3, <2>5, <2>6, <1>t, SameHeld
<1>12. ASSUME NEW j \in Jobs, Keep(j) PROVE HeldJobsConsistent'
  <2> DEFINE removed == Removable(j)
  <2>1. /\ LooksAt(j) /\ removed # deps[j]
        /\ deps' = [deps EXCEPT ![j] = @ \ removed]
        /\ dependencies' = [dependencies EXCEPT ![j] = @ \ removed]
        /\ UNCHANGED <<held_jobs, held_queue, state, jobspec, bank_info, call>>
        /\ pass' = [pass EXCEPT !.at = @ + 1]
    BY <1>12 DEF Keep
  <2>2. /\ pass \in Pass /\ pass.job = NULL /\ call = NULL
        /\ j \in HeldBy(pass.assoc) /\ bank_info[j] = pass.assoc
        /\ held_queue[j] = jobspec[j].queue /\ state[j] = "DEPEND"
        /\ deps[j] = dependencies[j] \cap Dep
    BY <2>1, LooksAtDependent DEF LooksAt
  <2>3. removed \subseteq deps[j]
    BY DEF Removable
  <2> HIDE DEF removed
  <2>4. pass'.job = NULL
    BY <2>1, <2>2 DEF Pass
  <2>5. Alone(j) /\ Alone(j)' /\ ~Releasing(j)'
    BY <2>1, <2>2, <2>4, NamesAssumption DEF Alone, Releasing
  <2>6. deps'[j] = deps[j] \ removed /\ dependencies'[j] = dependencies[j] \ removed
    BY <2>1, <1>t
  <2>7. deps'[j] # {} /\ deps'[j] = dependencies'[j] \cap Dep
    BY <2>1, <2>2, <2>3, <2>6
  <2>8. HeldBy(bank_info[j])' = HeldBy(bank_info[j])
    BY <2>1 DEF HeldBy
  <2>9. Dependent(j)'
    BY <2>1, <2>2, <2>5, <2>8, <1>n DEF Dependent
  <2>10. \A a \in Assoc : j \in HeldBy(a) => HeldWell(a, j)'
    <3>1. \A a \in Assoc : j \in HeldBy(a) => bank_info[j] = a
      BY DEF HeldJobsConsistent, HeldAreDependents
    <3> QED BY <2>1, <2>2, <2>7, <3>1 DEF HeldWell
  <2> QED BY <2>1, <2>5, <2>9, <2>10, <1>t, SameHeld
<1>13. ASSUME NEW j \in Jobs, Release(j) PROVE HeldJobsConsistent'
  <2>1. /\ LooksAt(j)
        /\ deps' = [deps EXCEPT ![j] = {}]
        /\ dependencies' = [dependencies EXCEPT ![j] = @ \ deps[j]]
        /\ UNCHANGED <<held_jobs, held_queue, state, jobspec, bank_info>>
        /\ pass' = [pass EXCEPT !.job = j, !.removed = deps[j]]
        /\ call' = IF dependencies'[j] = {} THEN [cb |-> "priority", job |-> j] ELSE NULL
    BY <1>13 DEF Release
  <2>2. /\ pass \in Pass /\ pass.job = NULL /\ call = NULL
        /\ bank_info[j] = pass.assoc /\ held_queue[j] = jobspec[j].queue
        /\ deps[j] = dependencies[j] \cap Dep
    BY <2>1, LooksAtDependent DEF LooksAt
  <2>3. pass' # NULL /\ pass'.job = j
    <3>1. pass' \in Pass \cup {NULL}
      BY <1>t DEF TypeOK
    <3>2. pass'.job = j /\ pass' \in Pass
      BY <2>1, <2>2 DEF Pass
    <3> QED BY <3>2, NullAssumption
  <2>4. Alone(j) /\ Alone(j)' /\ Releasing(j)'
    BY <2>1, <2>2, <2>3 DEF Alone, Releasing
  <2>5. dependencies'[j] \cap Dep = {}
    BY <2>1, <2>2, <1>t
  <2>6. call' = [cb |-> "priority", job |-> j] => dependencies'[j] = {}
    BY <2>1, <1>n
  <2>7. Dependent(j)'
    BY <2>5, <2>6 DEF Dependent
  <2>8. \A a \in Assoc : j \in HeldBy(a) => HeldWell(a, j)'
    <3>1. \A a \in Assoc : j \in HeldBy(a) => bank_info[j] = a
      BY DEF HeldJobsConsistent, HeldAreDependents
    <3> QED BY <2>1, <2>2, <2>4, <3>1 DEF HeldWell
  <2> QED BY <2>1, <2>4, <2>7, <2>8, <1>t, SameHeld
<1>14. ASSUME NEW j \in Jobs, Commit(j) PROVE HeldJobsConsistent'
  <2> DEFINE a == pass.assoc
  <2>1. /\ pass # NULL /\ call = NULL /\ pass.job = j
        /\ held_jobs' = [held_jobs EXCEPT ![a] = RemoveAt(@, pass.at)]
        /\ held_queue' = [held_queue EXCEPT ![j] = NoQueue]
        /\ UNCHANGED <<deps, dependencies, state, jobspec, bank_info, call>>
    BY <1>14 DEF Commit
  <2>2. pass \in Pass /\ a \in Assoc /\ held_jobs \in [Assoc -> Seq(Jobs)]
    BY <2>1 DEF TypeOK, Pass
  <2>3. pass'.job = NULL
    BY <1>14, <2>2 DEF Commit, Pass
  <2>4. Alone(j) /\ Alone(j)' /\ ~Releasing(j)' /\ Releasing(j)
    BY <2>1, <2>3, NamesAssumption DEF Alone, Releasing
  <2>5. pass.at \in 1..Len(held_jobs[a]) /\ held_jobs[a][pass.at] = j
    BY <2>1, NamesAssumption DEF IteratorValid
  <2>6. bank_info[j] = a
    <3>1. j \in HeldBy(a)
      BY <2>2, <2>5 DEF HeldBy, ToSet
    <3> QED BY <2>2, <3>1 DEF HeldJobsConsistent, HeldAreDependents
  <2>7. ASSUME NEW b \in Assoc
        PROVE  HeldBy(b)' = HeldBy(b) \ {j} /\ IsInjective(held_jobs'[b])
    <3>1. CASE b = a
      <4>1. held_jobs'[b] = RemoveAt(held_jobs[b], pass.at)
        BY <2>1, <2>2, <3>1
      <4>2. held_jobs[b] \in Seq(Jobs) /\ IsInjective(held_jobs[b])
        BY <2>2 DEF HeldJobsConsistent
      <4> QED BY <2>5, <3>1, <4>1, <4>2, RemoveAtHeld DEF HeldBy
    <3>2. CASE b # a
      <4>1. held_jobs'[b] = held_jobs[b]
        BY <2>1, <2>2, <3>2
      <4>2. j \notin HeldBy(b)
        BY <2>6, <3>2 DEF HeldJobsConsistent, HeldAreDependents
      <4> QED BY <4>1, <4>2 DEF HeldBy, HeldJobsConsistent
    <3> QED BY <3>1, <3>2
  <2>8. dependencies'[j] \cap Dep = {}
    <3>1. Dependent(j)
      BY HeldJobByJob
    <3> QED BY <2>1, <2>4, <3>1 DEF Dependent
  <2>9. Dependent(j)'
    BY <2>1, <2>8, <1>n DEF Dependent
  <2>10. \A b \in Assoc : j \notin HeldBy(b)'
    BY <2>7
  <2>11. \A b \in Assoc : HeldBy(b)' \ {j} = HeldBy(b) \ {j} /\ IsInjective(held_jobs'[b])
    BY <2>7
  <2> QED BY <2>1, <2>4, <2>9, <2>10, <2>11, <1>t, OthersHeld
<1>15. ASSUME UNCHANGED <<heldVars, jobVars, call>>,
              pass = NULL \/ pass.job = NULL, pass' = NULL \/ pass'.job = NULL
       PROVE  HeldJobsConsistent'
  <2>1. \A j \in Jobs : ~Releasing(j) /\ ~Releasing(j)'
    BY <1>15, NamesAssumption DEF Releasing
  <2>2. \A a : HeldBy(a)' = HeldBy(a)
    BY <1>15 DEF HeldBy
  <2>3. ASSUME NEW j \in Jobs PROVE Dependent(j)'
    <3>1. Dependent(j) /\ HeldBy(bank_info[j])' = HeldBy(bank_info[j])
      BY <2>2, <1>15, HeldJobByJob DEF HeldBy
    <3> QED BY <1>15, <2>1, <3>1 DEF Dependent
  <2>4. DependentsAreHeld'
    BY <2>3, Zenon DEF DependentsAreHeld, Dependent
  <2>5. HeldAreDependents'
    <3> SUFFICES ASSUME NEW a \in Assoc, NEW j \in HeldBy(a) PROVE HeldWell(a, j)'
      BY <2>2 DEF HeldAreDependents, HeldWell
    <3>1. HeldWell(a, j) /\ j \in Jobs
      BY HeldByJobs DEF HeldJobsConsistent, HeldAreDependents, HeldWell
    <3> QED BY <1>15, <2>1, <3>1 DEF HeldWell
  <2> QED BY <1>15, <2>4, <2>5 DEF HeldJobsConsistent
<1>16. CASE EndPass \/ \E a \in Assoc : ReprioritizeNext(a)
  <2>1. UNCHANGED <<heldVars, jobVars, call>> /\ (pass = NULL \/ pass.job = NULL)
    BY <1>16 DEF EndPass, ReprioritizeNext
  <2>2. pass' = NULL \/ pass'.job = NULL
    BY <1>16 DEF EndPass, ReprioritizeNext, PassIfHeld, StartPass
  <2> QED BY <2>1, <2>2, <1>15
<1>17. CASE Update
  <2>1. Idle /\ UNCHANGED <<heldVars, jobVars, call, pass>>
    BY <1>17
    DEF Update, RecUpdate, RecQUpdate, RecProjUpdate, RecConfigUpdate, Reprioritize
  <2> QED BY <1>15, <2>1 DEF Idle
<1>18. CASE UNCHANGED vars
  <2>1. UNCHANGED <<heldVars, jobVars, call, pass>>
    BY <1>18 DEF vars
  <2>2. \A a : HeldBy(a)' = HeldBy(a)
    BY <2>1 DEF HeldBy
  <2> QED BY <2>1, <2>2
          DEF HeldJobsConsistent, DependentsAreHeld, HeldAreDependents, Releasing, HeldBy
<1> QED
  BY <1>1, <1>2, <1>3, <1>4, <1>5, <1>6, <1>7, <1>8, <1>9, <1>10, <1>11, <1>12, <1>13,
     <1>14, <1>16, <1>17, <1>18
  DEF Next, Submit, Callback, JobEvent, ReleasePass

-----------------------------------------------------------------------------
(* Theorems *)

LEMMA InitInv == Init => IInv
<1> SUFFICES ASSUME Init PROVE IInv
  OBVIOUS
<1>1. TypeOK
  BY InitType
<1> USE DEF Init, InitCounts, InitJobs
<1>2. call = NULL /\ pass = NULL
  OBVIOUS
<1>3. \A c \in {"depend", "priority", "sched", "inactive"} : \A j \in Jobs :
        [cb |-> c, job |-> j] # NULL
  BY NullAssumption DEF Call
<1>4. JobsConsistent
  BY <1>2, <1>3 DEF JobsConsistent
<1>5. \A a \in Assoc : held_jobs[a] = <<>> /\ HeldBy(a) = {}
  BY DEF HeldBy, ToSet
<1>6. HeldJobsConsistent
  BY <1>2, <1>3, <1>5
  DEF HeldJobsConsistent, DependentsAreHeld, HeldAreDependents, IsInjective
<1>7. IteratorValid
  BY <1>2 DEF IteratorValid
<1> QED BY <1>1, <1>4, <1>6, <1>7 DEF IInv

LEMMA NextInv == IInv /\ [Next]_vars => IInv'
  BY NextType, NextJobs, NextHeld, NextIterator DEF IInv

\* The inductive invariant holds of every execution of the plugin.
THEOREM Invariance == Spec => []IInv
  BY InitInv, NextInv, PTL DEF Spec

\* Every variable keeps its type, whatever payloads and requests come in.
THEOREM TypeCorrect == Spec => []TypeOK
<1>1. IInv => TypeOK
  BY DEF IInv
<1> QED BY Invariance, <1>1, PTL

\* The plugin's record of a job, its flux-core state and the eventlog that
\* inactive_cb () reads never disagree.
THEOREM JobsStayConsistent == Spec => []JobsConsistent
<1>1. IInv => JobsConsistent
  BY DEF IInv
<1> QED BY Invariance, <1>1, PTL

\* No job carries a dependency of the plugin without being in held_jobs, and
\* none is in there twice, for another association or without a dependency.
THEOREM HeldStayConsistent == Spec => []HeldJobsConsistent
<1>1. IInv => HeldJobsConsistent
  BY DEF IInv
<1> QED BY Invariance, <1>1, PTL

\* The callbacks nested in check_and_release_held_jobs () never move the entry
\* its iterator is on.
THEOREM IteratorStaysValid == Spec => []IteratorValid
<1>1. IInv => IteratorValid
  BY DEF IInv
<1> QED BY Invariance, <1>1, PTL

-----------------------------------------------------------------------------
(* The counters of the priority plugin count what they say, for every set  *)
(* of jobs, associations and limits.                                       *)


\* A set of jobs that one job joins or leaves.
LEMMA OneJob ==
  ASSUME NEW S \in SUBSET Jobs, NEW j \in Jobs
  PROVE  /\ Cardinality(S) \in Int
         /\ j \notin S => Cardinality(S \cup {j}) = Cardinality(S) + 1
         /\ j \in S => Cardinality(S \ {j}) = Cardinality(S) - 1
<1>1. IsFiniteSet(S)
  BY FS_Subset, NamesAssumption
<1> QED BY <1>1, FS_AddElement, FS_RemoveElement, FS_CardinalityType

\* The sets of jobs behind the counters depend on three things only.
LEMMA SameJobs ==
  ASSUME UNCHANGED <<bank_info, posted>>, NEW a \in Assoc,
         \A i \in Jobs : bank_info[i] = a =>
            (state'[i] \in {"UNSUBMITTED", "NEW", "INACTIVE"}
               <=> state[i] \in {"UNSUBMITTED", "NEW", "INACTIVE"})
  PROVE  /\ ActiveJobs(a)' = ActiveJobs(a)
         /\ RunJobs(a)' = RunJobs(a) /\ SchedJobs(a)' = SchedJobs(a)
<1>1. ActiveJobs(a)' = ActiveJobs(a)
  BY DEF ActiveJobs
<1> QED BY <1>1 DEF RunJobs, SchedJobs

\* What each event makes of the sets of jobs: one joins the waiting jobs ...
LEMMA SchedSets ==
  ASSUME TypeOK, JobsConsistent, NEW j \in Jobs, Sched(j), NEW b \in Assoc
  PROVE  /\ ActiveJobs(b)' = ActiveJobs(b) /\ RunJobs(b)' = RunJobs(b)
         /\ SchedJobs(b)' = IF b = bank_info[j] THEN SchedJobs(b) \cup {j} ELSE SchedJobs(b)
         /\ j \notin SchedJobs(b)
<1>t. /\ state \in [Jobs -> JobState] /\ bank_info \in [Jobs -> Assoc \cup {NULL}]
      /\ posted \in [Jobs -> SUBSET {"priority", "alloc"}]
  BY DEF TypeOK
<1>1. /\ state[j] = "PRIORITY" /\ state' = [state EXCEPT ![j] = "SCHED"] /\ posted[j] = {}
      /\ posted' = [posted EXCEPT ![j] = @ \cup {"priority"}] /\ bank_info' = bank_info
  BY DEF Sched, JobsConsistent
<1>2. posted'[j] = {"priority"} /\ \A i \in Jobs \ {j} : posted'[i] = posted[i]
  BY <1>1, <1>t
<1>3. ActiveJobs(b)' = ActiveJobs(b) /\ (j \in ActiveJobs(b) <=> b = bank_info[j])
  BY <1>1, <1>t DEF ActiveJobs
<1>4. ActiveJobs(b) \subseteq Jobs
  BY DEF ActiveJobs
<1>5. RunJobs(b)' = RunJobs(b)
  BY <1>1, <1>2, <1>3, <1>4 DEF RunJobs
<1>6. /\ SchedJobs(b)' = IF b = bank_info[j] THEN SchedJobs(b) \cup {j} ELSE SchedJobs(b)
      /\ j \notin SchedJobs(b)
  BY <1>1, <1>2, <1>3, <1>4 DEF SchedJobs
<1> QED BY <1>3, <1>5, <1>6

\* ... leaves them for the running ones ...
LEMMA RunSets ==
  ASSUME TypeOK, JobsConsistent, NEW j \in Jobs, Run(j), NEW b \in Assoc
  PROVE  /\ ActiveJobs(b)' = ActiveJobs(b)
         /\ RunJobs(b)' = IF b = bank_info[j] THEN RunJobs(b) \cup {j} ELSE RunJobs(b)
         /\ j \notin RunJobs(b)
         /\ SchedJobs(b)' = IF b = bank_info[j] THEN SchedJobs(b) \ {j} ELSE SchedJobs(b)
         /\ b = bank_info[j] => j \in SchedJobs(b)
<1>t. /\ state \in [Jobs -> JobState] /\ bank_info \in [Jobs -> Assoc \cup {NULL}]
      /\ posted \in [Jobs -> SUBSET {"priority", "alloc"}]
  BY DEF TypeOK
<1>1. /\ state[j] = "SCHED" /\ state' = [state EXCEPT ![j] = "RUN"] /\ posted[j] = {"priority"}
      /\ posted' = [posted EXCEPT ![j] = @ \cup {"alloc"}] /\ bank_info' = bank_info
  BY DEF Run, JobsConsistent
<1>2. posted'[j] = {"priority", "alloc"} /\ \A i \in Jobs \ {j} : posted'[i] = posted[i]
  BY <1>1, <1>t
<1>3. ActiveJobs(b)' = ActiveJobs(b) /\ (j \in ActiveJobs(b) <=> b = bank_info[j])
  BY <1>1, <1>t DEF ActiveJobs
<1>4. ActiveJobs(b) \subseteq Jobs
  BY DEF ActiveJobs
<1> QED BY <1>1, <1>2, <1>3, <1>4 DEF RunJobs, SchedJobs

\* ... and leaves the set its events have put it in.
LEMMA InactiveSets ==
  ASSUME TypeOK, JobsConsistent, NEW j \in Jobs, InactivePending(j) \/ InactiveAllocated(j),
         NEW b \in Assoc
  PROVE  /\ ActiveJobs(b)' = IF b = bank_info[j] THEN ActiveJobs(b) \ {j} ELSE ActiveJobs(b)
         /\ b = bank_info[j] => j \in ActiveJobs(b)
         /\ RunJobs(b)' = IF b = bank_info[j] /\ "alloc" \in posted[j] THEN RunJobs(b) \ {j}
                          ELSE RunJobs(b)
         /\ b = bank_info[j] /\ "alloc" \in posted[j] => j \in RunJobs(b)
         /\ SchedJobs(b)' =
              IF b = bank_info[j] /\ "priority" \in posted[j] /\ "alloc" \notin posted[j]
              THEN SchedJobs(b) \ {j} ELSE SchedJobs(b)
         /\ b = bank_info[j] /\ "priority" \in posted[j] /\ "alloc" \notin posted[j]
              => j \in SchedJobs(b)
<1>t. state \in [Jobs -> JobState] /\ bank_info \in [Jobs -> Assoc \cup {NULL}]
  BY DEF TypeOK
<1>1. /\ state[j] = "CLEANUP" /\ state' = [state EXCEPT ![j] = "INACTIVE"]
      /\ UNCHANGED <<bank_info, posted>>
  BY DEF InactivePending, InactiveAllocated, GoesInactive
<1>2. /\ ActiveJobs(b)' = IF b = bank_info[j] THEN ActiveJobs(b) \ {j} ELSE ActiveJobs(b)
      /\ j \in ActiveJobs(b) <=> b = bank_info[j]
  BY <1>1, <1>t DEF ActiveJobs
<1> QED BY <1>1, <1>2 DEF RunJobs, SchedJobs

\* job.new makes a job active, that neither runs nor waits.
LEMMA NewSets ==
  ASSUME TypeOK, JobsConsistent, NEW j \in Jobs, New(j), NEW b \in Assoc
  PROVE  /\ ActiveJobs(b)' =
              IF b = NewAssociation(j) THEN ActiveJobs(b) \cup {j} ELSE ActiveJobs(b)
         /\ j \notin ActiveJobs(b)
         /\ RunJobs(b)' = RunJobs(b) /\ SchedJobs(b)' = SchedJobs(b)
<1> DEFINE a == NewAssociation(j)
<1>t. state \in [Jobs -> JobState] /\ bank_info \in [Jobs -> Assoc \cup {NULL}]
  BY DEF TypeOK
<1>1. /\ a \in Assoc /\ state[j] = "NEW" /\ state' = [state EXCEPT ![j] = "DEPEND"]
      /\ bank_info' = [bank_info EXCEPT ![j] = a] /\ bank_info[j] = NULL
      /\ posted[j] = {} /\ posted' = posted
  BY NewJobspecType DEF New, Attach, JobsConsistent
<1> HIDE DEF a
<1>2. /\ ActiveJobs(b)' = IF b = a THEN ActiveJobs(b) \cup {j} ELSE ActiveJobs(b)
      /\ j \notin ActiveJobs(b)
  BY <1>1, <1>t, NullAssumption DEF ActiveJobs
<1>3. RunJobs(b)' = RunJobs(b) /\ SchedJobs(b)' = SchedJobs(b)
  BY <1>1, <1>2 DEF RunJobs, SchedJobs
<1> QED BY <1>2, <1>3 DEF a

\* The other steps leave the sets as they are.
LEMMA OtherSets ==
  ASSUME TypeOK, JobsConsistent, NEW j \in Jobs, NEW b \in Assoc,
         \/ Validate(j, jobspec'[j]) \/ NewRejected(j)
         \/ Depend(j) \/ AfterAnyDone(j) \/ Priority(j) \/ Finish(j) \/ Cancel(j)
         \/ Keep(j) \/ Release(j) \/ Commit(j)
  PROVE  ActiveJobs(b)' = ActiveJobs(b) /\ RunJobs(b)' = RunJobs(b)
         /\ SchedJobs(b)' = SchedJobs(b)
<1> USE DEF countVars, heldVars, jobVars
<1>t. state \in [Jobs -> JobState] /\ bank_info \in [Jobs -> Assoc \cup {NULL}]
  BY DEF TypeOK
<1>1. CASE Validate(j, jobspec'[j]) \/ NewRejected(j)
  <2>1. /\ posted' = posted /\ bank_info[j] = NULL
        /\ bank_info' = bank_info /\ \E s : state' = [state EXCEPT ![j] = s]
    BY <1>1, <1>t DEF Validate, Accept, NewRejected, JobsConsistent
  <2>2. \A i \in Jobs : bank_info[i] = b => state'[i] = state[i]
    BY <2>1, <1>t, NullAssumption
  <2> QED BY <2>1, <2>2, SameJobs
<1>2. CASE \/ Depend(j) \/ AfterAnyDone(j) \/ Priority(j) \/ Finish(j) \/ Cancel(j)
           \/ Keep(j) \/ Release(j) \/ Commit(j)
  <2>1. /\ UNCHANGED <<posted, bank_info>>
        /\ \/ state' = state
           \/ /\ state[j] \in {"DEPEND", "PRIORITY", "SCHED", "RUN"}
              /\ \E s \in {"PRIORITY", "CLEANUP"} : state' = [state EXCEPT ![j] = s]
    BY <1>2 DEF Depend, AfterAnyDone, Priority, Prioritized, Finish, Cancel, Keep,
                Release, Commit, JobsConsistent
  <2>2. ASSUME NEW i \in Jobs
        PROVE  state'[i] \in {"UNSUBMITTED", "NEW", "INACTIVE"}
                 <=> state[i] \in {"UNSUBMITTED", "NEW", "INACTIVE"}
    BY <2>1, <1>t
  <2> QED BY <2>1, <2>2, SameJobs
<1> QED BY <1>1, <1>2

\* The step of JobCountsExact, for a step that leaves the counters alone.
LEMMA SameCounts ==
  ASSUME JobCountsExact, UNCHANGED <<cur_active_jobs, cur_run_jobs, cur_sched_jobs>>,
         \A a \in Assoc : /\ ActiveJobs(a)' = ActiveJobs(a)
                          /\ RunJobs(a)' = RunJobs(a) /\ SchedJobs(a)' = SchedJobs(a)
  PROVE  JobCountsExact'
  BY DEF JobCountsExact

LEMMA InitJobCounts == Init => JobCountsExact
<1> SUFFICES ASSUME Init, NEW a \in Assoc
             PROVE  /\ cur_active_jobs[a] = Cardinality(ActiveJobs(a))
                    /\ cur_run_jobs[a] = Cardinality(RunJobs(a))
                    /\ cur_sched_jobs[a] = Cardinality(SchedJobs(a))
  BY DEF JobCountsExact
<1>1. ActiveJobs(a) = {} /\ RunJobs(a) = {} /\ SchedJobs(a) = {}
  BY DEF Init, InitJobs, ActiveJobs, RunJobs, SchedJobs
<1> QED BY <1>1, FS_EmptySet DEF Init, InitCounts

LEMMA NextJobCounts == IInv /\ JobCountsExact /\ [Next]_vars => JobCountsExact'
<1> SUFFICES ASSUME TypeOK, JobsConsistent, HeldJobsConsistent, IteratorValid,
                    JobCountsExact, [Next]_vars
             PROVE  JobCountsExact'
  BY DEF IInv
<1> USE DEF confVars, countVars, heldVars, jobVars, runVars
<1>t. /\ state \in [Jobs -> JobState] /\ bank_info \in [Jobs -> Assoc \cup {NULL}]
      /\ posted \in [Jobs -> SUBSET {"priority", "alloc"}]
      /\ cur_active_jobs \in [Assoc -> Int] /\ cur_run_jobs \in [Assoc -> Int]
      /\ cur_sched_jobs \in [Assoc -> Int]
  BY DEF TypeOK
<1>1. ASSUME NEW j \in Jobs,
             \/ Validate(j, jobspec'[j]) \/ NewRejected(j)
             \/ Depend(j) \/ AfterAnyDone(j) \/ Priority(j) \/ Finish(j) \/ Cancel(j)
             \/ Keep(j) \/ Release(j) \/ Commit(j)
      PROVE  JobCountsExact'
  <2>1. UNCHANGED <<cur_active_jobs, cur_run_jobs, cur_sched_jobs>>
    BY <1>1 DEF Validate, NewRejected, Depend, AfterAnyDone, Priority, Finish, Cancel, Keep,
                Release, Commit
  <2> QED BY <1>1, <2>1, OtherSets, SameCounts
<1>2. ASSUME NEW j \in Jobs, New(j) PROVE JobCountsExact'
  <2> DEFINE a == NewAssociation(j)
  <2>1. /\ a \in Assoc /\ state[j] = "NEW" /\ state' = [state EXCEPT ![j] = "DEPEND"]
        /\ bank_info' = [bank_info EXCEPT ![j] = a] /\ bank_info[j] = NULL
        /\ posted[j] = {} /\ cur_active_jobs' = [cur_active_jobs EXCEPT ![a] = @ + 1]
        /\ UNCHANGED <<posted, cur_run_jobs, cur_sched_jobs>>
    BY <1>2, NewJobspecType DEF New, Attach, JobsConsistent
  <2> HIDE DEF a
  <2>2. ASSUME NEW b \in Assoc
        PROVE  /\ ActiveJobs(b)' = IF b = a THEN ActiveJobs(b) \cup {j} ELSE ActiveJobs(b)
               /\ j \notin ActiveJobs(b)
               /\ RunJobs(b)' = RunJobs(b) /\ SchedJobs(b)' = SchedJobs(b)
    BY <1>2, NewSets DEF a
  <2>3. ASSUME NEW b \in Assoc PROVE cur_active_jobs'[b] = Cardinality(ActiveJobs(b)')
    <3>1. ActiveJobs(b) \in SUBSET Jobs
      BY DEF ActiveJobs
    <3> QED BY <2>1, <2>2, <3>1, <1>t, OneJob DEF JobCountsExact
  <2> QED BY <2>1, <2>2, <2>3 DEF JobCountsExact
<1>4. ASSUME NEW j \in Jobs, Sched(j) PROVE JobCountsExact'
  <2> DEFINE a == bank_info[j]
  <2>1. /\ cur_sched_jobs' = [cur_sched_jobs EXCEPT ![a] = @ + 1]
        /\ UNCHANGED <<cur_active_jobs, cur_run_jobs>>
    BY <1>4 DEF Sched
  <2>2. a \in Assoc
    BY <1>4, AttachedJob DEF Sched, JobsConsistent
  <2>4. ASSUME NEW b \in Assoc
        PROVE  /\ ActiveJobs(b)' = ActiveJobs(b) /\ RunJobs(b)' = RunJobs(b)
               /\ SchedJobs(b)' = IF b = a THEN SchedJobs(b) \cup {j} ELSE SchedJobs(b)
               /\ j \notin SchedJobs(b)
    BY <1>4, SchedSets
  <2>5. ASSUME NEW b \in Assoc PROVE cur_sched_jobs'[b] = Cardinality(SchedJobs(b)')
    <3>1. SchedJobs(b) \in SUBSET Jobs /\ cur_sched_jobs[b] = Cardinality(SchedJobs(b))
      BY DEF ActiveJobs, SchedJobs, JobCountsExact
    <3>2. cur_sched_jobs'[b] = IF b = a THEN cur_sched_jobs[b] + 1 ELSE cur_sched_jobs[b]
      BY <2>1, <2>2, <1>t
    <3>3. CASE b = a
      <4>1. Cardinality(SchedJobs(b) \cup {j}) = Cardinality(SchedJobs(b)) + 1
        BY <2>4, <3>1, OneJob
      <4> QED BY <2>4, <3>1, <3>2, <3>3, <4>1
    <3>4. CASE b # a
      BY <2>4, <3>1, <3>2, <3>4
    <3> QED BY <3>3, <3>4
  <2> QED BY <2>1, <2>4, <2>5 DEF JobCountsExact
<1>5. ASSUME NEW j \in Jobs, Run(j) PROVE JobCountsExact'
  <2> DEFINE a == bank_info[j]
  <2>1. /\ cur_run_jobs' = [cur_run_jobs EXCEPT ![a] = @ + 1]
        /\ cur_sched_jobs' = [cur_sched_jobs EXCEPT ![a] = @ - 1]
        /\ cur_active_jobs' = cur_active_jobs
    BY <1>5 DEF Run
  <2>2. a \in Assoc
    BY <1>5, AttachedJob DEF Run
  <2>4. ASSUME NEW b \in Assoc
        PROVE  /\ ActiveJobs(b)' = ActiveJobs(b)
               /\ RunJobs(b)' = IF b = a THEN RunJobs(b) \cup {j} ELSE RunJobs(b)
               /\ j \notin RunJobs(b)
               /\ SchedJobs(b)' = IF b = a THEN SchedJobs(b) \ {j} ELSE SchedJobs(b)
               /\ b = a => j \in SchedJobs(b)
    BY <1>5, RunSets
  <2>5. ASSUME NEW b \in Assoc
        PROVE  /\ cur_run_jobs'[b] = Cardinality(RunJobs(b)')
               /\ cur_sched_jobs'[b] = Cardinality(SchedJobs(b)')
    <3>1. RunJobs(b) \in SUBSET Jobs /\ SchedJobs(b) \in SUBSET Jobs
      BY DEF ActiveJobs, RunJobs, SchedJobs
    <3>2. /\ cur_run_jobs[b] = Cardinality(RunJobs(b))
          /\ cur_sched_jobs[b] = Cardinality(SchedJobs(b))
      BY DEF JobCountsExact
    <3>3. /\ cur_run_jobs'[b] = IF b = a THEN cur_run_jobs[b] + 1 ELSE cur_run_jobs[b]
          /\ cur_sched_jobs'[b] = IF b = a THEN cur_sched_jobs[b] - 1 ELSE cur_sched_jobs[b]
      BY <2>1, <2>2, <1>t
    <3>4. /\ j \notin RunJobs(b) => Cardinality(RunJobs(b) \cup {j}) = Cardinality(RunJobs(b)) + 1
          /\ j \in SchedJobs(b) =>
               Cardinality(SchedJobs(b) \ {j}) = Cardinality(SchedJobs(b)) - 1
      BY <3>1, OneJob
    <3>5. CASE b = a
      BY <2>4, <3>2, <3>3, <3>4, <3>5
    <3>6. CASE b # a
      BY <2>4, <3>2, <3>3, <3>6
    <3> QED BY <3>5, <3>6
  <2> QED BY <2>1, <2>4, <2>5 DEF JobCountsExact
<1>6. ASSUME NEW j \in Jobs, InactivePending(j) \/ InactiveAllocated(j) PROVE JobCountsExact'
  <2> DEFINE a == bank_info[j]
  <2>1. /\ cur_active_jobs' = [cur_active_jobs EXCEPT ![a] = @ - 1]
        /\ cur_run_jobs' = IF "alloc" \in posted[j]
                           THEN [cur_run_jobs EXCEPT ![a] = @ - 1] ELSE cur_run_jobs
        /\ cur_sched_jobs' = IF "priority" \in posted[j] /\ "alloc" \notin posted[j]
                             THEN [cur_sched_jobs EXCEPT ![a] = @ - 1] ELSE cur_sched_jobs
    BY <1>6 DEF InactivePending, InactiveAllocated
  <2>2. a \in Assoc
    BY <1>6, AttachedJob DEF InactivePending, InactiveAllocated, GoesInactive
  <2>3. ASSUME NEW b \in Assoc
        PROVE  /\ ActiveJobs(b)' = IF b = a THEN ActiveJobs(b) \ {j} ELSE ActiveJobs(b)
               /\ b = a => j \in ActiveJobs(b)
               /\ RunJobs(b)' = IF b = a /\ "alloc" \in posted[j] THEN RunJobs(b) \ {j}
                                ELSE RunJobs(b)
               /\ b = a /\ "alloc" \in posted[j] => j \in RunJobs(b)
               /\ SchedJobs(b)' =
                    IF b = a /\ "priority" \in posted[j] /\ "alloc" \notin posted[j]
                    THEN SchedJobs(b) \ {j} ELSE SchedJobs(b)
               /\ b = a /\ "priority" \in posted[j] /\ "alloc" \notin posted[j]
                    => j \in SchedJobs(b)
    BY <1>6, InactiveSets
  <2>4. ASSUME NEW b \in Assoc
        PROVE  /\ cur_active_jobs'[b] = Cardinality(ActiveJobs(b)')
               /\ cur_run_jobs'[b] = Cardinality(RunJobs(b)')
               /\ cur_sched_jobs'[b] = Cardinality(SchedJobs(b)')
    <3>1. /\ ActiveJobs(b) \in SUBSET Jobs
          /\ RunJobs(b) \in SUBSET Jobs /\ SchedJobs(b) \in SUBSET Jobs
      BY DEF ActiveJobs, RunJobs, SchedJobs
    <3>2. /\ cur_active_jobs[b] = Cardinality(ActiveJobs(b))
          /\ cur_run_jobs[b] = Cardinality(RunJobs(b))
          /\ cur_sched_jobs[b] = Cardinality(SchedJobs(b))
      BY DEF JobCountsExact
    <3>3. /\ j \in ActiveJobs(b) =>
               Cardinality(ActiveJobs(b) \ {j}) = Cardinality(ActiveJobs(b)) - 1
          /\ j \in RunJobs(b) => Cardinality(RunJobs(b) \ {j}) = Cardinality(RunJobs(b)) - 1
          /\ j \in SchedJobs(b) =>
               Cardinality(SchedJobs(b) \ {j}) = Cardinality(SchedJobs(b)) - 1
      BY <3>1, OneJob
    <3>4. CASE b = a
      <4>1. /\ cur_active_jobs'[b] = cur_active_jobs[b] - 1
            /\ cur_run_jobs'[b] = IF "alloc" \in posted[j] THEN cur_run_jobs[b] - 1
                                  ELSE cur_run_jobs[b]
            /\ cur_sched_jobs'[b] =
                 IF "priority" \in posted[j] /\ "alloc" \notin posted[j]
                 THEN cur_sched_jobs[b] - 1 ELSE cur_sched_jobs[b]
        BY <2>1, <2>2, <3>4, <1>t
      <4> QED BY <2>3, <3>2, <3>3, <3>4, <4>1
    <3>5. CASE b # a
      <4>1. /\ cur_active_jobs'[b] = cur_active_jobs[b]
            /\ cur_run_jobs'[b] = cur_run_jobs[b] /\ cur_sched_jobs'[b] = cur_sched_jobs[b]
        BY <2>1, <3>5, <1>t
      <4> QED BY <2>3, <3>2, <3>5, <4>1
    <3> QED BY <3>4, <3>5
  <2> QED BY <2>4 DEF JobCountsExact
<1>7. ASSUME UNCHANGED <<countVars, jobVars>> PROVE JobCountsExact'
  <2>1. \A a \in Assoc : ActiveJobs(a)' = ActiveJobs(a) /\ RunJobs(a)' = RunJobs(a)
                         /\ SchedJobs(a)' = SchedJobs(a)
    BY <1>7, SameJobs
  <2> QED BY <1>7, <2>1, SameCounts
<1>8. CASE EndPass \/ (\E a \in Assoc : ReprioritizeNext(a)) \/ Update \/ UNCHANGED vars
  BY <1>7, <1>8 DEF EndPass, ReprioritizeNext, Update, RecUpdate, RecQUpdate,
     RecProjUpdate, RecConfigUpdate, Reprioritize, vars
<1>9. ASSUME NEW j \in Jobs, Submit(j) PROVE JobCountsExact'
  <2>1. ASSUME NEW r \in Requests, Validate(j, r) PROVE Validate(j, jobspec'[j])
    <3>1. jobspec'[j] = r
      BY <2>1 DEF Validate, Accept, TypeOK
    <3> QED BY <2>1, <3>1
  <2> QED BY <1>1, <1>2, <1>9, <2>1 DEF Submit
<1> QED
  BY <1>1, <1>4, <1>5, <1>6, <1>8, <1>9 DEF Next, Callback, JobEvent, ReleasePass

-----------------------------------------------------------------------------
(* Nodes and cores *)

\* The nodes and cores of a set of jobs, by their jobspecs.
NodesBy(spec, S) == SumFunctionOnSet([i \in S |-> spec[i].nnodes], S)
CoresBy(spec, S) == SumFunctionOnSet([i \in S |-> spec[i].ncores], S)
InBy(spec, S, q) == {i \in S : spec[i].queue = q}

\* What the usage record of queue q says of the running jobs in R ...
RunExact(spec, R, q, use) ==
  LET running == IF q = NoQueue THEN {} ELSE InBy(spec, R, q)
  IN  use.cur_run_jobs = Cardinality(running) /\ use.cur_nodes = NodesBy(spec, running)

\* ... and of the waiting jobs in W.
SchedExact(spec, W, q, use) ==
  LET waiting == InBy(spec, W, q)
  IN  /\ use.cur_sched_jobs = Cardinality(waiting)
      /\ use.cur_sched_nodes = NodesBy(spec, waiting)
      /\ use.cur_sched_cores = CoresBy(spec, waiting)

\* What the resource counters of association a say, in these parts.
AssocExact(spec, R, W, nodes, cores, usage) ==
  /\ nodes = NodesBy(spec, R) /\ cores = CoresBy(spec, R)
  /\ \A q \in QueueNames : RunExact(spec, R, q, usage[q]) /\ SchedExact(spec, W, q, usage[q])

LEMMA ResourceParts ==
  /\ ResourceCountsExact <=>
       \A a \in Assoc : AssocExact(jobspec, RunJobs(a), SchedJobs(a), cur_nodes[a],
                                   cur_cores[a], queue_usage[a])
  /\ ResourceCountsExact' <=>
       \A a \in Assoc : AssocExact(jobspec', RunJobs(a)', SchedJobs(a)', cur_nodes'[a],
                                   cur_cores'[a], queue_usage'[a])
<1> USE DEF ResourceCountsExact, AssocExact, RunExact, SchedExact, InBy, In, NodesBy, CoresBy,
            Nodes, Cores
<1>1. ResourceCountsExact <=>
        \A a \in Assoc : AssocExact(jobspec, RunJobs(a), SchedJobs(a), cur_nodes[a],
                                    cur_cores[a], queue_usage[a])
  OBVIOUS
<1>2. ResourceCountsExact' <=>
        \A a \in Assoc : AssocExact(jobspec', RunJobs(a)', SchedJobs(a)', cur_nodes'[a],
                                    cur_cores'[a], queue_usage'[a])
  OBVIOUS
<1> QED BY <1>1, <1>2

\* Jobspecs that agree on what is counted make no difference.
LEMMA SameSpecs ==
  ASSUME NEW spec, NEW spec2, NEW R, NEW W, NEW nodes, NEW cores, NEW usage,
         \A i \in R \cup W : /\ spec2[i].queue = spec[i].queue
                             /\ spec2[i].nnodes = spec[i].nnodes
                             /\ spec2[i].ncores = spec[i].ncores,
         AssocExact(spec, R, W, nodes, cores, usage)
  PROVE  AssocExact(spec2, R, W, nodes, cores, usage)
<1>1. ASSUME NEW S, S \subseteq R \/ S \subseteq W
      PROVE  NodesBy(spec2, S) = NodesBy(spec, S) /\ CoresBy(spec2, S) = CoresBy(spec, S)
  <2>1. [i \in S |-> spec2[i].nnodes] = [i \in S |-> spec[i].nnodes]
    BY <1>1
  <2>2. [i \in S |-> spec2[i].ncores] = [i \in S |-> spec[i].ncores]
    BY <1>1
  <2> QED BY <2>1, <2>2 DEF NodesBy, CoresBy
<1>2. ASSUME NEW q
      PROVE  InBy(spec2, R, q) = InBy(spec, R, q) /\ InBy(spec2, W, q) = InBy(spec, W, q)
  BY DEF InBy
<1>3. \A q : InBy(spec, R, q) \subseteq R /\ InBy(spec, W, q) \subseteq W
  BY DEF InBy
<1>4. {} \subseteq R
  OBVIOUS
<1> QED BY <1>1, <1>2, <1>3, <1>4 DEF AssocExact, RunExact, SchedExact

\* A set of submitted jobs that one job joins or leaves.
LEMMA OneJobsResources ==
  ASSUME NEW S \in SUBSET Jobs, NEW j \in Jobs, \A i \in S \cup {j} : jobspec[i] \in Request
  PROVE  /\ NodesBy(jobspec, S) \in Int /\ CoresBy(jobspec, S) \in Int
         /\ j \notin S =>
              /\ NodesBy(jobspec, S \cup {j}) = NodesBy(jobspec, S) + jobspec[j].nnodes
              /\ CoresBy(jobspec, S \cup {j}) = CoresBy(jobspec, S) + jobspec[j].ncores
         /\ j \in S =>
              /\ NodesBy(jobspec, S \ {j}) = NodesBy(jobspec, S) - jobspec[j].nnodes
              /\ CoresBy(jobspec, S \ {j}) = CoresBy(jobspec, S) - jobspec[j].ncores
<1> DEFINE n == [i \in Jobs |-> jobspec[i].nnodes]
           c == [i \in Jobs |-> jobspec[i].ncores]
<1>1. /\ \A i \in S \cup {j} : n[i] \in Int /\ c[i] \in Int
      /\ n[j] = jobspec[j].nnodes /\ c[j] = jobspec[j].ncores
  BY DEF Request
<1>2. ASSUME NEW T \in SUBSET Jobs
      PROVE  /\ IsFiniteSet(T) /\ NodesBy(jobspec, T) = SumFunctionOnSet(n, T)
             /\ CoresBy(jobspec, T) = SumFunctionOnSet(c, T)
  <2>1. IsFiniteSet(T)
    BY FS_Subset, NamesAssumption
  <2>2. /\ \A i \in T : [k \in T |-> jobspec[k].nnodes][i] = n[i]
        /\ \A i \in T : [k \in T |-> jobspec[k].ncores][i] = c[i]
    OBVIOUS
  <2> HIDE DEF n, c
  <2> QED BY <2>1, <2>2, SumAgrees DEF NodesBy, CoresBy
<1> HIDE DEF n, c
<1>3. SumFunctionOnSet(n, S) \in Int /\ SumFunctionOnSet(c, S) \in Int
  BY <1>1, <1>2, SumType
<1>4. S \cup {j} \in SUBSET Jobs /\ S \ {j} \in SUBSET Jobs
  OBVIOUS
<1>5. ASSUME j \notin S
      PROVE  /\ SumFunctionOnSet(n, S \cup {j}) = SumFunctionOnSet(n, S) + n[j]
             /\ SumFunctionOnSet(c, S \cup {j}) = SumFunctionOnSet(c, S) + c[j]
  <2>1. IsFiniteSet(S)
    BY <1>2
  <2>2. ASSUME NEW f, \A i \in S \cup {j} : f[i] \in Int
        PROVE  SumFunctionOnSet(f, S \cup {j}) = SumFunctionOnSet(f, S) + f[j]
    BY <1>5, <2>1, <2>2, SumWith
  <2>3. (\A i \in S \cup {j} : n[i] \in Int) /\ (\A i \in S \cup {j} : c[i] \in Int)
    BY <1>1
  <2> QED BY <2>2, <2>3
<1>6. j \in S => /\ SumFunctionOnSet(n, S) = n[j] + SumFunctionOnSet(n, S \ {j})
                 /\ SumFunctionOnSet(c, S) = c[j] + SumFunctionOnSet(c, S \ {j})
  BY <1>1, <1>2, SumWithout
<1>7. SumFunctionOnSet(n, S \ {j}) \in Int /\ SumFunctionOnSet(c, S \ {j}) \in Int
  BY <1>1, <1>2, <1>4, SumType
<1>8. NodesBy(jobspec, S) \in Int /\ CoresBy(jobspec, S) \in Int
  BY <1>2, <1>3
<1>9. j \notin S =>
        /\ NodesBy(jobspec, S \cup {j}) = NodesBy(jobspec, S) + jobspec[j].nnodes
        /\ CoresBy(jobspec, S \cup {j}) = CoresBy(jobspec, S) + jobspec[j].ncores
  BY <1>1, <1>2, <1>4, <1>5
<1>10. ASSUME j \in S
       PROVE  /\ NodesBy(jobspec, S \ {j}) = NodesBy(jobspec, S) - jobspec[j].nnodes
              /\ CoresBy(jobspec, S \ {j}) = CoresBy(jobspec, S) - jobspec[j].ncores
  <2>1. ASSUME NEW x \in Int, NEW y \in Int, NEW z, z = x + y PROVE y = z - x
    BY <2>1
  <2>2. n[j] \in Int /\ c[j] \in Int
    BY <1>1
  <2>3. /\ SumFunctionOnSet(n, S \ {j}) = SumFunctionOnSet(n, S) - n[j]
        /\ SumFunctionOnSet(c, S \ {j}) = SumFunctionOnSet(c, S) - c[j]
    BY <1>6, <1>7, <1>10, <2>1, <2>2
  <2> QED BY <1>1, <1>2, <1>4, <2>3
<1> QED BY <1>8, <1>9, <1>10

\* Another queue does not see the job.
LEMMA OtherQueue ==
  ASSUME NEW S, NEW j, NEW q, jobspec[j].queue # q
  PROVE  /\ InBy(jobspec, S \cup {j}, q) = InBy(jobspec, S, q)
         /\ InBy(jobspec, S \ {j}, q) = InBy(jobspec, S, q)
  BY DEF InBy

\* The five counters of a usage record after each of the updates.
LEMMA EnteredFields ==
  ASSUME NEW use \in QueueUsage, NEW j
  PROVE  LET e == EnteredSched(use, j)
         IN  /\ e.cur_run_jobs = use.cur_run_jobs /\ e.cur_nodes = use.cur_nodes
             /\ e.cur_sched_jobs = use.cur_sched_jobs + 1
             /\ e.cur_sched_nodes = use.cur_sched_nodes + jobspec[j].nnodes
             /\ e.cur_sched_cores = use.cur_sched_cores + jobspec[j].ncores
<1> DEFINE jobs == use.cur_sched_jobs + 1
           nodes == use.cur_sched_nodes + jobspec[j].nnodes
           cores == use.cur_sched_cores + jobspec[j].ncores
<1>1. EnteredSched(use, j) = [use EXCEPT !.cur_sched_jobs = jobs, !.cur_sched_nodes = nodes,
                                         !.cur_sched_cores = cores]
  BY DEF EnteredSched
<1> HIDE DEF jobs, nodes, cores
<1>2. LET e == EnteredSched(use, j)
      IN  /\ e.cur_run_jobs = use.cur_run_jobs /\ e.cur_nodes = use.cur_nodes
          /\ e.cur_sched_jobs = jobs /\ e.cur_sched_nodes = nodes /\ e.cur_sched_cores = cores
  BY <1>1 DEF QueueUsage
<1> QED BY <1>2 DEF jobs, nodes, cores

LEMMA LeftFields ==
  ASSUME NEW use \in QueueUsage, NEW j
  PROVE  LET e == LeftSched(use, j)
         IN  /\ e.cur_run_jobs = use.cur_run_jobs /\ e.cur_nodes = use.cur_nodes
             /\ e.cur_sched_jobs = use.cur_sched_jobs - 1
             /\ e.cur_sched_nodes = use.cur_sched_nodes - jobspec[j].nnodes
             /\ e.cur_sched_cores = use.cur_sched_cores - jobspec[j].ncores
<1> DEFINE jobs == use.cur_sched_jobs - 1
           nodes == use.cur_sched_nodes - jobspec[j].nnodes
           cores == use.cur_sched_cores - jobspec[j].ncores
<1>1. LeftSched(use, j) = [use EXCEPT !.cur_sched_jobs = jobs, !.cur_sched_nodes = nodes,
                                      !.cur_sched_cores = cores]
  BY DEF LeftSched
<1> HIDE DEF jobs, nodes, cores
<1>2. LET e == LeftSched(use, j)
      IN  /\ e.cur_run_jobs = use.cur_run_jobs /\ e.cur_nodes = use.cur_nodes
          /\ e.cur_sched_jobs = jobs /\ e.cur_sched_nodes = nodes /\ e.cur_sched_cores = cores
  BY <1>1 DEF QueueUsage
<1> QED BY <1>2 DEF jobs, nodes, cores

LEMMA StartedFields ==
  ASSUME NEW use \in QueueUsage, NEW q, NEW j
  PROVE  LET e == StartedIn(use, q, j)
         IN  /\ e.cur_sched_jobs = use.cur_sched_jobs
             /\ e.cur_sched_nodes = use.cur_sched_nodes
             /\ e.cur_sched_cores = use.cur_sched_cores
             /\ q # NoQueue => /\ e.cur_run_jobs = use.cur_run_jobs + 1
                               /\ e.cur_nodes = use.cur_nodes + jobspec[j].nnodes
<1> DEFINE jobs == use.cur_run_jobs + 1
           nodes == use.cur_nodes + jobspec[j].nnodes
           e == [use EXCEPT !.cur_run_jobs = jobs, !.cur_nodes = nodes]
<1>1. StartedIn(use, q, j) = IF q = NoQueue THEN use ELSE e
  BY DEF StartedIn
<1> HIDE DEF jobs, nodes
<1>2. /\ e.cur_sched_jobs = use.cur_sched_jobs /\ e.cur_sched_nodes = use.cur_sched_nodes
      /\ e.cur_sched_cores = use.cur_sched_cores
      /\ e.cur_run_jobs = jobs /\ e.cur_nodes = nodes
  BY DEF QueueUsage
<1> HIDE DEF e
<1> QED BY <1>1, <1>2 DEF jobs, nodes

LEMMA StoppedFields ==
  ASSUME NEW use \in QueueUsage, NEW q, NEW j
  PROVE  LET e == StoppedIn(use, q, j)
         IN  /\ e.cur_sched_jobs = use.cur_sched_jobs
             /\ e.cur_sched_nodes = use.cur_sched_nodes
             /\ e.cur_sched_cores = use.cur_sched_cores
             /\ q # NoQueue =>
                  /\ use.cur_run_jobs > 0 => e.cur_run_jobs = use.cur_run_jobs - 1
                  /\ e.cur_nodes = use.cur_nodes - jobspec[j].nnodes
<1> DEFINE jobs == IF use.cur_run_jobs > 0 THEN use.cur_run_jobs - 1 ELSE use.cur_run_jobs
           nodes == use.cur_nodes - jobspec[j].nnodes
           e == [use EXCEPT !.cur_run_jobs = jobs, !.cur_nodes = nodes]
<1>1. StoppedIn(use, q, j) = IF q = NoQueue THEN use ELSE e
  BY DEF StoppedIn
<1> HIDE DEF jobs, nodes
<1>2. /\ e.cur_sched_jobs = use.cur_sched_jobs /\ e.cur_sched_nodes = use.cur_sched_nodes
      /\ e.cur_sched_cores = use.cur_sched_cores
      /\ e.cur_run_jobs = jobs /\ e.cur_nodes = nodes
  BY DEF QueueUsage
<1> HIDE DEF e
<1> QED BY <1>1, <1>2 DEF jobs, nodes

\* A usage record that agrees in the counters of running jobs, or of waiting ones.
LEMMA SameUse ==
  ASSUME NEW spec, NEW S, NEW q, NEW use, NEW e
  PROVE  /\ /\ RunExact(spec, S, q, use)
            /\ e.cur_run_jobs = use.cur_run_jobs /\ e.cur_nodes = use.cur_nodes
            => RunExact(spec, S, q, e)
         /\ /\ SchedExact(spec, S, q, use)
            /\ e.cur_sched_jobs = use.cur_sched_jobs
            /\ e.cur_sched_nodes = use.cur_sched_nodes
            /\ e.cur_sched_cores = use.cur_sched_cores
            => SchedExact(spec, S, q, e)
  BY DEF RunExact, SchedExact

\* A job joins the waiting jobs of its queue, or leaves them.
LEMMA QueueWaits ==
  ASSUME NEW W \in SUBSET Jobs, NEW j \in Jobs, \A i \in W \cup {j} : jobspec[i] \in Request,
         NEW use, NEW e, SchedExact(jobspec, W, jobspec[j].queue, use)
  PROVE  /\ /\ j \notin W
            /\ e.cur_sched_jobs = use.cur_sched_jobs + 1
            /\ e.cur_sched_nodes = use.cur_sched_nodes + jobspec[j].nnodes
            /\ e.cur_sched_cores = use.cur_sched_cores + jobspec[j].ncores
            => SchedExact(jobspec, W \cup {j}, jobspec[j].queue, e)
         /\ /\ j \in W
            /\ e.cur_sched_jobs = use.cur_sched_jobs - 1
            /\ e.cur_sched_nodes = use.cur_sched_nodes - jobspec[j].nnodes
            /\ e.cur_sched_cores = use.cur_sched_cores - jobspec[j].ncores
            => SchedExact(jobspec, W \ {j}, jobspec[j].queue, e)
<1> DEFINE q == jobspec[j].queue
           S == InBy(jobspec, W, q)
<1>1. /\ InBy(jobspec, W \cup {j}, q) = S \cup {j} /\ InBy(jobspec, W \ {j}, q) = S \ {j}
      /\ j \in S <=> j \in W
      /\ S \in SUBSET Jobs /\ \A i \in S \cup {j} : jobspec[i] \in Request
  <2>1. S \subseteq W
    BY DEF InBy
  <2>2. /\ InBy(jobspec, W \cup {j}, q) = S \cup {j} /\ InBy(jobspec, W \ {j}, q) = S \ {j}
        /\ j \in S <=> j \in W
    BY DEF InBy
  <2> HIDE DEF S
  <2> QED BY <2>1, <2>2
<1>2. /\ use.cur_sched_jobs = Cardinality(S) /\ use.cur_sched_nodes = NodesBy(jobspec, S)
      /\ use.cur_sched_cores = CoresBy(jobspec, S)
  BY DEF SchedExact
<1> HIDE DEF S
<1>3. ASSUME j \notin S
      PROVE  /\ Cardinality(S \cup {j}) = Cardinality(S) + 1
             /\ NodesBy(jobspec, S \cup {j}) = NodesBy(jobspec, S) + jobspec[j].nnodes
             /\ CoresBy(jobspec, S \cup {j}) = CoresBy(jobspec, S) + jobspec[j].ncores
  BY <1>1, <1>3, OneJob, OneJobsResources
<1>4. ASSUME j \in S
      PROVE  /\ Cardinality(S \ {j}) = Cardinality(S) - 1
             /\ NodesBy(jobspec, S \ {j}) = NodesBy(jobspec, S) - jobspec[j].nnodes
             /\ CoresBy(jobspec, S \ {j}) = CoresBy(jobspec, S) - jobspec[j].ncores
  BY <1>1, <1>4, OneJob, OneJobsResources
<1> QED BY <1>1, <1>2, <1>3, <1>4 DEF SchedExact

\* A job joins the running jobs of its queue, or leaves them; no queue, no count.
LEMMA QueueRuns ==
  ASSUME NEW R \in SUBSET Jobs, NEW j \in Jobs, \A i \in R \cup {j} : jobspec[i] \in Request,
         NEW use, NEW e, RunExact(jobspec, R, jobspec[j].queue, use)
  PROVE  /\ /\ j \notin R
            /\ jobspec[j].queue = NoQueue => e = use
            /\ jobspec[j].queue # NoQueue =>
                 /\ e.cur_run_jobs = use.cur_run_jobs + 1
                 /\ e.cur_nodes = use.cur_nodes + jobspec[j].nnodes
            => RunExact(jobspec, R \cup {j}, jobspec[j].queue, e)
         /\ /\ j \in R
            /\ jobspec[j].queue = NoQueue => e = use
            /\ jobspec[j].queue # NoQueue =>
                 /\ e.cur_run_jobs = use.cur_run_jobs - 1
                 /\ e.cur_nodes = use.cur_nodes - jobspec[j].nnodes
            => RunExact(jobspec, R \ {j}, jobspec[j].queue, e)
         /\ j \in R /\ jobspec[j].queue # NoQueue => use.cur_run_jobs > 0
<1> DEFINE q == jobspec[j].queue
           S == InBy(jobspec, R, q)
<1>1. /\ InBy(jobspec, R \cup {j}, q) = S \cup {j} /\ InBy(jobspec, R \ {j}, q) = S \ {j}
      /\ j \in S <=> j \in R
      /\ S \in SUBSET Jobs /\ \A i \in S \cup {j} : jobspec[i] \in Request
  <2>1. S \subseteq R
    BY DEF InBy
  <2>2. /\ InBy(jobspec, R \cup {j}, q) = S \cup {j} /\ InBy(jobspec, R \ {j}, q) = S \ {j}
        /\ j \in S <=> j \in R
    BY DEF InBy
  <2> HIDE DEF S
  <2> QED BY <2>1, <2>2
<1>2. q # NoQueue => use.cur_run_jobs = Cardinality(S) /\ use.cur_nodes = NodesBy(jobspec, S)
  BY DEF RunExact
<1> HIDE DEF S
<1>3. ASSUME j \notin S
      PROVE  /\ Cardinality(S \cup {j}) = Cardinality(S) + 1
             /\ NodesBy(jobspec, S \cup {j}) = NodesBy(jobspec, S) + jobspec[j].nnodes
  BY <1>1, <1>3, OneJob, OneJobsResources
<1>4. ASSUME j \in S
      PROVE  /\ Cardinality(S \ {j}) = Cardinality(S) - 1
             /\ NodesBy(jobspec, S \ {j}) = NodesBy(jobspec, S) - jobspec[j].nnodes
             /\ Cardinality(S) > 0
  <2>1. IsFiniteSet(S) /\ S # {}
    BY <1>1, <1>4, FS_Subset, NamesAssumption
  <2>2. Cardinality(S) \in Nat /\ Cardinality(S) # 0
    BY <2>1, FS_CardinalityType, FS_EmptySet
  <2> QED BY <1>1, <1>4, <2>2, OneJob, OneJobsResources
<1> QED BY <1>1, <1>2, <1>3, <1>4 DEF RunExact

\* The usage of a job's own queue when the job starts to wait ...
LEMMA WaitsInQueue ==
  ASSUME NEW R, NEW W \in SUBSET Jobs, NEW j \in Jobs, j \notin W,
         \A i \in W \cup {j} : jobspec[i] \in Request, NEW use \in QueueUsage,
         RunExact(jobspec, R, jobspec[j].queue, use),
         SchedExact(jobspec, W, jobspec[j].queue, use)
  PROVE  /\ RunExact(jobspec, R, jobspec[j].queue, EnteredSched(use, j))
         /\ SchedExact(jobspec, W \cup {j}, jobspec[j].queue, EnteredSched(use, j))
<1> DEFINE e == EnteredSched(use, j)
<1>1. /\ e.cur_run_jobs = use.cur_run_jobs /\ e.cur_nodes = use.cur_nodes
      /\ e.cur_sched_jobs = use.cur_sched_jobs + 1
      /\ e.cur_sched_nodes = use.cur_sched_nodes + jobspec[j].nnodes
      /\ e.cur_sched_cores = use.cur_sched_cores + jobspec[j].ncores
  BY EnteredFields
<1> HIDE DEF e
<1>2. RunExact(jobspec, R, jobspec[j].queue, e)
  BY <1>1, SameUse
<1>3. SchedExact(jobspec, W \cup {j}, jobspec[j].queue, e)
  BY <1>1, QueueWaits
<1> QED BY <1>2, <1>3 DEF e

\* ... ends its wait ...
LEMMA LeavesQueue ==
  ASSUME NEW R, NEW W \in SUBSET Jobs, NEW j \in Jobs, j \in W,
         \A i \in W \cup {j} : jobspec[i] \in Request, NEW use \in QueueUsage,
         RunExact(jobspec, R, jobspec[j].queue, use),
         SchedExact(jobspec, W, jobspec[j].queue, use)
  PROVE  /\ RunExact(jobspec, R, jobspec[j].queue, LeftSched(use, j))
         /\ SchedExact(jobspec, W \ {j}, jobspec[j].queue, LeftSched(use, j))
<1> DEFINE e == LeftSched(use, j)
<1>1. /\ e.cur_run_jobs = use.cur_run_jobs /\ e.cur_nodes = use.cur_nodes
      /\ e.cur_sched_jobs = use.cur_sched_jobs - 1
      /\ e.cur_sched_nodes = use.cur_sched_nodes - jobspec[j].nnodes
      /\ e.cur_sched_cores = use.cur_sched_cores - jobspec[j].ncores
  BY LeftFields
<1> HIDE DEF e
<1>2. RunExact(jobspec, R, jobspec[j].queue, e)
  BY <1>1, SameUse
<1>3. SchedExact(jobspec, W \ {j}, jobspec[j].queue, e)
  BY <1>1, QueueWaits
<1> QED BY <1>2, <1>3 DEF e

\* ... starts to run ...
LEMMA StartsInQueue ==
  ASSUME NEW R \in SUBSET Jobs, NEW W, NEW j \in Jobs, j \notin R,
         \A i \in R \cup {j} : jobspec[i] \in Request, NEW use \in QueueUsage,
         RunExact(jobspec, R, jobspec[j].queue, use),
         SchedExact(jobspec, W, jobspec[j].queue, use)
  PROVE  /\ RunExact(jobspec, R \cup {j}, jobspec[j].queue,
                     StartedIn(use, jobspec[j].queue, j))
         /\ SchedExact(jobspec, W, jobspec[j].queue, StartedIn(use, jobspec[j].queue, j))
<1> DEFINE e == StartedIn(use, jobspec[j].queue, j)
<1>1. /\ e.cur_sched_jobs = use.cur_sched_jobs /\ e.cur_sched_nodes = use.cur_sched_nodes
      /\ e.cur_sched_cores = use.cur_sched_cores
      /\ jobspec[j].queue # NoQueue => /\ e.cur_run_jobs = use.cur_run_jobs + 1
                                       /\ e.cur_nodes = use.cur_nodes + jobspec[j].nnodes
  BY StartedFields
<1>2. jobspec[j].queue = NoQueue => e = use
  BY DEF StartedIn
<1> HIDE DEF e
<1>3. RunExact(jobspec, R \cup {j}, jobspec[j].queue, e)
  BY <1>1, <1>2, QueueRuns
<1>4. SchedExact(jobspec, W, jobspec[j].queue, e)
  BY <1>1, SameUse
<1> QED BY <1>3, <1>4 DEF e

\* ... and stops running.
LEMMA StopsInQueue ==
  ASSUME NEW R \in SUBSET Jobs, NEW W, NEW j \in Jobs, j \in R,
         \A i \in R \cup {j} : jobspec[i] \in Request, NEW use \in QueueUsage,
         RunExact(jobspec, R, jobspec[j].queue, use),
         SchedExact(jobspec, W, jobspec[j].queue, use)
  PROVE  /\ RunExact(jobspec, R \ {j}, jobspec[j].queue,
                     StoppedIn(use, jobspec[j].queue, j))
         /\ SchedExact(jobspec, W, jobspec[j].queue, StoppedIn(use, jobspec[j].queue, j))
<1> DEFINE e == StoppedIn(use, jobspec[j].queue, j)
<1>0. jobspec[j].queue # NoQueue => use.cur_run_jobs > 0
  BY QueueRuns
<1>1. /\ e.cur_sched_jobs = use.cur_sched_jobs /\ e.cur_sched_nodes = use.cur_sched_nodes
      /\ e.cur_sched_cores = use.cur_sched_cores
      /\ jobspec[j].queue # NoQueue => /\ e.cur_run_jobs = use.cur_run_jobs - 1
                                       /\ e.cur_nodes = use.cur_nodes - jobspec[j].nnodes
  BY <1>0, StoppedFields
<1>2. jobspec[j].queue = NoQueue => e = use
  BY DEF StoppedIn
<1> HIDE DEF e
<1>3. RunExact(jobspec, R \ {j}, jobspec[j].queue, e)
  BY <1>1, <1>2, QueueRuns
<1>4. SchedExact(jobspec, W, jobspec[j].queue, e)
  BY <1>1, SameUse
<1> QED BY <1>3, <1>4 DEF e

\* The jobs that are counted have been submitted.
LEMMA CountedJobs ==
  ASSUME TypeOK, JobsConsistent, NEW a \in Assoc
  PROVE  /\ RunJobs(a) \in SUBSET Jobs /\ SchedJobs(a) \in SUBSET Jobs
         /\ \A i \in RunJobs(a) \cup SchedJobs(a) :
              jobspec[i] \in Request /\ bank_info[i] = a
<1>1. RunJobs(a) \subseteq ActiveJobs(a) /\ SchedJobs(a) \subseteq ActiveJobs(a)
  BY DEF RunJobs, SchedJobs
<1>2. ASSUME NEW i \in ActiveJobs(a)
      PROVE  i \in Jobs /\ jobspec[i] \in Request /\ bank_info[i] = a
  BY AttachedJob DEF ActiveJobs
<1> QED BY <1>1, <1>2

\* An event of job j, of association a, that leaves a's running jobs as R, its
\* waiting jobs as W, and the usage of the job's queue as use, which fit together.
EventFits(j, a, R, W, use) ==
  /\ R \in {RunJobs(a), RunJobs(a) \cup {j}, RunJobs(a) \ {j}}
  /\ W \in {SchedJobs(a), SchedJobs(a) \cup {j}, SchedJobs(a) \ {j}}
  /\ \A b \in Assoc : /\ RunJobs(b)' = IF b = a THEN R ELSE RunJobs(b)
                      /\ SchedJobs(b)' = IF b = a THEN W ELSE SchedJobs(b)
  /\ jobspec' = jobspec
  /\ cur_nodes' = [cur_nodes EXCEPT ![a] = NodesBy(jobspec, R)]
  /\ cur_cores' = [cur_cores EXCEPT ![a] = CoresBy(jobspec, R)]
  /\ queue_usage' =
       [queue_usage EXCEPT ![a] = [queue_usage[a] EXCEPT ![jobspec[j].queue] = use]]
  /\ RunExact(jobspec, R, jobspec[j].queue, use)
  /\ SchedExact(jobspec, W, jobspec[j].queue, use)

\* The step of ResourceCountsExact for such an event.
LEMMA EventStep ==
  ASSUME TypeOK, ResourceCountsExact, NEW j \in Jobs, NEW a \in Assoc, NEW R, NEW W, NEW use,
         EventFits(j, a, R, W, use)
  PROVE  ResourceCountsExact'
<1> DEFINE nodes == NodesBy(jobspec, R)  cores == CoresBy(jobspec, R)
<1> USE DEF EventFits
<1> DEFINE usage == queue_usage[a]
           usage2 == [usage EXCEPT ![jobspec[j].queue] = use]
<1>t. /\ cur_nodes \in [Assoc -> Int] /\ cur_cores \in [Assoc -> Int]
      /\ queue_usage \in [Assoc -> [QueueNames -> QueueUsage]]
  BY DEF TypeOK
<1>1. \A b \in Assoc : AssocExact(jobspec, RunJobs(b), SchedJobs(b), cur_nodes[b],
                                  cur_cores[b], queue_usage[b])
  BY ResourceParts
<1>2. AssocExact(jobspec, R, W, nodes, cores, usage2)
  <2> DEFINE q0 == jobspec[j].queue  R0 == RunJobs(a)  W0 == SchedJobs(a)
  <2>1. AssocExact(jobspec, R0, W0, cur_nodes[a], cur_cores[a], usage)
    BY <1>1
  <2>2. usage \in [QueueNames -> QueueUsage]
    BY <1>t
  <2>3. R \in {R0, R0 \cup {j}, R0 \ {j}} /\ W \in {W0, W0 \cup {j}, W0 \ {j}}
    OBVIOUS
  <2> HIDE DEF R0, W0, usage
  <2>4. ASSUME NEW q \in QueueNames, q = q0
        PROVE  RunExact(jobspec, R, q, usage2[q]) /\ SchedExact(jobspec, W, q, usage2[q])
    <3>1. usage2[q] = use
      BY <2>2, <2>4
    <3> QED BY <2>4, <3>1
  <2>5. ASSUME NEW q \in QueueNames, q # q0
        PROVE  RunExact(jobspec, R, q, usage2[q]) /\ SchedExact(jobspec, W, q, usage2[q])
    <3>1. usage2[q] = usage[q]
      BY <2>2, <2>5
    <3>2. RunExact(jobspec, R0, q, usage[q]) /\ SchedExact(jobspec, W0, q, usage[q])
      BY <2>1 DEF AssocExact
    <3>3. InBy(jobspec, R, q) = InBy(jobspec, R0, q) /\ InBy(jobspec, W, q) = InBy(jobspec, W0, q)
      <4>1. /\ InBy(jobspec, R0 \cup {j}, q) = InBy(jobspec, R0, q)
            /\ InBy(jobspec, R0 \ {j}, q) = InBy(jobspec, R0, q)
        BY <2>5, OtherQueue
      <4>2. /\ InBy(jobspec, W0 \cup {j}, q) = InBy(jobspec, W0, q)
            /\ InBy(jobspec, W0 \ {j}, q) = InBy(jobspec, W0, q)
        BY <2>5, OtherQueue
      <4> QED BY <2>3, <4>1, <4>2
    <3> QED BY <3>1, <3>2, <3>3 DEF RunExact, SchedExact
  <2> HIDE DEF usage2
  <2> QED BY <2>4, <2>5 DEF AssocExact
<1>3. /\ cur_nodes'[a] = nodes /\ cur_cores'[a] = cores /\ queue_usage'[a] = usage2
      /\ RunJobs(a)' = R /\ SchedJobs(a)' = W
  <2>1. RunJobs(a)' = R /\ SchedJobs(a)' = W
    OBVIOUS
  <2> HIDE DEF usage2
  <2>2. cur_nodes'[a] = nodes /\ cur_cores'[a] = cores /\ queue_usage'[a] = usage2
    BY <1>t DEF usage2
  <2> QED BY <2>1, <2>2
<1>4. ASSUME NEW b \in Assoc, b # a
      PROVE  /\ cur_nodes'[b] = cur_nodes[b] /\ cur_cores'[b] = cur_cores[b]
             /\ queue_usage'[b] = queue_usage[b]
             /\ RunJobs(b)' = RunJobs(b) /\ SchedJobs(b)' = SchedJobs(b)
  BY <1>t, <1>4
<1>5. ASSUME NEW b \in Assoc
      PROVE  AssocExact(jobspec', RunJobs(b)', SchedJobs(b)', cur_nodes'[b], cur_cores'[b],
                        queue_usage'[b])
  <2>1. CASE b = a
    BY <1>2, <1>3, <2>1
  <2>2. CASE b # a
    BY <1>1, <1>4, <2>2
  <2> QED BY <2>1, <2>2
<1> QED BY <1>5, ResourceParts

LEMMA InitResources == Init => ResourceCountsExact
<1> SUFFICES ASSUME Init, NEW a \in Assoc
             PROVE  AssocExact(jobspec, RunJobs(a), SchedJobs(a), cur_nodes[a], cur_cores[a],
                               queue_usage[a])
  BY ResourceParts
<1>1. RunJobs(a) = {} /\ SchedJobs(a) = {}
  BY DEF Init, InitJobs, ActiveJobs, RunJobs, SchedJobs
<1>2. NodesBy(jobspec, {}) = 0 /\ CoresBy(jobspec, {}) = 0 /\ Cardinality({}) = 0
  BY SumOfNothing, FS_EmptySet DEF NodesBy, CoresBy
<1>3. \A q : InBy(jobspec, {}, q) = {}
  BY DEF InBy
<1>4. /\ cur_nodes[a] = 0 /\ cur_cores[a] = 0
      /\ \A q \in QueueNames : queue_usage[a][q] = NothingUsed
  BY DEF Init, InitCounts
<1>5. ASSUME NEW q
      PROVE  RunExact(jobspec, {}, q, NothingUsed) /\ SchedExact(jobspec, {}, q, NothingUsed)
  BY <1>2, <1>3 DEF RunExact, SchedExact, NothingUsed
<1> QED BY <1>1, <1>2, <1>4, <1>5 DEF AssocExact

LEMMA NextResources == IInv /\ ResourceCountsExact /\ [Next]_vars => ResourceCountsExact'
<1> SUFFICES ASSUME TypeOK, JobsConsistent, HeldJobsConsistent, IteratorValid,
                    ResourceCountsExact, [Next]_vars
             PROVE  ResourceCountsExact'
  BY DEF IInv
<1> DEFINE Now(b) == AssocExact(jobspec, RunJobs(b), SchedJobs(b), cur_nodes[b], cur_cores[b],
                                queue_usage[b])
           Then(b) == AssocExact(jobspec', RunJobs(b)', SchedJobs(b)', cur_nodes'[b],
                                 cur_cores'[b], queue_usage'[b])
<1>t. /\ jobspec \in [Jobs -> Request \cup {NULL}]
      /\ cur_nodes \in [Assoc -> Int] /\ cur_cores \in [Assoc -> Int]
      /\ queue_usage \in [Assoc -> [QueueNames -> QueueUsage]]
  BY DEF TypeOK
<1>0. /\ \A b \in Assoc : Now(b)
      /\ (\A b \in Assoc : Then(b)) => ResourceCountsExact'
  BY ResourceParts
<1>n. ASSUME NEW b \in Assoc
      PROVE  /\ cur_nodes[b] = NodesBy(jobspec, RunJobs(b))
             /\ cur_cores[b] = CoresBy(jobspec, RunJobs(b))
             /\ \A q \in QueueNames : /\ RunExact(jobspec, RunJobs(b), q, queue_usage[b][q])
                                      /\ SchedExact(jobspec, SchedJobs(b), q, queue_usage[b][q])
  BY <1>0 DEF AssocExact
<1>1. ASSUME UNCHANGED <<cur_nodes, cur_cores, queue_usage>>,
             \A b \in Assoc : RunJobs(b)' = RunJobs(b) /\ SchedJobs(b)' = SchedJobs(b),
             \A b \in Assoc : \A i \in RunJobs(b) \cup SchedJobs(b) :
                /\ jobspec'[i].queue = jobspec[i].queue
                /\ jobspec'[i].nnodes = jobspec[i].nnodes
                /\ jobspec'[i].ncores = jobspec[i].ncores
      PROVE  ResourceCountsExact'
  BY <1>0, <1>1, SameSpecs
<1>2. ASSUME NEW j \in Jobs,
             \/ Validate(j, jobspec'[j]) \/ NewRejected(j)
             \/ Depend(j) \/ AfterAnyDone(j) \/ Priority(j) \/ Finish(j) \/ Cancel(j)
             \/ Keep(j) \/ Release(j) \/ Commit(j)
      PROVE  ResourceCountsExact'
  <2>1. UNCHANGED <<cur_nodes, cur_cores, queue_usage>>
    BY <1>2 DEF Validate, NewRejected, Depend, AfterAnyDone, Priority, Finish, Cancel, Keep,
                Release, Commit, countVars
  <2>2. \/ jobspec' = jobspec
        \/ bank_info[j] = NULL /\ \E r : jobspec' = [jobspec EXCEPT ![j] = r]
    BY <1>2 DEF Validate, Accept, NewRejected, Depend, AfterAnyDone, Priority, Finish, Cancel,
                Keep, Release, Commit, JobsConsistent, jobVars
  <2>3. ASSUME NEW b \in Assoc, NEW i \in RunJobs(b) \cup SchedJobs(b)
        PROVE  jobspec'[i] = jobspec[i]
    <3>1. i \in Jobs /\ bank_info[i] # NULL
      BY <2>3, CountedJobs, NullAssumption
    <3> QED BY <2>2, <3>1, <1>t
  <2>4. \A b \in Assoc : RunJobs(b)' = RunJobs(b) /\ SchedJobs(b)' = SchedJobs(b)
    BY <1>2, OtherSets
  <2> QED BY <1>1, <2>1, <2>3, <2>4
<1>3. ASSUME NEW j \in Jobs, New(j) PROVE ResourceCountsExact'
  <2>1. UNCHANGED <<cur_nodes, cur_cores, queue_usage>>
    BY <1>3 DEF New
  <2>2. \A i \in Jobs : /\ jobspec'[i].queue = jobspec[i].queue
                        /\ jobspec'[i].nnodes = jobspec[i].nnodes
                        /\ jobspec'[i].ncores = jobspec[i].ncores
    BY <1>3, NewJobspecType
  <2>3. \A b \in Assoc : RunJobs(b)' = RunJobs(b) /\ SchedJobs(b)' = SchedJobs(b)
    BY <1>3, NewSets
  <2>4. \A b \in Assoc : \A i \in RunJobs(b) \cup SchedJobs(b) : i \in Jobs
    BY CountedJobs
  <2> QED BY <1>1, <2>1, <2>2, <2>3, <2>4
<1>4. ASSUME NEW j \in Jobs, Sched(j) PROVE ResourceCountsExact'
  <2>a. PICK a \in Assoc : a = bank_info[j]
    BY <1>4, AttachedJob DEF Sched, JobsConsistent
  <2>b. PICK q \in QueueNames : q = jobspec[j].queue
    BY <1>4, AttachedJob DEF Sched, JobsConsistent
  <2> DEFINE use == EnteredSched(queue_usage[a][q], j)
             R == RunJobs(a)
             W == SchedJobs(a) \cup {j}
  <2>1. /\ queue_usage' = [queue_usage EXCEPT ![a] = [queue_usage[a] EXCEPT ![q] = use]]
        /\ UNCHANGED <<jobspec, cur_nodes, cur_cores>>
    BY <1>4, <2>a, <2>b DEF Sched
  <2>2. jobspec[j] \in Request
    BY <1>4, AttachedJob DEF Sched, JobsConsistent
  <2>3. \A b \in Assoc : /\ RunJobs(b)' = IF b = a THEN R ELSE RunJobs(b)
                         /\ SchedJobs(b)' = IF b = a THEN W ELSE SchedJobs(b)
    BY <1>4, <2>a, SchedSets
  <2>4. j \notin SchedJobs(a)
    BY <1>4, SchedSets
  <2>5. SchedJobs(a) \in SUBSET Jobs /\ \A i \in SchedJobs(a) \cup {j} : jobspec[i] \in Request
    BY <2>2, CountedJobs
  <2>6. /\ queue_usage[a][q] \in QueueUsage
        /\ RunExact(jobspec, RunJobs(a), q, queue_usage[a][q])
        /\ SchedExact(jobspec, SchedJobs(a), q, queue_usage[a][q])
    BY <1>t, <1>n
  <2>7. RunExact(jobspec, R, q, use) /\ SchedExact(jobspec, W, q, use)
    BY <2>b, <2>4, <2>5, <2>6, WaitsInQueue
  <2>8. /\ cur_nodes' = [cur_nodes EXCEPT ![a] = NodesBy(jobspec, R)]
        /\ cur_cores' = [cur_cores EXCEPT ![a] = CoresBy(jobspec, R)]
    BY <1>t, <1>n, <2>1
  <2>9. /\ R \in {RunJobs(a), RunJobs(a) \cup {j}, RunJobs(a) \ {j}}
        /\ W \in {SchedJobs(a), SchedJobs(a) \cup {j}, SchedJobs(a) \ {j}}
    OBVIOUS
  <2> HIDE DEF use, R, W
  <2>10. EventFits(j, a, R, W, use)
    BY <2>b, <2>1, <2>3, <2>7, <2>8, <2>9 DEF EventFits
  <2> QED BY <2>10, EventStep
<1>5. ASSUME NEW j \in Jobs, Run(j) PROVE ResourceCountsExact'
  <2>a. PICK a \in Assoc : a = bank_info[j]
    BY <1>5, AttachedJob DEF Run
  <2>b. PICK q \in QueueNames : q = jobspec[j].queue
    BY <1>5, AttachedJob DEF Run
  <2> DEFINE started == StartedIn(queue_usage[a][q], q, j)
             use == LeftSched(started, j)
             R == RunJobs(a) \cup {j}
             W == SchedJobs(a) \ {j}
  <2>1. /\ queue_usage' = [queue_usage EXCEPT ![a] = [queue_usage[a] EXCEPT ![q] = use]]
        /\ jobspec' = jobspec
        /\ cur_nodes' = [cur_nodes EXCEPT ![a] = @ + 1 * jobspec[j].nnodes]
        /\ cur_cores' = [cur_cores EXCEPT ![a] = @ + 1 * jobspec[j].ncores]
    BY <1>5, <2>a, <2>b DEF Run, CountResources
  <2>2. /\ jobspec[j] \in Request
        /\ jobspec[j].nnodes \in Int /\ jobspec[j].ncores \in Int
    BY <1>5, AttachedJob DEF Run
  <2>3. \A b \in Assoc : /\ RunJobs(b)' = IF b = a THEN R ELSE RunJobs(b)
                         /\ SchedJobs(b)' = IF b = a THEN W ELSE SchedJobs(b)
    BY <1>5, <2>a, RunSets
  <2>4. j \notin RunJobs(a) /\ j \in SchedJobs(a)
    BY <1>5, <2>a, RunSets
  <2>5. /\ RunJobs(a) \in SUBSET Jobs /\ SchedJobs(a) \in SUBSET Jobs
        /\ \A i \in RunJobs(a) \cup {j} : jobspec[i] \in Request
        /\ \A i \in SchedJobs(a) \cup {j} : jobspec[i] \in Request
    BY <2>2, CountedJobs
  <2>6. /\ queue_usage[a][q] \in QueueUsage
        /\ RunExact(jobspec, RunJobs(a), q, queue_usage[a][q])
        /\ SchedExact(jobspec, SchedJobs(a), q, queue_usage[a][q])
    BY <1>t, <1>n
  <2>7. RunExact(jobspec, R, q, started) /\ SchedExact(jobspec, SchedJobs(a), q, started)
    BY <2>b, <2>4, <2>5, <2>6, StartsInQueue
  <2>8. started \in QueueUsage
    BY <2>2, <2>6, UsageType
  <2>9. RunExact(jobspec, R, q, use) /\ SchedExact(jobspec, W, q, use)
    <3> HIDE DEF started, R
    <3> QED BY <2>b, <2>4, <2>5, <2>7, <2>8, LeavesQueue
  <2>10. /\ cur_nodes[a] + 1 * jobspec[j].nnodes = NodesBy(jobspec, R)
         /\ cur_cores[a] + 1 * jobspec[j].ncores = CoresBy(jobspec, R)
    <3>1. /\ NodesBy(jobspec, R) = NodesBy(jobspec, RunJobs(a)) + jobspec[j].nnodes
          /\ CoresBy(jobspec, R) = CoresBy(jobspec, RunJobs(a)) + jobspec[j].ncores
      BY <2>4, <2>5, OneJobsResources
    <3> HIDE DEF R
    <3> QED BY <1>n, <2>2, <3>1
  <2>11. /\ cur_nodes' = [cur_nodes EXCEPT ![a] = NodesBy(jobspec, R)]
         /\ cur_cores' = [cur_cores EXCEPT ![a] = CoresBy(jobspec, R)]
    <3> HIDE DEF R
    <3> QED BY <2>1, <2>10
  <2>12. /\ R \in {RunJobs(a), RunJobs(a) \cup {j}, RunJobs(a) \ {j}}
         /\ W \in {SchedJobs(a), SchedJobs(a) \cup {j}, SchedJobs(a) \ {j}}
    OBVIOUS
  <2> HIDE DEF use, R, W
  <2>13. EventFits(j, a, R, W, use)
    BY <2>b, <2>1, <2>3, <2>9, <2>11, <2>12 DEF EventFits
  <2> QED BY <2>13, EventStep
<1>6. ASSUME NEW j \in Jobs, InactiveAllocated(j) PROVE ResourceCountsExact'
  <2>0. state[j] = "CLEANUP" /\ "alloc" \in posted[j]
    BY <1>6 DEF InactiveAllocated, GoesInactive
  <2>a. PICK a \in Assoc : a = bank_info[j]
    BY <2>0, AttachedJob
  <2>b. PICK q \in QueueNames : q = jobspec[j].queue
    BY <2>0, AttachedJob
  <2> DEFINE use == StoppedIn(queue_usage[a][q], q, j)
             R == RunJobs(a) \ {j}
             W == SchedJobs(a)
  <2>1. /\ queue_usage' = [queue_usage EXCEPT ![a] = [queue_usage[a] EXCEPT ![q] = use]]
        /\ jobspec' = jobspec
        /\ cur_nodes' = [cur_nodes EXCEPT ![a] = @ + (-1) * jobspec[j].nnodes]
        /\ cur_cores' = [cur_cores EXCEPT ![a] = @ + (-1) * jobspec[j].ncores]
    BY <1>6, <2>a, <2>b DEF InactiveAllocated, CountResources
  <2>2. /\ jobspec[j] \in Request
        /\ jobspec[j].nnodes \in Int /\ jobspec[j].ncores \in Int
    BY <2>0, AttachedJob
  <2>3. \A b \in Assoc : /\ RunJobs(b)' = IF b = a THEN R ELSE RunJobs(b)
                         /\ SchedJobs(b)' = IF b = a THEN W ELSE SchedJobs(b)
    BY <1>6, <2>0, <2>a, InactiveSets
  <2>4. j \in RunJobs(a)
    BY <1>6, <2>0, <2>a, InactiveSets
  <2>5. /\ RunJobs(a) \in SUBSET Jobs
        /\ \A i \in RunJobs(a) \cup {j} : jobspec[i] \in Request
    BY <2>2, CountedJobs
  <2>6. /\ queue_usage[a][q] \in QueueUsage
        /\ RunExact(jobspec, RunJobs(a), q, queue_usage[a][q])
        /\ SchedExact(jobspec, SchedJobs(a), q, queue_usage[a][q])
    BY <1>t, <1>n
  <2>7. RunExact(jobspec, R, q, use) /\ SchedExact(jobspec, W, q, use)
    BY <2>b, <2>4, <2>5, <2>6, StopsInQueue
  <2>8. /\ cur_nodes[a] + (-1) * jobspec[j].nnodes = NodesBy(jobspec, R)
        /\ cur_cores[a] + (-1) * jobspec[j].ncores = CoresBy(jobspec, R)
    <3>1. /\ NodesBy(jobspec, R) = NodesBy(jobspec, RunJobs(a)) - jobspec[j].nnodes
          /\ CoresBy(jobspec, R) = CoresBy(jobspec, RunJobs(a)) - jobspec[j].ncores
      BY <2>4, <2>5, OneJobsResources
    <3>2. cur_nodes[a] \in Int /\ cur_cores[a] \in Int
      BY <1>t
    <3>3. /\ cur_nodes[a] = NodesBy(jobspec, RunJobs(a))
          /\ cur_cores[a] = CoresBy(jobspec, RunJobs(a))
      BY <1>n
    <3> HIDE DEF R
    <3> QED BY <2>2, <3>1, <3>2, <3>3
  <2>9. /\ cur_nodes' = [cur_nodes EXCEPT ![a] = NodesBy(jobspec, R)]
        /\ cur_cores' = [cur_cores EXCEPT ![a] = CoresBy(jobspec, R)]
    <3> HIDE DEF R
    <3> QED BY <2>1, <2>8
  <2>10. /\ R \in {RunJobs(a), RunJobs(a) \cup {j}, RunJobs(a) \ {j}}
         /\ W \in {SchedJobs(a), SchedJobs(a) \cup {j}, SchedJobs(a) \ {j}}
    OBVIOUS
  <2> HIDE DEF use, R, W
  <2>11. EventFits(j, a, R, W, use)
    BY <2>b, <2>1, <2>3, <2>7, <2>9, <2>10 DEF EventFits
  <2> QED BY <2>11, EventStep
<1>7. ASSUME NEW j \in Jobs, InactivePending(j), "priority" \in posted[j]
      PROVE  ResourceCountsExact'
  <2>0. state[j] = "CLEANUP" /\ "alloc" \notin posted[j]
    BY <1>7 DEF InactivePending, GoesInactive
  <2>a. PICK a \in Assoc : a = bank_info[j]
    BY <2>0, AttachedJob
  <2>b. PICK q \in QueueNames : q = jobspec[j].queue
    BY <2>0, AttachedJob
  <2> DEFINE use == LeftSched(queue_usage[a][q], j)
             R == RunJobs(a)
             W == SchedJobs(a) \ {j}
  <2>1. /\ queue_usage' = [queue_usage EXCEPT ![a] = [queue_usage[a] EXCEPT ![q] = use]]
        /\ UNCHANGED <<jobspec, cur_nodes, cur_cores>>
    BY <1>7, <2>a, <2>b DEF InactivePending
  <2>2. jobspec[j] \in Request
    BY <2>0, AttachedJob
  <2>3. \A b \in Assoc : /\ RunJobs(b)' = IF b = a THEN R ELSE RunJobs(b)
                         /\ SchedJobs(b)' = IF b = a THEN W ELSE SchedJobs(b)
    BY <1>7, <2>0, <2>a, InactiveSets
  <2>4. j \in SchedJobs(a)
    BY <1>7, <2>0, <2>a, InactiveSets
  <2>5. SchedJobs(a) \in SUBSET Jobs /\ \A i \in SchedJobs(a) \cup {j} : jobspec[i] \in Request
    BY <2>2, CountedJobs
  <2>6. /\ queue_usage[a][q] \in QueueUsage
        /\ RunExact(jobspec, RunJobs(a), q, queue_usage[a][q])
        /\ SchedExact(jobspec, SchedJobs(a), q, queue_usage[a][q])
    BY <1>t, <1>n
  <2>7. RunExact(jobspec, R, q, use) /\ SchedExact(jobspec, W, q, use)
    BY <2>b, <2>4, <2>5, <2>6, LeavesQueue
  <2>8. /\ cur_nodes' = [cur_nodes EXCEPT ![a] = NodesBy(jobspec, R)]
        /\ cur_cores' = [cur_cores EXCEPT ![a] = CoresBy(jobspec, R)]
    BY <1>t, <1>n, <2>1
  <2>9. /\ R \in {RunJobs(a), RunJobs(a) \cup {j}, RunJobs(a) \ {j}}
        /\ W \in {SchedJobs(a), SchedJobs(a) \cup {j}, SchedJobs(a) \ {j}}
    OBVIOUS
  <2> HIDE DEF use, R, W
  <2>10. EventFits(j, a, R, W, use)
    BY <2>b, <2>1, <2>3, <2>7, <2>8, <2>9 DEF EventFits
  <2> QED BY <2>10, EventStep
<1>8. ASSUME NEW j \in Jobs, InactivePending(j), "priority" \notin posted[j]
      PROVE  ResourceCountsExact'
  <2>1. /\ UNCHANGED <<jobspec, cur_nodes, cur_cores, queue_usage>> /\ "alloc" \notin posted[j]
    BY <1>8 DEF InactivePending
  <2>2. \A b \in Assoc : RunJobs(b)' = RunJobs(b) /\ SchedJobs(b)' = SchedJobs(b)
    BY <1>8, <2>1, InactiveSets
  <2> QED BY <1>1, <2>1, <2>2
<1>9. ASSUME UNCHANGED <<countVars, jobVars>> PROVE ResourceCountsExact'
  <2>1. \A b \in Assoc : RunJobs(b)' = RunJobs(b) /\ SchedJobs(b)' = SchedJobs(b)
    BY <1>9, SameJobs DEF jobVars
  <2> QED BY <1>1, <1>9, <2>1 DEF countVars, jobVars
<1>10. CASE EndPass \/ (\E a \in Assoc : ReprioritizeNext(a)) \/ Update \/ UNCHANGED vars
  BY <1>9, <1>10 DEF EndPass, ReprioritizeNext, Update, RecUpdate, RecQUpdate,
     RecProjUpdate, RecConfigUpdate, Reprioritize, vars
<1>11. ASSUME NEW j \in Jobs, Submit(j) PROVE ResourceCountsExact'
  <2>1. ASSUME NEW r \in Requests, Validate(j, r) PROVE Validate(j, jobspec'[j])
    <3>1. jobspec'[j] = r
      BY <1>t, <2>1 DEF Validate, Accept
    <3> QED BY <2>1, <3>1
  <2> QED BY <1>2, <1>3, <1>11, <2>1 DEF Submit
<1> QED
  BY <1>2, <1>4, <1>5, <1>6, <1>7, <1>8, <1>10, <1>11 DEF Next, Callback, JobEvent,
     ReleasePass

-----------------------------------------------------------------------------
(* The limits on jobs that wait for the scheduler *)

\* What the checks of the limits on waiting jobs come to.
LEMMA UnderSched ==
  ASSUME NEW a, NEW j, NEW q, NEW r
  PROVE  /\ Under(D_ASSOC_MSJ, a, j, q, r) <=>
              cur_sched_jobs[a] + r.assoc_sched < limits[a].max_sched_jobs
         /\ Under(D_QUEUE_MSJ, a, j, q, r) <=>
              (KnownQueue(q) =>
                 queue_usage[a][q].cur_sched_jobs + r.queue_sched[q] < queues[q].max_sched_jobs)
         /\ Under(D_QUEUE_MSN, a, j, q, r) <=>
              (KnownQueue(q) =>
                 queue_usage[a][q].cur_sched_nodes + jobspec[j].nnodes + r.queue_sched_nodes[q]
                   <= queues[q].max_sched_nodes_per_assoc)
         /\ Under(D_QUEUE_MSC, a, j, q, r) <=>
              (KnownQueue(q) =>
                 queue_usage[a][q].cur_sched_cores + jobspec[j].ncores + r.queue_sched_cores[q]
                   <= queues[q].max_sched_cores_per_assoc)
         /\ Under(D_QUEUE_MRES, a, j, q, r) <=>
              (KnownQueue(q) =>
                 queue_usage[a][q].cur_nodes + queue_usage[a][q].cur_sched_nodes
                   + jobspec[j].nnodes <= queues[q].max_nodes_per_assoc)
<1> USE DEF D_QUEUE_MRJ, D_ASSOC_MRJ, D_ASSOC_MRES, D_QUEUE_MRES, D_ASSOC_MSJ, D_QUEUE_MSJ,
            D_QUEUE_MSN, D_QUEUE_MSC
<1>1. Under(D_ASSOC_MSJ, a, j, q, r) <=>
        cur_sched_jobs[a] + r.assoc_sched < limits[a].max_sched_jobs
  BY DEF Under
<1>2. Under(D_QUEUE_MSJ, a, j, q, r) <=>
        (KnownQueue(q) =>
           queue_usage[a][q].cur_sched_jobs + r.queue_sched[q] < queues[q].max_sched_jobs)
  BY DEF Under
<1>3. Under(D_QUEUE_MSN, a, j, q, r) <=>
        (KnownQueue(q) =>
           queue_usage[a][q].cur_sched_nodes + jobspec[j].nnodes + r.queue_sched_nodes[q]
             <= queues[q].max_sched_nodes_per_assoc)
  BY DEF Under
<1>4. Under(D_QUEUE_MSC, a, j, q, r) <=>
        (KnownQueue(q) =>
           queue_usage[a][q].cur_sched_cores + jobspec[j].ncores + r.queue_sched_cores[q]
             <= queues[q].max_sched_cores_per_assoc)
  BY DEF Under
<1>5. Under(D_QUEUE_MRES, a, j, q, r) <=>
        (KnownQueue(q) =>
           queue_usage[a][q].cur_nodes + queue_usage[a][q].cur_sched_nodes
             + jobspec[j].nnodes <= queues[q].max_nodes_per_assoc)
  BY DEF Under
<1> QED BY <1>1, <1>2, <1>3, <1>4, <1>5

\* A pass that has given away nothing of what is waiting makes no difference.
NothingGiven(r) ==
  /\ r.assoc_sched = 0
  /\ \A q \in QueueNames :
       r.queue_sched[q] = 0 /\ r.queue_sched_nodes[q] = 0 /\ r.queue_sched_cores[q] = 0

LEMMA NothingGivenYet == NothingGiven(NothingReleased)
  BY DEF NothingGiven, NothingReleased

LEMMA SameUnder ==
  ASSUME NEW d \in SchedDep, NEW a, NEW j, NEW q \in QueueNames, NEW r, NothingGiven(r)
  PROVE  Under(d, a, j, q, r) <=> Under(d, a, j, q, NothingReleased)
<1> DEFINE n == NothingReleased
<1>1. NothingGiven(n)
  BY NothingGivenYet
<1> HIDE DEF n
<1>2. /\ r.assoc_sched = n.assoc_sched /\ r.queue_sched[q] = n.queue_sched[q]
      /\ r.queue_sched_nodes[q] = n.queue_sched_nodes[q]
      /\ r.queue_sched_cores[q] = n.queue_sched_cores[q]
  BY <1>1 DEF NothingGiven
<1> QED BY <1>2, UnderSched DEF SchedDep, n

\* The limits are compared with the same counters as before.
LEMMA SameExceeded ==
  ASSUME UNCHANGED <<confVars, countVars>>, NEW a, NEW j, NEW q, NEW r,
         jobspec'[j].nnodes = jobspec[j].nnodes, jobspec'[j].ncores = jobspec[j].ncores
  PROVE  Exceeded(a, j, q, r)' = Exceeded(a, j, q, r)
<1>1. ASSUME NEW d PROVE Under(d, a, j, q, r)' <=> Under(d, a, j, q, r)
  BY DEF Under, KnownQueue, confVars, countVars
<1> QED BY <1>1 DEF Exceeded

\* What holds while d is the only limit in the way: a job carries no other
\* dependency, a job on its way to the scheduler is under every limit, and a pass
\* has nothing to book, for what it released is counted as waiting by then.
OnlyOwn(d) == \A j \in Jobs : dependencies[j] \subseteq Dep /\ deps[j] \subseteq {d}
NoneExceeded(j) == Exceeded(bank_info[j], j, jobspec[j].queue, NothingReleased) = {}
Launching(j) == call = [cb |-> "priority", job |-> j] \/ call = [cb |-> "sched", job |-> j]
LaunchedUnder == \A j \in Jobs : Launching(j) => NoneExceeded(j)
NothingToBook ==
  pass # NULL => /\ NothingGiven(pass.released)
                 /\ pass.job # NULL /\ call = NULL => state[pass.job] = "SCHED"
LimitInv(d) == OnlyOwn(d) /\ LaunchedUnder /\ NothingToBook

\* A job does not exceed more when a step leaves the counters and its jobspec.
LEMMA StaysUnder ==
  ASSUME UNCHANGED <<confVars, countVars>>, NEW j \in Jobs, NoneExceeded(j),
         bank_info'[j] = bank_info[j], jobspec'[j] = jobspec[j]
  PROVE  NoneExceeded(j)'
<1>1. PICK a : a = bank_info[j]
  OBVIOUS
<1>2. PICK q : q = jobspec[j].queue
  OBVIOUS
<1>3. Exceeded(a, j, q, NothingReleased)' = Exceeded(a, j, q, NothingReleased)
  BY SameExceeded
<1>4. NoneExceeded(j)' <=> Exceeded(a, j, q, NothingReleased)' = {}
  BY <1>1, <1>2 DEF NoneExceeded
<1> QED BY <1>1, <1>2, <1>3, <1>4 DEF NoneExceeded

LEMMA NextOnlyOwn ==
  ASSUME IInv, NEW d \in SchedDep, NoAfterAny, OneLimit(d), OnlyOwn(d), [StaticNext]_vars
  PROVE  OnlyOwn(d)'
<1> USE DEF confVars, countVars, heldVars, jobVars, runVars
<1>t. /\ dependencies \in [Jobs -> SUBSET (Dep \cup {AfterAny})]
      /\ deps \in [Jobs -> SUBSET Dep]
  BY DEF IInv, TypeOK
<1>1. ASSUME UNCHANGED <<dependencies, deps>> PROVE OnlyOwn(d)'
  BY <1>1 DEF OnlyOwn
<1>2. ASSUME NEW j \in Jobs, NEW r \in Requests, Validate(j, r) PROVE OnlyOwn(d)'
  <2>1. dependencies' = [dependencies EXCEPT ![j] = {}] /\ deps' = deps
    BY <1>2 DEF Validate, Accept, NoAfterAny
  <2> QED BY <2>1, <1>t DEF OnlyOwn
<1>3. ASSUME NEW j \in Jobs, New(j) \/ NewRejected(j) PROVE OnlyOwn(d)'
  <2>1. /\ deps' = deps
        /\ dependencies' = dependencies \/ dependencies' = [dependencies EXCEPT ![j] = {}]
    BY <1>3 DEF New, NewRejected
  <2> QED BY <2>1, <1>t DEF OnlyOwn
<1>4. ASSUME NEW j \in Jobs, Depend(j) PROVE OnlyOwn(d)'
  <2> DEFINE ex == Exceeded(bank_info[j], j, jobspec[j].queue, NothingReleased)
  <2>1. state[j] = "DEPEND"
    BY <1>4 DEF Depend, IInv, JobsConsistent
  <2>2. ex \subseteq {d} /\ ex \subseteq Dep
    BY <2>1 DEF OneLimit, Exceeded
  <2>3. /\ dependencies' = [dependencies EXCEPT ![j] = @ \cup ex]
        /\ deps' = deps \/ deps' = [deps EXCEPT ![j] = ex]
    BY <1>4 DEF Depend
  <2> HIDE DEF ex
  <2> QED BY <2>2, <2>3, <1>t DEF OnlyOwn
<1>5. ASSUME NEW j \in Jobs, AfterAnyDone(j) \/ Priority(j) \/ Sched(j) \/ Run(j) \/ Finish(j)
                             \/ Cancel(j)
      PROVE  OnlyOwn(d)'
  <2>1. /\ deps' = deps
        /\ \/ dependencies' = dependencies
           \/ dependencies' = [dependencies EXCEPT ![j] = @ \ {AfterAny}]
    BY <1>5 DEF AfterAnyDone, Priority, Sched, Run, Finish, Cancel
  <2> QED BY <2>1, <1>t DEF OnlyOwn
<1>6. ASSUME NEW j \in Jobs, InactivePending(j) \/ InactiveAllocated(j) PROVE OnlyOwn(d)'
  <2>1. /\ dependencies' = dependencies
        /\ deps' = deps \/ deps' = [deps EXCEPT ![j] = {}]
    BY <1>6 DEF InactivePending, InactiveAllocated, Unhold
  <2> QED BY <2>1, <1>t DEF OnlyOwn
<1>7. ASSUME NEW j \in Jobs, Keep(j) \/ Release(j) PROVE OnlyOwn(d)'
  <2>1. PICK gone : /\ dependencies' = [dependencies EXCEPT ![j] = @ \ gone]
                    /\ \/ deps' = [deps EXCEPT ![j] = @ \ gone]
                       \/ deps' = [deps EXCEPT ![j] = {}]
    BY <1>7 DEF Keep, Release
  <2> QED BY <2>1, <1>t DEF OnlyOwn
<1>8. ASSUME NEW j \in Jobs, Commit(j) PROVE OnlyOwn(d)'
  BY <1>1, <1>8 DEF Commit
<1>9. CASE EndPass \/ (\E a \in Assoc : ReprioritizeNext(a)) \/ Reprioritize \/ UNCHANGED vars
  BY <1>1, <1>9 DEF EndPass, ReprioritizeNext, Reprioritize, vars
<1>10. ASSUME NEW j \in Jobs, Submit(j) PROVE OnlyOwn(d)'
  BY <1>2, <1>3, <1>10 DEF Submit
<1> QED BY <1>4, <1>5, <1>6, <1>7, <1>8, <1>9, <1>10 DEF StaticNext, Callback, JobEvent,
           ReleasePass, JobsUsedUp

LEMMA NextLaunched ==
  ASSUME IInv, NEW d \in SchedDep, OneLimit(d), LimitInv(d), [StaticNext]_vars
  PROVE  LaunchedUnder'
<1> USE DEF confVars, countVars, heldVars, jobVars, runVars
<1>1. ASSUME UNCHANGED <<confVars, countVars, jobspec, bank_info>>, NEW j \in Jobs,
             call' = NULL \/ call' = [cb |-> "inactive", job |-> j]
               \/ call' = [cb |-> "depend", job |-> j]
               \/ /\ call' \in {[cb |-> "priority", job |-> j], [cb |-> "sched", job |-> j]}
                  /\ NoneExceeded(j)
      PROVE  LaunchedUnder'
  <2> SUFFICES ASSUME NEW i \in Jobs, Launching(i)' PROVE NoneExceeded(i)'
    BY DEF LaunchedUnder
  <2>1. i = j /\ NoneExceeded(j)
    BY <1>1, SameCall, NullAssumption DEF Launching, Call
  <2> QED BY <1>1, <2>1, StaysUnder
<1>2. ASSUME call' = NULL PROVE LaunchedUnder'
  BY <1>2, NullAssumption DEF LaunchedUnder, Launching, Call
<1>3. ASSUME NEW j \in Jobs, Submit(j) PROVE LaunchedUnder'
  <2>1. call' = NULL \/ call' = [cb |-> "depend", job |-> j]
    BY <1>3 DEF Submit, Validate, New, NewRejected, Idle
  <2>2. CASE call' = [cb |-> "depend", job |-> j]
    BY <2>2, SameCall DEF LaunchedUnder, Launching
  <2> QED BY <1>2, <2>1, <2>2
<1>4. ASSUME NEW j \in Jobs, Depend(j) PROVE LaunchedUnder'
  <2> DEFINE ex == Exceeded(bank_info[j], j, jobspec[j].queue, NothingReleased)
  <2>t. dependencies \in [Jobs -> SUBSET (Dep \cup {AfterAny})]
    BY DEF IInv, TypeOK
  <2>1. /\ dependencies' = [dependencies EXCEPT ![j] = @ \cup ex]
        /\ call' = IF dependencies'[j] = {} THEN [cb |-> "priority", job |-> j] ELSE NULL
        /\ UNCHANGED <<confVars, countVars, jobspec, bank_info>>
    BY <1>4 DEF Depend
  <2>2. NoneExceeded(j) <=> ex = {}
    BY DEF NoneExceeded
  <2> HIDE DEF ex
  <2>3. dependencies'[j] = {} => ex = {}
    BY <2>1, <2>t
  <2> QED BY <1>1, <2>1, <2>2, <2>3
<1>5. ASSUME NEW j \in Jobs, AfterAnyDone(j) PROVE LaunchedUnder'
  <2>1. AfterAny \notin Dep
    BY DEF AfterAny, Dep, D_QUEUE_MRJ, D_ASSOC_MRJ, D_ASSOC_MRES, D_QUEUE_MRES, D_ASSOC_MSJ,
           D_QUEUE_MSJ, D_QUEUE_MSN, D_QUEUE_MSC
  <2> QED BY <1>5, <2>1 DEF AfterAnyDone, LimitInv, OnlyOwn
<1>6. ASSUME NEW j \in Jobs, Priority(j) PROVE LaunchedUnder'
  <2>1. NoneExceeded(j)
    BY <1>6 DEF Priority, LimitInv, LaunchedUnder, Launching
  <2> QED BY <1>1, <1>6, <2>1 DEF Priority, Prioritized
<1>7. ASSUME NEW j \in Jobs, Release(j) PROVE LaunchedUnder'
  <2>1. /\ pass \in Pass /\ bank_info[j] = pass.assoc /\ held_queue[j] = jobspec[j].queue
        /\ state[j] = "DEPEND" /\ deps[j] # {}
    BY <1>7, LooksAtDependent DEF Release, IInv
  <2>2. deps[j] = {d}
    BY <2>1 DEF LimitInv, OnlyOwn
  <2>3. d \notin Exceeded(bank_info[j], j, jobspec[j].queue, pass.released)
    BY <1>7, <2>1, <2>2 DEF Release, Removable
  <2>4. d \in Dep /\ jobspec[j].queue \in QueueNames
    BY <2>1, AttachedJob DEF IInv, SchedDep, Dep
  <2>5. Under(d, bank_info[j], j, jobspec[j].queue, pass.released)
    BY <2>3, <2>4 DEF Exceeded
  <2>6. NothingGiven(pass.released)
    BY <1>7 DEF Release, LooksAt, LimitInv, NothingToBook
  <2>7. Under(d, bank_info[j], j, jobspec[j].queue, NothingReleased)
    BY <2>4, <2>5, <2>6, SameUnder
  <2>8. NoneExceeded(j)
    BY <2>1, <2>7 DEF NoneExceeded, OneLimit, Exceeded
  <2> QED BY <1>1, <1>7, <2>8 DEF Release
<1>8. ASSUME NEW j \in Jobs, Sched(j) \/ Run(j) \/ Finish(j) \/ InactivePending(j)
                             \/ InactiveAllocated(j) \/ Keep(j) \/ Commit(j)
      PROVE  LaunchedUnder'
  BY <1>2, <1>8 DEF Sched, Run, Finish, InactivePending, InactiveAllocated, GoesInactive,
                    Keep, Commit, LooksAt, Idle
<1>9. ASSUME NEW j \in Jobs, Cancel(j) PROVE LaunchedUnder'
  BY <1>1, <1>9 DEF Cancel
<1>10. CASE EndPass \/ (\E a \in Assoc : ReprioritizeNext(a)) \/ Reprioritize
  BY <1>2, <1>10 DEF EndPass, ReprioritizeNext, Reprioritize, Idle
<1>11. ASSUME UNCHANGED vars PROVE LaunchedUnder'
  <2>1. ASSUME NEW i \in Jobs, Launching(i)' PROVE NoneExceeded(i)'
    <3>1. Launching(i)
      BY <1>11, <2>1 DEF Launching, vars
    <3>2. NoneExceeded(i)
      BY <3>1 DEF LimitInv, LaunchedUnder
    <3> QED BY <1>11, <3>2, StaysUnder DEF vars
  <2> QED BY <2>1 DEF LaunchedUnder
<1> QED BY <1>3, <1>4, <1>5, <1>6, <1>7, <1>8, <1>9, <1>10, <1>11 DEF StaticNext, Callback,
           JobEvent, ReleasePass, JobsUsedUp

LEMMA GivenNothing ==
  ASSUME NEW r \in Released, NothingGiven(r), NEW j, NEW q, NEW removed,
         state[j] = "SCHED", jobspec[j].nnodes \in Int, jobspec[j].ncores \in Int
  PROVE  NothingGiven(Given(r, j, q, removed))
<1> DEFINE g == Given(r, j, q, removed)
<1>1. /\ g.assoc_sched = r.assoc_sched + 0
      /\ g.queue_sched = [r.queue_sched EXCEPT ![q] = @ + 0]
      /\ g.queue_sched_nodes = [r.queue_sched_nodes EXCEPT ![q] = @ + 0 * jobspec[j].nnodes]
      /\ g.queue_sched_cores = [r.queue_sched_cores EXCEPT ![q] = @ + 0 * jobspec[j].ncores]
  BY DEF Given
<1> HIDE DEF g
<1>2. /\ r.queue_sched \in [QueueNames -> Int] /\ r.queue_sched_nodes \in [QueueNames -> Int]
      /\ r.queue_sched_cores \in [QueueNames -> Int]
  BY DEF Released
<1>3. 0 * jobspec[j].nnodes = 0 /\ 0 * jobspec[j].ncores = 0
  OBVIOUS
<1>4. ASSUME NEW p \in QueueNames
      PROVE  g.queue_sched[p] = 0 /\ g.queue_sched_nodes[p] = 0 /\ g.queue_sched_cores[p] = 0
  <2> DEFINE n == 0 * jobspec[j].nnodes  c == 0 * jobspec[j].ncores
  <2>1. /\ g.queue_sched_nodes = [r.queue_sched_nodes EXCEPT ![q] = @ + n]
        /\ g.queue_sched_cores = [r.queue_sched_cores EXCEPT ![q] = @ + c]
        /\ n = 0 /\ c = 0
    BY <1>1, <1>3
  <2> HIDE DEF n, c
  <2>2. r.queue_sched[p] = 0 /\ r.queue_sched_nodes[p] = 0 /\ r.queue_sched_cores[p] = 0
    BY DEF NothingGiven
  <2>3. g.queue_sched[p] = 0
    BY <1>1, <1>2, <2>2
  <2>4. g.queue_sched_nodes[p] = 0
    BY <1>2, <2>1, <2>2
  <2>5. g.queue_sched_cores[p] = 0
    BY <1>2, <2>1, <2>2
  <2> QED BY <2>3, <2>4, <2>5
<1>5. g.assoc_sched = 0
  BY <1>1 DEF NothingGiven
<1> QED BY <1>4, <1>5 DEF NothingGiven, g

LEMMA NextNothingToBook ==
  ASSUME IInv, NEW d \in SchedDep, LimitInv(d), [StaticNext]_vars
  PROVE  NothingToBook'
<1> USE DEF confVars, countVars, heldVars, jobVars, runVars
<1>t. pass \in Pass \cup {NULL}
  BY DEF IInv, TypeOK
<1>i. NothingToBook
  BY DEF LimitInv
<1>1. ASSUME pass' = NULL \/ \E a \in Assoc : pass' = StartPass(a) PROVE NothingToBook'
  <2>1. ASSUME NEW a \in Assoc, pass' = StartPass(a) PROVE NothingToBook'
    <3>1. pass'.released = NothingReleased /\ pass'.job = NULL
      BY <2>1 DEF StartPass
    <3> QED BY <3>1, NothingGivenYet DEF NothingToBook
  <2> QED BY <1>1, <2>1 DEF NothingToBook
<1>2. ASSUME NEW j \in Jobs, Submit(j) \/ AfterAnyDone(j) \/ Finish(j) \/ Cancel(j)
      PROVE  NothingToBook'
  BY <1>1, <1>2 DEF Submit, Validate, New, NewRejected, AfterAnyDone, Finish, Cancel, Idle
<1>3. ASSUME NEW j \in Jobs, Run(j) PROVE NothingToBook'
  <2>1. state[j] = "SCHED" /\ pass = NULL
    BY <1>3 DEF Run, Idle
  <2>2. bank_info[j] \in Assoc
    BY <2>1, AttachedJob DEF IInv
  <2> QED BY <1>1, <1>3, <2>1, <2>2 DEF Run, PassIfHeld
<1>4. ASSUME NEW j \in Jobs, Depend(j) PROVE NothingToBook'
  <2>1. pass = NULL
    BY <1>4, NoPassOutside DEF Depend, IInv
  <2> QED BY <1>1, <1>4, <2>1 DEF Depend
<1>5. ASSUME NEW j \in Jobs, Priority(j) PROVE NothingToBook'
  <2>1. state[j] = "DEPEND"
    BY <1>5 DEF Priority, IInv, JobsConsistent
  <2>2. [cb |-> "sched", job |-> j] # NULL
    BY NullAssumption DEF Call
  <2>3. call' # NULL /\ pass' = pass
    BY <1>5, <2>1, <2>2 DEF Priority, Prioritized
  <2> QED BY <1>i, <2>3 DEF NothingToBook
<1>6. ASSUME NEW j \in Jobs, Sched(j) PROVE NothingToBook'
  <2>1. /\ pass' = pass /\ state' = [state EXCEPT ![j] = "SCHED"]
        /\ call # NULL /\ call.job = j
    BY <1>6, NullAssumption DEF Sched, Call
  <2>2. pass # NULL => pass.job = j
    BY <2>1 DEF IInv, IteratorValid
  <2>3. state'[j] = "SCHED"
    BY <2>1 DEF IInv, TypeOK
  <2> QED BY <1>i, <2>1, <2>2, <2>3 DEF NothingToBook
<1>7. ASSUME NEW j \in Jobs, InactivePending(j) \/ InactiveAllocated(j) PROVE NothingToBook'
  <2>1. GoesInactive(j)
    BY <1>7 DEF InactivePending, InactiveAllocated
  <2>2. pass = NULL
    BY <2>1, NoPassOutside DEF GoesInactive, IInv
  <2>3. bank_info[j] \in Assoc
    BY <2>1, AttachedJob DEF GoesInactive, IInv
  <2> QED BY <1>1, <1>7, <2>2, <2>3 DEF InactivePending, InactiveAllocated, PassIfHeld
<1>8. ASSUME NEW j \in Jobs, Keep(j) PROVE NothingToBook'
  <2>1. pass \in Pass /\ pass.job = NULL /\ pass' = [pass EXCEPT !.at = @ + 1]
    BY <1>8, LooksAtDependent DEF Keep, LooksAt, IInv
  <2>2. pass'.released = pass.released /\ pass'.job = NULL
    BY <2>1 DEF Pass
  <2> QED BY <1>i, <1>8, <2>2 DEF NothingToBook, Keep, LooksAt
<1>9. ASSUME NEW j \in Jobs, Release(j) PROVE NothingToBook'
  <2>1. pass \in Pass /\ pass # NULL /\ deps[j] = dependencies[j] \cap Dep
    BY <1>9, LooksAtDependent DEF Release, LooksAt, IInv
  <2>2. /\ dependencies' = [dependencies EXCEPT ![j] = @ \ deps[j]]
        /\ dependencies \in [Jobs -> SUBSET (Dep \cup {AfterAny})]
    BY <1>9 DEF Release, IInv, TypeOK
  <2>3. dependencies[j] \subseteq Dep
    BY DEF LimitInv, OnlyOwn
  <2>4. dependencies'[j] = {}
    BY <2>1, <2>2, <2>3
  <2>5. call' # NULL
    BY <1>9, <2>4, NullAssumption DEF Release, Call
  <2>6. pass'.released = pass.released
    BY <1>9, <2>1 DEF Release, Pass
  <2> QED BY <1>i, <2>1, <2>5, <2>6 DEF NothingToBook
<1>10. ASSUME NEW j \in Jobs, Commit(j) PROVE NothingToBook'
  <2>1. pass \in Pass /\ pass.released \in Released
    BY <1>10, <1>t DEF Commit, Pass
  <2>2. state[j] = "SCHED" /\ NothingGiven(pass.released)
    BY <1>i, <1>10, NamesAssumption DEF Commit, NothingToBook
  <2> DEFINE g == Given(pass.released, j, held_queue[j], pass.removed)
  <2>3. NothingGiven(g)
    BY <2>1, <2>2, GivenNothing, AttachedJob DEF IInv
  <2>4. pass' = [pass EXCEPT !.job = NULL, !.removed = {}, !.released = g]
    BY <1>10 DEF Commit
  <2> HIDE DEF g
  <2>5. pass'.released = g /\ pass'.job = NULL
    BY <2>1, <2>4 DEF Pass
  <2> QED BY <2>3, <2>5 DEF NothingToBook
<1>11. ASSUME NEW a \in Assoc, ReprioritizeNext(a) PROVE NothingToBook'
  BY <1>1, <1>11 DEF ReprioritizeNext, PassIfHeld
<1>12. CASE EndPass \/ Reprioritize
  BY <1>1, <1>12 DEF EndPass, Reprioritize, Idle
<1>13. CASE UNCHANGED vars
  BY <1>i, <1>13 DEF vars, NothingToBook, NothingGiven
<1> QED BY <1>2, <1>3, <1>4, <1>5, <1>6, <1>7, <1>8, <1>9, <1>10, <1>11, <1>12, <1>13
        DEF StaticNext, Callback, JobEvent, ReleasePass, JobsUsedUp

\* What QueueLimitsKept asks of the usage of one queue.
QueueFits(use, z) ==
  /\ use.cur_sched_jobs <= z.max_sched_jobs
  /\ use.cur_sched_nodes <= z.max_sched_nodes_per_assoc
  /\ use.cur_sched_cores <= z.max_sched_cores_per_assoc
  /\ use.cur_nodes + use.cur_sched_nodes <= z.max_nodes_per_assoc

LEMMA QueueLimitsByQueue ==
  QueueLimitsKept <=>
    \A a \in known, q \in Queues : KnownQueue(q) => QueueFits(queue_usage[a][q], queues[q])
  BY DEF QueueLimitsKept, QueueFits

\* The step of QueueLimitsKept for a change in the usage of one queue.
LEMMA QueueStep ==
  ASSUME TypeOK, QueueLimitsKept, UNCHANGED confVars,
         NEW a \in Assoc, NEW q \in QueueNames, NEW use,
         queue_usage' = [queue_usage EXCEPT ![a][q] = use],
         a \in known /\ q \in Queues /\ KnownQueue(q) => QueueFits(use, queues[q])
  PROVE  QueueLimitsKept'
<1> USE DEF confVars
<1>1. queue_usage \in [Assoc -> [QueueNames -> QueueUsage]] /\ known \subseteq Assoc
  BY DEF TypeOK
<1> SUFFICES ASSUME NEW b \in known, NEW p \in Queues, KnownQueue(p)
             PROVE  QueueFits(queue_usage'[b][p], queues[p])
  BY DEF QueueLimitsKept, QueueFits, KnownQueue
<1>2. QueueFits(queue_usage[b][p], queues[p])
  BY DEF QueueLimitsKept, QueueFits
<1>3. queue_usage'[b][p] = IF b = a /\ p = q THEN use ELSE queue_usage[b][p]
  BY <1>1 DEF QueueNames
<1> QED BY <1>2, <1>3

\* ... and for the events that only make room.
LEMMA QueueFitsLess ==
  ASSUME NEW use \in QueueUsage, NEW e \in QueueUsage, NEW z \in Queue, QueueFits(use, z),
         e.cur_sched_jobs <= use.cur_sched_jobs, e.cur_sched_nodes <= use.cur_sched_nodes,
         e.cur_sched_cores <= use.cur_sched_cores,
         e.cur_nodes + e.cur_sched_nodes <= use.cur_nodes + use.cur_sched_nodes
  PROVE  QueueFits(e, z)
  BY DEF QueueFits, QueueUsage, Queue

LEMMA InitLimitInv ==
  ASSUME Init, NEW d PROVE LimitInv(d)
<1>1. OnlyOwn(d)
  BY DEF Init, InitCounts, InitJobs, OnlyOwn
<1>2. LaunchedUnder
  BY NullAssumption DEF Init, InitJobs, LaunchedUnder, Launching, Call
<1> QED BY <1>1, <1>2 DEF Init, InitJobs, LimitInv, NothingToBook

LEMMA InitLimits ==
  ASSUME Init, LimitsAreCounts PROVE SchedLimitKept /\ QueueLimitsKept
<1>1. SchedLimitKept
  <2>1. PICK p \in AssocPayloads :
          known = DOMAIN p.limits /\ limits = LoadedLimits([a \in Assoc |-> Blank], p)
    BY DEF Init
  <2>2. \A a \in known : a \in Assoc /\ limits[a].max_sched_jobs >= 0
    BY <2>1, PayloadAssumption DEF LimitsAreCounts, LoadedLimits, Assoc, BankNames
  <2>3. \A a \in Assoc : cur_sched_jobs[a] = 0
    BY DEF Init, InitCounts
  <2>4. limits \in [Assoc -> Limits]
    BY InitType DEF TypeOK
  <2> QED BY <2>2, <2>3, <2>4 DEF SchedLimitKept, Limits
<1>2. QueueLimitsKept
  <2>1. PICK p \in QueuePayloads : queues = LoadedQueues(p)
    BY DEF Init
  <2>2. ASSUME NEW q \in Queues, KnownQueue(q)
        PROVE  /\ queues[q] \in Queue
               /\ queues[q].max_sched_jobs >= 0 /\ queues[q].max_nodes_per_assoc >= 0
               /\ queues[q].max_sched_nodes_per_assoc >= 0
               /\ queues[q].max_sched_cores_per_assoc >= 0
    <3>1. q \in DOMAIN p /\ queues[q] = p[q]
      BY <2>1, <2>2 DEF KnownQueue, LoadedQueues
    <3> QED BY <3>1, PayloadAssumption DEF LimitsAreCounts
  <2>3. \A a \in Assoc : \A q \in Queues : queue_usage[a][q] = NothingUsed
    BY DEF Init, InitCounts, QueueNames
  <2>4. known \subseteq Assoc
    BY InitType DEF TypeOK
  <2> SUFFICES ASSUME NEW a \in known, NEW q \in Queues, KnownQueue(q)
               PROVE  QueueFits(queue_usage[a][q], queues[q])
    BY QueueLimitsByQueue
  <2>5. queue_usage[a][q] = NothingUsed
    BY <2>3, <2>4
  <2> QED BY <2>2, <2>5 DEF QueueFits, NothingUsed, Queue
<1> QED BY <1>1, <1>2

\* A job that enters SCHED while it is under every limit.
LEMMA SchedKeepsLimits ==
  ASSUME IInv, SchedLimitKept, QueueLimitsKept, NEW j \in Jobs, Sched(j), NoneExceeded(j)
  PROVE  SchedLimitKept' /\ QueueLimitsKept'
<1> USE DEF confVars
<1>1. state[j] = "PRIORITY"
  BY DEF Sched, IInv, JobsConsistent
<1>2. PICK a \in Assoc : a = bank_info[j]
  BY <1>1, AttachedJob DEF IInv
<1>3. PICK q \in QueueNames : q = jobspec[j].queue
  BY <1>1, AttachedJob DEF IInv
<1>4. jobspec[j].nnodes \in Int /\ jobspec[j].ncores \in Int
  BY <1>1, AttachedJob DEF IInv
<1>5. \A d \in Dep : Under(d, a, j, q, NothingReleased)
  BY <1>2, <1>3 DEF NoneExceeded, Exceeded
<1>6. SchedLimitKept'
  <2>1. Under(D_ASSOC_MSJ, a, j, q, NothingReleased) /\ NothingReleased.assoc_sched = 0
    BY <1>5, NothingGivenYet DEF Dep, NothingGiven
  <2>2. cur_sched_jobs[a] + 0 < limits[a].max_sched_jobs
    BY <2>1, UnderSched
  <2>3. cur_sched_jobs' = [cur_sched_jobs EXCEPT ![a] = @ + 1] /\ UNCHANGED <<known, limits>>
    BY <1>2 DEF Sched
  <2>4. /\ cur_sched_jobs \in [Assoc -> Int] /\ known \subseteq Assoc
        /\ \A b \in Assoc : limits[b].max_sched_jobs \in Int
    BY DEF IInv, TypeOK, Limits
  <2> QED BY <2>2, <2>3, <2>4 DEF SchedLimitKept
<1>7. QueueLimitsKept'
  <2> DEFINE use == queue_usage[a][q]  e == EnteredSched(use, j)
  <2>1. queue_usage' = [queue_usage EXCEPT ![a][q] = e]
    BY <1>2, <1>3 DEF Sched
  <2>2. use \in QueueUsage
    BY DEF IInv, TypeOK
  <2> HIDE DEF use
  <2>3. /\ e.cur_nodes = use.cur_nodes /\ e.cur_sched_jobs = use.cur_sched_jobs + 1
        /\ e.cur_sched_nodes = use.cur_sched_nodes + jobspec[j].nnodes
        /\ e.cur_sched_cores = use.cur_sched_cores + jobspec[j].ncores
    BY <2>2, EnteredFields
  <2> HIDE DEF e
  <2>4. ASSUME q \in Queues, KnownQueue(q) PROVE QueueFits(e, queues[q])
    <3> DEFINE n == NothingReleased
    <3>1. n.queue_sched[q] = 0 /\ n.queue_sched_nodes[q] = 0 /\ n.queue_sched_cores[q] = 0
      BY NothingGivenYet DEF NothingGiven
    <3> HIDE DEF n
    <3>2. /\ Under(D_QUEUE_MSJ, a, j, q, n) /\ Under(D_QUEUE_MSN, a, j, q, n)
          /\ Under(D_QUEUE_MSC, a, j, q, n) /\ Under(D_QUEUE_MRES, a, j, q, n)
      BY <1>5 DEF Dep, n
    <3>3. /\ use.cur_sched_jobs + 0 < queues[q].max_sched_jobs
          /\ use.cur_sched_nodes + jobspec[j].nnodes + 0 <= queues[q].max_sched_nodes_per_assoc
          /\ use.cur_sched_cores + jobspec[j].ncores + 0 <= queues[q].max_sched_cores_per_assoc
          /\ use.cur_nodes + use.cur_sched_nodes + jobspec[j].nnodes
               <= queues[q].max_nodes_per_assoc
      BY <2>4, <3>1, <3>2, UnderSched DEF use
    <3>4. queues[q] \in Queue
      BY <2>4 DEF KnownQueue, IInv, TypeOK
    <3> QED BY <1>4, <2>2, <2>3, <3>3, <3>4 DEF QueueFits, QueueUsage, Queue
  <2> QED BY <2>1, <2>4, QueueStep DEF IInv, Sched
<1> QED BY <1>6, <1>7

\* A job that leaves SCHED or ends makes room; one that starts keeps its nodes.
LEMMA LeavingKeepsLimits ==
  ASSUME IInv, SchedLimitKept, QueueLimitsKept, NEW j \in Jobs,
         Run(j) \/ InactivePending(j) \/ InactiveAllocated(j)
  PROVE  SchedLimitKept' /\ QueueLimitsKept'
<1> USE DEF confVars
<1>1. state[j] \in {"SCHED", "CLEANUP"} /\ UNCHANGED confVars
  BY DEF Run, InactivePending, InactiveAllocated, GoesInactive
<1>2. PICK a \in Assoc : a = bank_info[j]
  BY <1>1, AttachedJob DEF IInv
<1>3. PICK q \in QueueNames : q = jobspec[j].queue
  BY <1>1, AttachedJob DEF IInv
<1>4. jobspec[j].nnodes \in Nat /\ jobspec[j].ncores \in Nat
  <2>1. jobspec[j] \in Request
    BY <1>1, AttachedJob DEF IInv
  <2> QED BY <2>1 DEF Request
<1>5. SchedLimitKept'
  <2>1. cur_sched_jobs' = cur_sched_jobs \/ cur_sched_jobs' = [cur_sched_jobs EXCEPT ![a] = @ - 1]
    BY <1>2 DEF Run, InactivePending, InactiveAllocated
  <2>2. /\ cur_sched_jobs \in [Assoc -> Int] /\ known \subseteq Assoc
        /\ \A b \in Assoc : limits[b].max_sched_jobs \in Int
    BY DEF IInv, TypeOK, Limits
  <2> QED BY <1>1, <2>1, <2>2 DEF SchedLimitKept
<1>6. QueueLimitsKept'
  <2> DEFINE use == queue_usage[a][q]
             started == StartedIn(use, q, j)
             e == IF Run(j) THEN LeftSched(started, j)
                  ELSE IF InactivePending(j)
                       THEN (IF "priority" \in posted[j] THEN LeftSched(use, j) ELSE use)
                       ELSE StoppedIn(use, q, j)
  <2>1. use \in QueueUsage /\ queue_usage \in [Assoc -> [QueueNames -> QueueUsage]]
    BY DEF IInv, TypeOK
  <2>2. queue_usage' = [queue_usage EXCEPT ![a][q] = e]
    <3>1. CASE Run(j)
      BY <1>2, <1>3, <3>1 DEF Run
    <3>2. CASE ~Run(j) /\ InactivePending(j)
      BY <1>2, <1>3, <2>1, <3>2 DEF InactivePending
    <3>3. CASE ~Run(j) /\ ~InactivePending(j)
      BY <1>2, <1>3, <3>3 DEF InactiveAllocated
    <3> QED BY <3>1, <3>2, <3>3
  <2> HIDE DEF use
  <2>3. started \in QueueUsage /\ e \in QueueUsage
    <3>1. /\ started \in QueueUsage /\ LeftSched(use, j) \in QueueUsage
          /\ StoppedIn(use, q, j) \in QueueUsage
      BY <1>4, <2>1, UsageType
    <3> HIDE DEF started
    <3>2. LeftSched(started, j) \in QueueUsage /\ StoppedIn(started, q, j) \in QueueUsage
      BY <1>4, <3>1, UsageType
    <3> QED BY <2>1, <3>1, <3>2
  <2>4. ASSUME q # NoQueue
        PROVE  /\ e.cur_sched_jobs <= use.cur_sched_jobs
               /\ e.cur_sched_nodes <= use.cur_sched_nodes
               /\ e.cur_sched_cores <= use.cur_sched_cores
               /\ e.cur_nodes + e.cur_sched_nodes <= use.cur_nodes + use.cur_sched_nodes
    <3>t. /\ use.cur_nodes \in Int /\ use.cur_sched_jobs \in Int
          /\ use.cur_sched_nodes \in Int /\ use.cur_sched_cores \in Int
      BY <2>1 DEF QueueUsage
    <3>1. CASE Run(j)
      <4>1. /\ started.cur_sched_jobs = use.cur_sched_jobs
            /\ started.cur_sched_nodes = use.cur_sched_nodes
            /\ started.cur_sched_cores = use.cur_sched_cores
            /\ started.cur_nodes = use.cur_nodes + jobspec[j].nnodes
        BY <2>1, <2>4, StartedFields
      <4>2. e = LeftSched(started, j)
        BY <3>1
      <4> HIDE DEF e, started
      <4>3. /\ e.cur_nodes = started.cur_nodes
            /\ e.cur_sched_jobs = started.cur_sched_jobs - 1
            /\ e.cur_sched_nodes = started.cur_sched_nodes - jobspec[j].nnodes
            /\ e.cur_sched_cores = started.cur_sched_cores - jobspec[j].ncores
        BY <2>3, <4>2, LeftFields
      <4> QED BY <1>4, <3>t, <4>1, <4>3
    <3>2. CASE e = LeftSched(use, j)
      <4>1. /\ LeftSched(use, j).cur_nodes = use.cur_nodes
            /\ LeftSched(use, j).cur_sched_jobs = use.cur_sched_jobs - 1
            /\ LeftSched(use, j).cur_sched_nodes = use.cur_sched_nodes - jobspec[j].nnodes
            /\ LeftSched(use, j).cur_sched_cores = use.cur_sched_cores - jobspec[j].ncores
        BY <2>1, LeftFields
      <4> HIDE DEF e
      <4> QED BY <1>4, <3>t, <3>2, <4>1
    <3>3. CASE e = use
      <4> HIDE DEF e
      <4> QED BY <3>t, <3>3
    <3>4. CASE e = StoppedIn(use, q, j)
      <4>1. /\ StoppedIn(use, q, j).cur_sched_jobs = use.cur_sched_jobs
            /\ StoppedIn(use, q, j).cur_sched_nodes = use.cur_sched_nodes
            /\ StoppedIn(use, q, j).cur_sched_cores = use.cur_sched_cores
            /\ StoppedIn(use, q, j).cur_nodes = use.cur_nodes - jobspec[j].nnodes
        BY <2>1, <2>4, StoppedFields
      <4> HIDE DEF e
      <4> QED BY <1>4, <3>t, <3>4, <4>1
    <3> QED BY <3>1, <3>2, <3>3, <3>4
  <2>5. ASSUME a \in known, q \in Queues, KnownQueue(q) PROVE QueueFits(e, queues[q])
    <3>1. queues[q] \in Queue /\ q # NoQueue
      BY <2>5, NamesAssumption DEF KnownQueue, IInv, TypeOK
    <3>2. QueueFits(use, queues[q])
      BY <2>5, QueueLimitsByQueue DEF use
    <3> HIDE DEF e
    <3> QED BY <2>1, <2>3, <2>4, <3>1, <3>2, QueueFitsLess
  <2> HIDE DEF e
  <2> QED BY <1>1, <2>2, <2>5, QueueStep DEF IInv
<1> QED BY <1>5, <1>6

LEMMA NextLimitsKept ==
  ASSUME IInv, SchedLimitKept, QueueLimitsKept, LaunchedUnder, [StaticNext]_vars
  PROVE  SchedLimitKept' /\ QueueLimitsKept'
<1> USE DEF confVars, countVars, heldVars, jobVars, runVars
<1>1. ASSUME UNCHANGED <<confVars, cur_sched_jobs, queue_usage>>
      PROVE  SchedLimitKept' /\ QueueLimitsKept'
  BY <1>1 DEF SchedLimitKept, QueueLimitsKept, KnownQueue
<1>2. ASSUME NEW j \in Jobs, Submit(j) PROVE SchedLimitKept' /\ QueueLimitsKept'
  BY <1>1, <1>2 DEF Submit, Validate, New, NewRejected
<1>3. ASSUME NEW j \in Jobs, Depend(j) \/ AfterAnyDone(j) \/ Priority(j) \/ Finish(j) \/ Cancel(j)
                             \/ Keep(j) \/ Release(j) \/ Commit(j)
      PROVE  SchedLimitKept' /\ QueueLimitsKept'
  BY <1>1, <1>3 DEF Depend, AfterAnyDone, Priority, Finish, Cancel, Keep, Release, Commit
<1>4. ASSUME NEW j \in Jobs, Sched(j) PROVE SchedLimitKept' /\ QueueLimitsKept'
  <2>1. NoneExceeded(j)
    BY <1>4 DEF Sched, LaunchedUnder, Launching
  <2> QED BY <1>4, <2>1, SchedKeepsLimits
<1>5. ASSUME NEW j \in Jobs, Run(j) \/ InactivePending(j) \/ InactiveAllocated(j)
      PROVE  SchedLimitKept' /\ QueueLimitsKept'
  BY <1>5, LeavingKeepsLimits
<1>6. CASE EndPass \/ (\E a \in Assoc : ReprioritizeNext(a)) \/ Reprioritize \/ UNCHANGED vars
  BY <1>1, <1>6 DEF EndPass, ReprioritizeNext, Reprioritize, vars
<1> QED BY <1>2, <1>3, <1>4, <1>5, <1>6 DEF StaticNext, Callback, JobEvent, ReleasePass,
           JobsUsedUp

LEMMA StaticIsNext == [StaticNext]_vars => [Next]_vars
  BY DEF StaticNext, JobsUsedUp, Next, Update

\* What limits.cfg checks, of every instance where limit d alone is in the way.
LimitsInv(d) == IInv /\ LimitInv(d) /\ SchedLimitKept /\ QueueLimitsKept

LEMMA NextLimits ==
  ASSUME NEW d \in SchedDep, NoAfterAny
  PROVE  LimitsInv(d) /\ OneLimit(d) /\ [StaticNext]_vars => LimitsInv(d)'
<1> SUFFICES ASSUME LimitsInv(d), OneLimit(d), [StaticNext]_vars PROVE LimitsInv(d)'
  OBVIOUS
<1>1. IInv'
  BY StaticIsNext, NextInv DEF LimitsInv
<1>2. LimitInv(d)'
  BY NextOnlyOwn, NextLaunched, NextNothingToBook DEF LimitsInv, LimitInv
<1>3. SchedLimitKept' /\ QueueLimitsKept'
  BY NextLimitsKept DEF LimitsInv, LimitInv
<1> QED BY <1>1, <1>2, <1>3 DEF LimitsInv

-----------------------------------------------------------------------------
(* Why a job is held *)

\* The limit in the way is exceeded by a held job, unless the pass that is under
\* way has still to look at that job.
HeldBack(d, a, j) == d \in Exceeded(a, j, jobspec[j].queue, NothingReleased)
Ahead(a, i) == pass # NULL /\ pass.assoc = a /\ i >= pass.at
HeldInv(d) ==
  \A a \in Assoc : \A i \in DOMAIN held_jobs[a] : HeldBack(d, a, held_jobs[a][i]) \/ Ahead(a, i)

LEMMA HeldJob ==
  ASSUME IInv, NEW a \in Assoc, NEW i \in DOMAIN held_jobs[a], NEW j, j = held_jobs[a][i]
  PROVE  /\ j \in Jobs /\ j \in HeldBy(a) /\ bank_info[j] = a
         /\ held_queue[j] = jobspec[j].queue
         /\ state[j] \notin {"UNSUBMITTED", "NEW"} /\ jobspec[j] \in Request
<1>1. held_jobs[a] \in Seq(Jobs)
  BY DEF IInv, TypeOK
<1>2. j \in Jobs /\ j \in HeldBy(a)
  BY <1>1 DEF HeldBy, ToSet
<1>3. bank_info[j] = a /\ held_queue[j] = jobspec[j].queue
  BY <1>2 DEF IInv, HeldJobsConsistent, HeldAreDependents
<1>4. state[j] \notin {"UNSUBMITTED", "NEW"}
  BY <1>2, <1>3, NullAssumption DEF IInv, JobsConsistent
<1> QED BY <1>2, <1>3, <1>4, AttachedJob DEF IInv

\* A limit depends on the counters of the job's own association only.
LEMMA SameHeldBack ==
  ASSUME UNCHANGED confVars, NEW d, NEW a, NEW j, jobspec'[j] = jobspec[j],
         cur_run_jobs'[a] = cur_run_jobs[a], cur_sched_jobs'[a] = cur_sched_jobs[a],
         cur_nodes'[a] = cur_nodes[a], cur_cores'[a] = cur_cores[a],
         queue_usage'[a] = queue_usage[a], HeldBack(d, a, j)
  PROVE  HeldBack(d, a, j)'
<1>1. PICK q : q = jobspec[j].queue
  OBVIOUS
<1>2. ASSUME NEW e PROVE Under(e, a, j, q, NothingReleased)' <=> Under(e, a, j, q, NothingReleased)
  BY DEF Under, KnownQueue, confVars
<1>3. Exceeded(a, j, q, NothingReleased)' = Exceeded(a, j, q, NothingReleased)
  BY <1>2 DEF Exceeded
<1>4. HeldBack(d, a, j)' <=> d \in Exceeded(a, j, q, NothingReleased)'
  BY <1>1 DEF HeldBack
<1> QED BY <1>1, <1>3, <1>4 DEF HeldBack

\* Jobs that stay held, with no pass at work, are held for what they were.
LEMMA StillHeld ==
  ASSUME IInv, NEW d, HeldInv(d), NEW a \in Assoc, pass = NULL,
         NEW i \in DOMAIN held_jobs'[a], NEW j, j = held_jobs'[a][i], j \in HeldBy(a),
         UNCHANGED confVars, jobspec'[j] = jobspec[j],
         cur_run_jobs'[a] = cur_run_jobs[a], cur_sched_jobs'[a] = cur_sched_jobs[a],
         cur_nodes'[a] = cur_nodes[a], cur_cores'[a] = cur_cores[a],
         queue_usage'[a] = queue_usage[a]
  PROVE  HeldBack(d, a, j)'
<1>1. PICK k \in DOMAIN held_jobs[a] : held_jobs[a][k] = j
  BY DEF HeldBy, ToSet
<1>2. HeldBack(d, a, j)
  BY <1>1 DEF HeldInv, Ahead
<1> QED BY <1>2, SameHeldBack

\* A job that enters SCHED leaves no more room for the others.
LEMMA SchedHoldsBack ==
  ASSUME IInv, NEW j \in Jobs, Sched(j), NEW d \in SchedDep, NEW a \in Assoc, NEW i \in Jobs,
         jobspec[i] \in Request, HeldBack(d, a, i)
  PROVE  HeldBack(d, a, i)'
<1> USE DEF confVars
<1> DEFINE n == NothingReleased
<1>1. PICK q \in QueueNames : q = jobspec[i].queue
  BY DEF Request
<1>2. PICK b \in Assoc, p \in QueueNames :
        b = bank_info[j] /\ p = jobspec[j].queue /\ jobspec[j] \in Request
  BY AttachedJob DEF IInv, JobsConsistent, Sched
<1>3. UNCHANGED <<confVars, cur_nodes, cur_cores, cur_run_jobs, jobspec>>
  BY DEF Sched
<1>4. d \in Dep /\ ~Under(d, a, i, q, n) /\ (HeldBack(d, a, i)' <=> ~Under(d, a, i, q, n)')
  BY <1>1, <1>3 DEF HeldBack, Exceeded, SchedDep, Dep
<1>5. cur_sched_jobs[a] \in Int /\ cur_sched_jobs'[a] \in Int
      /\ cur_sched_jobs'[a] >= cur_sched_jobs[a]
  <2>1. /\ cur_sched_jobs' = [cur_sched_jobs EXCEPT ![b] = @ + 1]
        /\ cur_sched_jobs \in [Assoc -> Int]
    BY <1>2 DEF Sched, IInv, TypeOK
  <2> QED BY <2>1
<1> DEFINE use == queue_usage[a][q]  use2 == queue_usage'[a][q]
<1>6. /\ use.cur_nodes \in Int /\ use.cur_sched_jobs \in Int
      /\ use.cur_sched_nodes \in Int /\ use.cur_sched_cores \in Int
      /\ use2.cur_sched_jobs \in Int /\ use2.cur_sched_nodes \in Int
      /\ use2.cur_sched_cores \in Int
      /\ use2.cur_nodes = use.cur_nodes
      /\ use2.cur_sched_jobs >= use.cur_sched_jobs
      /\ use2.cur_sched_nodes >= use.cur_sched_nodes
      /\ use2.cur_sched_cores >= use.cur_sched_cores
  <2> DEFINE e == EnteredSched(queue_usage[b][p], j)
  <2>1. queue_usage' = [queue_usage EXCEPT ![b][p] = e]
    BY <1>2 DEF Sched
  <2>2. queue_usage \in [Assoc -> [QueueNames -> QueueUsage]]
    BY DEF IInv, TypeOK
  <2>3. use \in QueueUsage /\ queue_usage[b][p] \in QueueUsage
    BY <2>2
  <2>4. /\ use.cur_nodes \in Int /\ use.cur_sched_jobs \in Int
        /\ use.cur_sched_nodes \in Int /\ use.cur_sched_cores \in Int
    BY <2>3 DEF QueueUsage
  <2>5. /\ e.cur_nodes = queue_usage[b][p].cur_nodes
        /\ e.cur_sched_jobs = queue_usage[b][p].cur_sched_jobs + 1
        /\ e.cur_sched_nodes = queue_usage[b][p].cur_sched_nodes + jobspec[j].nnodes
        /\ e.cur_sched_cores = queue_usage[b][p].cur_sched_cores + jobspec[j].ncores
    BY <2>3, EnteredFields
  <2>6. jobspec[j].nnodes \in Nat /\ jobspec[j].ncores \in Nat
    BY <1>2 DEF Request
  <2> HIDE DEF e
  <2>7. CASE a = b /\ q = p
    <3>1. use2 = e /\ use = queue_usage[b][p]
      BY <2>1, <2>2, <2>7
    <3> HIDE DEF use, use2
    <3> QED BY <2>4, <2>5, <2>6, <3>1
  <2>8. CASE ~(a = b /\ q = p)
    <3>1. use2 = use
      BY <2>1, <2>2, <2>8
    <3> HIDE DEF use, use2
    <3> QED BY <2>4, <3>1
  <2> QED BY <2>7, <2>8
<1>7. jobspec[i].nnodes \in Int /\ jobspec[i].ncores \in Int
  BY DEF Request
<1>8. \A p1 : KnownQueue(p1)' <=> KnownQueue(p1)
  BY <1>3 DEF KnownQueue
<1>9. KnownQueue(q) => queues[q] \in Queue
  BY DEF KnownQueue, IInv, TypeOK
<1>10. limits[a].max_sched_jobs \in Int
  BY DEF IInv, TypeOK, Limits
<1>11. /\ n.assoc_sched = 0 /\ n.queue_sched[q] = 0 /\ n.queue_sched_nodes[q] = 0
       /\ n.queue_sched_cores[q] = 0
  BY NothingGivenYet DEF NothingGiven
<1> HIDE DEF n
<1>12. CASE d = D_ASSOC_MSJ
  <2>1. Under(D_ASSOC_MSJ, a, i, q, n)' <=>
          cur_sched_jobs'[a] + n.assoc_sched < limits'[a].max_sched_jobs
    BY DEF Under, n, D_QUEUE_MRJ, D_ASSOC_MRJ, D_ASSOC_MRES, D_QUEUE_MRES, D_ASSOC_MSJ,
       D_QUEUE_MSJ, D_QUEUE_MSN, D_QUEUE_MSC
  <2>2. cur_sched_jobs[a] + n.assoc_sched >= limits[a].max_sched_jobs
    BY <1>4, <1>5, <1>10, <1>11, <1>12, UnderSched
  <2> QED BY <1>3, <1>4, <1>5, <1>10, <1>11, <1>12, <2>1, <2>2
<1>13. CASE d = D_QUEUE_MSJ
  <2>1. Under(D_QUEUE_MSJ, a, i, q, n)' <=>
          (KnownQueue(q)' => use2.cur_sched_jobs + n.queue_sched[q] < queues'[q].max_sched_jobs)
    BY DEF Under, n, D_QUEUE_MRJ, D_ASSOC_MRJ, D_ASSOC_MRES, D_QUEUE_MRES, D_ASSOC_MSJ,
       D_QUEUE_MSJ, D_QUEUE_MSN, D_QUEUE_MSC
  <2>2. KnownQueue(q) /\ ~(use.cur_sched_jobs + n.queue_sched[q] < queues[q].max_sched_jobs)
    BY <1>4, <1>13, UnderSched
  <2>3. queues[q].max_sched_jobs \in Int
    BY <1>9, <2>2 DEF Queue
  <2> HIDE DEF use, use2
  <2> QED BY <1>3, <1>4, <1>6, <1>8, <1>11, <1>13, <2>1, <2>2, <2>3
<1>14. CASE d = D_QUEUE_MSN
  <2>1. Under(D_QUEUE_MSN, a, i, q, n)' <=>
          (KnownQueue(q)' =>
             use2.cur_sched_nodes + jobspec'[i].nnodes + n.queue_sched_nodes[q]
               <= queues'[q].max_sched_nodes_per_assoc)
    BY DEF Under, n, D_QUEUE_MRJ, D_ASSOC_MRJ, D_ASSOC_MRES, D_QUEUE_MRES, D_ASSOC_MSJ,
       D_QUEUE_MSJ, D_QUEUE_MSN, D_QUEUE_MSC
  <2>2. /\ KnownQueue(q)
        /\ ~(use.cur_sched_nodes + jobspec[i].nnodes + n.queue_sched_nodes[q]
               <= queues[q].max_sched_nodes_per_assoc)
    BY <1>4, <1>14, UnderSched
  <2>3. queues[q].max_sched_nodes_per_assoc \in Int
    BY <1>9, <2>2 DEF Queue
  <2> HIDE DEF use, use2
  <2> QED BY <1>3, <1>4, <1>6, <1>7, <1>8, <1>11, <1>14, <2>1, <2>2, <2>3
<1>15. CASE d = D_QUEUE_MSC
  <2>1. Under(D_QUEUE_MSC, a, i, q, n)' <=>
          (KnownQueue(q)' =>
             use2.cur_sched_cores + jobspec'[i].ncores + n.queue_sched_cores[q]
               <= queues'[q].max_sched_cores_per_assoc)
    BY DEF Under, n, D_QUEUE_MRJ, D_ASSOC_MRJ, D_ASSOC_MRES, D_QUEUE_MRES, D_ASSOC_MSJ,
       D_QUEUE_MSJ, D_QUEUE_MSN, D_QUEUE_MSC
  <2>2. /\ KnownQueue(q)
        /\ ~(use.cur_sched_cores + jobspec[i].ncores + n.queue_sched_cores[q]
               <= queues[q].max_sched_cores_per_assoc)
    BY <1>4, <1>15, UnderSched
  <2>3. queues[q].max_sched_cores_per_assoc \in Int
    BY <1>9, <2>2 DEF Queue
  <2> HIDE DEF use, use2
  <2> QED BY <1>3, <1>4, <1>6, <1>7, <1>8, <1>11, <1>15, <2>1, <2>2, <2>3
<1>16. CASE d = D_QUEUE_MRES
  <2>1. Under(D_QUEUE_MRES, a, i, q, n)' <=>
          (KnownQueue(q)' => use2.cur_nodes + use2.cur_sched_nodes + jobspec'[i].nnodes
                               <= queues'[q].max_nodes_per_assoc)
    BY DEF Under, n, D_QUEUE_MRJ, D_ASSOC_MRJ, D_ASSOC_MRES, D_QUEUE_MRES, D_ASSOC_MSJ,
       D_QUEUE_MSJ, D_QUEUE_MSN, D_QUEUE_MSC
  <2>2. /\ KnownQueue(q)
        /\ ~(use.cur_nodes + use.cur_sched_nodes + jobspec[i].nnodes
               <= queues[q].max_nodes_per_assoc)
    BY <1>4, <1>16, UnderSched
  <2>3. queues[q].max_nodes_per_assoc \in Int
    BY <1>9, <2>2 DEF Queue
  <2> HIDE DEF use, use2
  <2> QED BY <1>3, <1>4, <1>6, <1>7, <1>8, <1>16, <2>1, <2>2, <2>3
<1> QED BY <1>12, <1>13, <1>14, <1>15, <1>16 DEF SchedDep

LEMMA RemoveAtBefore ==
  ASSUME NEW S, NEW s \in Seq(S), NEW i \in 1..Len(s), NEW k \in DOMAIN RemoveAt(s, i)
  PROVE  k \in Nat /\ (k < i => k \in DOMAIN s /\ RemoveAt(s, i)[k] = s[k])
<1> DEFINE t == RemoveAt(s, i)  u == SubSeq(s, 1, i - 1)  v == SubSeq(s, i + 1, Len(s))
<1>1. /\ u \in Seq(S) /\ Len(u) = i - 1 /\ \A m \in 1..(i - 1) : u[m] = s[m]
      /\ v \in Seq(S)
  OBVIOUS
<1>2. t = u \o v
  BY DEF RemoveAt
<1>3. k \in DOMAIN t
  OBVIOUS
<1> HIDE DEF t, u, v
<1>4. k \in Nat /\ k >= 1
  BY <1>1, <1>2, <1>3
<1>5. k < i => t[k] = s[k] /\ k \in DOMAIN s
  BY <1>1, <1>2, <1>3, <1>4
<1> QED BY <1>4, <1>5 DEF t

LEMMA NextHeldInv ==
  ASSUME IInv, NEW d \in SchedDep, OneLimit(d), LimitInv(d), HeldInv(d), [StaticNext]_vars
  PROVE  HeldInv(d)'
<1> USE DEF confVars, countVars, heldVars, jobVars, runVars
<1>t. /\ \A a \in Assoc : held_jobs[a] \in Seq(Jobs)
      /\ held_jobs \in [Assoc -> Seq(Jobs)]
      /\ pass \in Pass \cup {NULL}
  BY DEF IInv, TypeOK
\* Nothing that a held job is held by has changed.
<1>1. ASSUME UNCHANGED <<confVars, countVars, held_jobs, pass>>,
             \A a \in Assoc : \A j \in HeldBy(a) : jobspec'[j] = jobspec[j]
      PROVE  HeldInv(d)'
  <2>1. ASSUME NEW a \in Assoc, NEW i \in DOMAIN held_jobs'[a]
        PROVE  HeldBack(d, a, held_jobs[a][i])' \/ Ahead(a, i)'
    <3>1. PICK j : j = held_jobs[a][i]
      OBVIOUS
    <3>2. j \in HeldBy(a)
      BY <1>1, <2>1, <3>1, HeldJob
    <3>3. HeldBack(d, a, j) \/ Ahead(a, i)
      BY <1>1, <2>1, <3>1 DEF HeldInv
    <3>4. Ahead(a, i) => Ahead(a, i)'
      BY <1>1 DEF Ahead
    <3>5. HeldBack(d, a, j) => HeldBack(d, a, j)'
      BY <1>1, <3>2, SameHeldBack
    <3>6. HeldBack(d, a, held_jobs[a][i])' <=> HeldBack(d, a, j)'
      BY <1>1, <3>1 DEF HeldBack
    <3> QED BY <3>3, <3>4, <3>5, <3>6
  <2> QED BY <2>1 DEF HeldInv
<1>2. ASSUME UNCHANGED <<confVars, countVars, held_jobs, pass, jobspec>> PROVE HeldInv(d)'
  BY <1>1, <1>2
<1>3. ASSUME NEW j \in Jobs, Submit(j) PROVE HeldInv(d)'
  <2>1. Idle /\ state[j] \in {"UNSUBMITTED", "NEW"}
    BY <1>3 DEF Submit, Validate, New, NewRejected
  <2>2. \A a \in Assoc : j \notin HeldBy(a)
    BY <2>1, IdleJob DEF IInv
  <2>3. UNCHANGED <<confVars, cur_run_jobs, cur_sched_jobs, cur_nodes, cur_cores, queue_usage,
                    held_jobs, pass>>
    BY <1>3 DEF Submit, Validate, New, NewRejected
  <2>4. ASSUME NEW i \in Jobs \ {j} PROVE jobspec'[i] = jobspec[i]
    BY <1>3, NewJobspecType DEF Submit, Validate, Accept, NewRejected, IInv, TypeOK
  <2>5. pass = NULL
    BY <2>1 DEF Idle
  <2>6. ASSUME NEW a \in Assoc, NEW k \in DOMAIN held_jobs'[a]
        PROVE  HeldBack(d, a, held_jobs[a][k])'
    <3>1. PICK i \in Jobs : i = held_jobs[a][k] /\ i \in HeldBy(a)
      BY <2>3, <2>6, HeldJob
    <3>2. HeldBack(d, a, i)'
      BY <2>2, <2>3, <2>4, <2>5, <2>6, <3>1, StillHeld
    <3>3. HeldBack(d, a, held_jobs[a][k])' <=> HeldBack(d, a, i)'
      BY <2>3, <3>1 DEF HeldBack
    <3> QED BY <3>2, <3>3
  <2> QED BY <2>6 DEF HeldInv
<1>4. ASSUME NEW j \in Jobs, AfterAnyDone(j) \/ Priority(j) \/ Finish(j) \/ Cancel(j)
      PROVE  HeldInv(d)'
  BY <1>2, <1>4 DEF AfterAnyDone, Priority, Finish, Cancel
<1>5. ASSUME NEW j \in Jobs, Depend(j) PROVE HeldInv(d)'
  <2>1. state[j] = "DEPEND" /\ pass = NULL
    BY <1>5, NoPassOutside DEF Depend, IInv, JobsConsistent
  <2>2. PICK a \in Assoc : a = bank_info[j]
    BY <2>1, AttachedJob DEF IInv
  <2> DEFINE ex == Exceeded(a, j, jobspec[j].queue, NothingReleased)
  <2>3. ex \subseteq {d}
    BY <2>1, <2>2 DEF OneLimit
  <2>4. /\ UNCHANGED <<confVars, countVars, jobspec, pass>>
        /\ \/ held_jobs' = held_jobs
           \/ ex # {} /\ held_jobs' = [held_jobs EXCEPT ![a] = Append(@, j)]
    BY <1>5, <2>2 DEF Depend
  <2>5. ex # {} => HeldBack(d, a, j)
    BY <2>3 DEF HeldBack
  <2> HIDE DEF ex
  <2>6. CASE held_jobs' = held_jobs
    BY <1>2, <2>4, <2>6
  <2>7. CASE ex # {} /\ held_jobs' = [held_jobs EXCEPT ![a] = Append(@, j)]
    <3>1. ASSUME NEW b \in Assoc, NEW k \in DOMAIN held_jobs'[b]
          PROVE  HeldBack(d, b, held_jobs[b][k])'
      <4>1. PICK i : i = held_jobs'[b][k]
        OBVIOUS
      <4>2. i \in HeldBy(b) \/ (b = a /\ i = j)
        <5>1. CASE b # a
          BY <1>t, <2>7, <3>1, <4>1, <5>1 DEF HeldBy, ToSet
        <5>2. CASE b = a
          <6>1. held_jobs'[b] = Append(held_jobs[a], j)
            BY <1>t, <2>7, <5>2
          <6>2. i \in ToSet(Append(held_jobs[a], j))
            BY <3>1, <4>1, <6>1 DEF ToSet
          <6> QED BY <1>t, <5>2, <6>2, AppendHeld DEF HeldBy
        <5> QED BY <5>1, <5>2
      <4>3. CASE i \in HeldBy(b)
        BY <2>1, <2>4, <3>1, <4>1, <4>3, StillHeld
      <4>4. CASE b = a /\ i = j
        <5>1. HeldBack(d, a, j)'
          BY <2>4, <2>5, <2>7, SameHeldBack
        <5> QED BY <4>1, <4>4, <5>1 DEF HeldBack
      <4> QED BY <4>2, <4>3, <4>4
    <3> QED BY <3>1 DEF HeldInv
  <2> QED BY <2>4, <2>6, <2>7
\* Room appears for association a alone, and a pass starts over what it holds.
<1>6. ASSUME NEW a \in Assoc, pass = NULL, UNCHANGED <<confVars, jobspec>>,
             \A b \in Assoc \ {a} :
               /\ cur_run_jobs'[b] = cur_run_jobs[b] /\ cur_sched_jobs'[b] = cur_sched_jobs[b]
               /\ cur_nodes'[b] = cur_nodes[b] /\ cur_cores'[b] = cur_cores[b]
               /\ queue_usage'[b] = queue_usage[b] /\ held_jobs'[b] = held_jobs[b],
             held_jobs'[a] \in Seq(Jobs),
             held_jobs'[a] # <<>> => pass' = StartPass(a)
      PROVE  HeldInv(d)'
  <2>1. ASSUME NEW b \in Assoc, NEW k \in DOMAIN held_jobs'[b]
        PROVE  HeldBack(d, b, held_jobs[b][k])' \/ Ahead(b, k)'
    <3>1. CASE b = a
      <4>1. k \in Nat /\ k >= 1 /\ held_jobs'[a] # <<>>
        BY <1>6, <2>1, <3>1
      <4>2. pass' = StartPass(a) /\ pass' # NULL
        BY <1>6, <4>1, StartPassType, NullAssumption
      <4> QED BY <3>1, <4>1, <4>2 DEF Ahead, StartPass
    <3>2. CASE b # a
      <4>1. PICK i : i = held_jobs'[b][k]
        OBVIOUS
      <4>2. i \in HeldBy(b)
        BY <1>6, <2>1, <3>2, <4>1 DEF HeldBy, ToSet
      <4>3. HeldBack(d, b, i)'
        BY <1>6, <2>1, <3>2, <4>1, <4>2, StillHeld
      <4> QED BY <4>1, <4>3 DEF HeldBack
    <3> QED BY <3>1, <3>2
  <2> QED BY <2>1 DEF HeldInv
<1>7. ASSUME NEW j \in Jobs, Run(j) \/ InactiveAllocated(j)
      PROVE  HeldInv(d)'
  <2>1. state[j] \in {"SCHED", "CLEANUP"} /\ pass = NULL
    BY <1>7, NoPassOutside DEF Run, InactiveAllocated, GoesInactive, Idle, IInv
  <2>2. PICK a \in Assoc : a = bank_info[j]
    BY <2>1, AttachedJob DEF IInv
  <2>3. \A b \in Assoc \ {a} :
          /\ cur_run_jobs'[b] = cur_run_jobs[b] /\ cur_sched_jobs'[b] = cur_sched_jobs[b]
          /\ cur_nodes'[b] = cur_nodes[b] /\ cur_cores'[b] = cur_cores[b]
          /\ queue_usage'[b] = queue_usage[b] /\ held_jobs'[b] = held_jobs[b]
    BY <1>7, <2>2 DEF Run, InactiveAllocated, CountResources, IInv, TypeOK
  <2>4. /\ UNCHANGED <<confVars, jobspec, held_jobs>>
        /\ held_jobs[a] # <<>> => pass' = StartPass(a)
    BY <1>7, <2>2 DEF Run, InactiveAllocated, PassIfHeld
  <2> QED BY <1>6, <1>t, <2>1, <2>3, <2>4
<1>8. ASSUME NEW j \in Jobs, InactivePending(j) PROVE HeldInv(d)'
  <2>1. state[j] = "CLEANUP" /\ pass = NULL
    BY <1>8, NoPassOutside DEF InactivePending, GoesInactive, IInv
  <2>2. PICK a \in Assoc : a = bank_info[j]
    BY <2>1, AttachedJob DEF IInv
  <2>3. held_jobs' = [held_jobs EXCEPT ![a] = Erase(@, j)] /\ UNCHANGED <<confVars, jobspec>>
    BY <1>8, <2>2 DEF InactivePending, Unhold
  <2>4. /\ held_jobs'[a] = Erase(held_jobs[a], j) /\ held_jobs'[a] \in Seq(Jobs)
        /\ \A b \in Assoc \ {a} : held_jobs'[b] = held_jobs[b]
        /\ ToSet(held_jobs'[a]) \subseteq HeldBy(a)
    <3>1. held_jobs'[a] = Erase(held_jobs[a], j)
      BY <1>t, <2>3
    <3>2. IsInjective(held_jobs[a])
      BY DEF IInv, HeldJobsConsistent
    <3> QED BY <1>t, <2>3, <3>1, <3>2, EraseType, EraseHeld DEF HeldBy
  <2>5. CASE "priority" \in posted[j]
    <3>1. \A b \in Assoc \ {a} :
            /\ cur_run_jobs'[b] = cur_run_jobs[b] /\ cur_sched_jobs'[b] = cur_sched_jobs[b]
            /\ cur_nodes'[b] = cur_nodes[b] /\ cur_cores'[b] = cur_cores[b]
            /\ queue_usage'[b] = queue_usage[b]
      BY <1>8, <2>2, <2>5 DEF InactivePending, IInv, TypeOK
    <3>2. held_jobs'[a] # <<>> => pass' = StartPass(a)
      BY <1>8, <2>2, <2>5 DEF InactivePending, PassIfHeld
    <3> QED BY <1>6, <2>1, <2>3, <2>4, <3>1, <3>2
  <2>6. CASE "priority" \notin posted[j]
    <3>1. UNCHANGED <<cur_run_jobs, cur_sched_jobs, cur_nodes, cur_cores, queue_usage>>
      BY <1>8, <2>6 DEF InactivePending
    <3>2. ASSUME NEW b \in Assoc, NEW k \in DOMAIN held_jobs'[b]
          PROVE  HeldBack(d, b, held_jobs[b][k])'
      <4>1. PICK i : i = held_jobs'[b][k]
        OBVIOUS
      <4>2. i \in HeldBy(b)
        BY <2>4, <3>2, <4>1 DEF HeldBy, ToSet
      <4>3. HeldBack(d, b, i)'
        BY <2>1, <2>3, <3>1, <3>2, <4>1, <4>2, StillHeld
      <4> QED BY <4>1, <4>3 DEF HeldBack
    <3> QED BY <3>2 DEF HeldInv
  <2> QED BY <2>5, <2>6
<1>9. ASSUME NEW j \in Jobs, Sched(j) PROVE HeldInv(d)'
  <2>1. ASSUME NEW a \in Assoc, NEW k \in DOMAIN held_jobs'[a]
        PROVE  HeldBack(d, a, held_jobs[a][k])' \/ Ahead(a, k)'
    <3>1. UNCHANGED <<held_jobs, pass>>
      BY <1>9 DEF Sched
    <3>2. PICK i \in Jobs : i = held_jobs[a][k] /\ jobspec[i] \in Request
      BY <2>1, <3>1, HeldJob
    <3>3. HeldBack(d, a, i) \/ Ahead(a, k)
      BY <2>1, <3>1, <3>2 DEF HeldInv
    <3>4. Ahead(a, k) => Ahead(a, k)'
      BY <3>1 DEF Ahead
    <3>5. HeldBack(d, a, i) => HeldBack(d, a, i)'
      BY <1>9, <3>2, SchedHoldsBack
    <3>6. HeldBack(d, a, held_jobs[a][k])' <=> HeldBack(d, a, i)'
      BY <3>1, <3>2 DEF HeldBack
    <3> QED BY <3>3, <3>4, <3>5, <3>6
  <2> QED BY <2>1 DEF HeldInv
\* The pass is done with the job it looks at, and goes on with the next.
<1>10. ASSUME NEW j \in Jobs, Keep(j) PROVE HeldInv(d)'
  <2>1. /\ pass \in Pass /\ pass # NULL /\ pass.assoc \in Assoc
        /\ pass.at \in 1..Len(held_jobs[pass.assoc]) /\ held_jobs[pass.assoc][pass.at] = j
        /\ held_queue[j] = jobspec[j].queue /\ bank_info[j] = pass.assoc
        /\ state[j] = "DEPEND" /\ deps[j] # {}
    BY <1>10, LooksAtDependent DEF Keep, LooksAt, IInv
  <2>2. PICK a \in Assoc : a = pass.assoc
    BY <2>1
  <2>3. deps[j] = {d}
    BY <2>1 DEF LimitInv, OnlyOwn
  <2>4. d \in Exceeded(a, j, jobspec[j].queue, pass.released)
    BY <1>10, <2>1, <2>2, <2>3 DEF Keep, Removable
  <2>5. NothingGiven(pass.released) /\ jobspec[j].queue \in QueueNames
    BY <2>1, AttachedJob DEF LimitInv, NothingToBook, IInv
  <2>6. HeldBack(d, a, j)
    BY <2>4, <2>5, SameUnder DEF HeldBack, Exceeded
  <2>7. UNCHANGED <<confVars, countVars, held_jobs, jobspec>> /\ pass' = [pass EXCEPT !.at = @ + 1]
    BY <1>10 DEF Keep
  <2>8. pass' # NULL /\ pass'.assoc = a /\ pass'.at = pass.at + 1 /\ pass.at \in Nat
    BY <2>1, <2>2, <2>7, NullAssumption DEF Pass
  <2>9. ASSUME NEW b \in Assoc, NEW k \in DOMAIN held_jobs'[b]
        PROVE  HeldBack(d, b, held_jobs[b][k])' \/ Ahead(b, k)'
    <3>1. PICK i : i = held_jobs[b][k]
      OBVIOUS
    <3>2. k \in Nat
      BY <1>t, <2>7, <2>9
    <3>3. HeldBack(d, b, i) \/ Ahead(b, k)'
      <4>1. CASE b = a /\ k = pass.at
        BY <2>1, <2>2, <2>6, <3>1, <4>1
      <4>2. CASE ~(b = a /\ k = pass.at)
        <5>1. HeldBack(d, b, i) \/ Ahead(b, k)
          BY <2>7, <2>9, <3>1 DEF HeldInv
        <5> QED BY <2>2, <2>8, <3>2, <4>2, <5>1 DEF Ahead
      <4> QED BY <4>1, <4>2
    <3>4. HeldBack(d, b, i) => HeldBack(d, b, i)'
      BY <2>7, SameHeldBack
    <3>5. HeldBack(d, b, held_jobs[b][k])' <=> HeldBack(d, b, i)'
      BY <2>7, <3>1 DEF HeldBack
    <3> QED BY <3>3, <3>4, <3>5
  <2> QED BY <2>9 DEF HeldInv
\* The job it releases is still there, the counters too.
<1>11. ASSUME NEW j \in Jobs, Release(j) PROVE HeldInv(d)'
  <2>1. pass \in Pass /\ pass # NULL
    BY <1>11, LooksAtDependent DEF Release, LooksAt, IInv
  <2>2. UNCHANGED <<confVars, countVars, held_jobs, jobspec>>
    BY <1>11 DEF Release
  <2>3. pass' # NULL /\ pass'.assoc = pass.assoc /\ pass'.at = pass.at
    <3> DEFINE removed == Removable(j)
    <3>1. pass' = [pass EXCEPT !.job = j, !.removed = removed]
      BY <1>11 DEF Release
    <3>2. removed \subseteq Dep
      BY DEF Removable, IInv, TypeOK
    <3> HIDE DEF removed
    <3>3. pass' \in Pass
      BY <2>1, <3>1, <3>2 DEF Pass
    <3> QED BY <2>1, <3>1, <3>3, NullAssumption DEF Pass
  <2>4. ASSUME NEW a \in Assoc, NEW k \in DOMAIN held_jobs'[a]
        PROVE  HeldBack(d, a, held_jobs[a][k])' \/ Ahead(a, k)'
    <3>1. PICK i : i = held_jobs[a][k]
      OBVIOUS
    <3>2. HeldBack(d, a, i) \/ Ahead(a, k)
      BY <2>2, <2>4, <3>1 DEF HeldInv
    <3>3. Ahead(a, k) => Ahead(a, k)'
      BY <2>3 DEF Ahead
    <3>4. HeldBack(d, a, i) => HeldBack(d, a, i)'
      BY <2>2, SameHeldBack
    <3>5. HeldBack(d, a, held_jobs[a][k])' <=> HeldBack(d, a, i)'
      BY <2>2, <3>1 DEF HeldBack
    <3> QED BY <3>2, <3>3, <3>4, <3>5
  <2> QED BY <2>4 DEF HeldInv
\* It is erased, and its successor takes its place.
<1>12. ASSUME NEW j \in Jobs, Commit(j) PROVE HeldInv(d)'
  <2>1. pass # NULL /\ pass \in Pass /\ pass.job # NULL
    BY <1>t, <1>12, NamesAssumption DEF Commit
  <2>2. PICK a \in Assoc : a = pass.assoc
    BY <2>1 DEF Pass
  <2>3. PICK at \in 1..Len(held_jobs[a]) : at = pass.at
    BY <2>1, <2>2 DEF IInv, IteratorValid
  <2>4. /\ UNCHANGED <<confVars, countVars, jobspec>>
        /\ held_jobs' = [held_jobs EXCEPT ![a] = RemoveAt(@, at)]
    BY <1>12, <2>2, <2>3 DEF Commit
  <2>5. pass' # NULL /\ pass'.assoc = a /\ pass'.at = at
    <3> DEFINE g == Given(pass.released, j, held_queue[j], pass.removed)
    <3>1. pass' = [pass EXCEPT !.job = NULL, !.removed = {}, !.released = g]
      BY <1>12 DEF Commit
    <3>2. pass' \in Pass
      <4>1. jobspec[j].nnodes \in Int /\ jobspec[j].ncores \in Int
        BY <1>12, <2>1, AttachedJob DEF Commit, IInv, LimitInv, NothingToBook
      <4>2. g \in Released
        BY <1>12, <2>1, <4>1, GivenType DEF Pass, IInv, TypeOK
      <4> HIDE DEF g
      <4> QED BY <2>1, <3>1, <4>2 DEF Pass
    <3> HIDE DEF g
    <3> QED BY <2>1, <2>2, <2>3, <3>1, <3>2, NullAssumption DEF Pass
  <2>6. ASSUME NEW b \in Assoc, NEW k \in DOMAIN held_jobs'[b]
        PROVE  HeldBack(d, b, held_jobs[b][k])' \/ Ahead(b, k)'
    <3>1. PICK i : i = held_jobs'[b][k]
      OBVIOUS
    <3>2. HeldBack(d, b, i) \/ Ahead(b, k)'
      <4>1. CASE b = a
        <5>1. held_jobs'[b] = RemoveAt(held_jobs[a], at)
          BY <1>t, <2>4, <4>1
        <5>2. k \in Nat /\ (k < at => k \in DOMAIN held_jobs[a] /\ i = held_jobs[a][k])
          BY <1>t, <2>6, <3>1, <5>1, RemoveAtBefore
        <5>3. CASE k < at
          <6>1. HeldBack(d, a, i) \/ Ahead(a, k)
            BY <5>2, <5>3 DEF HeldInv
          <6>2. ~Ahead(a, k)
            BY <2>3, <5>2, <5>3 DEF Ahead
          <6> QED BY <4>1, <6>1, <6>2
        <5>4. CASE ~(k < at)
          BY <2>5, <4>1, <5>2, <5>4 DEF Ahead
        <5> QED BY <5>3, <5>4
      <4>2. CASE b # a
        <5>1. held_jobs'[b] = held_jobs[b]
          BY <1>t, <2>4, <4>2
        <5>2. HeldBack(d, b, i) \/ Ahead(b, k)
          BY <2>6, <3>1, <5>1 DEF HeldInv
        <5> QED BY <2>2, <4>2, <5>2 DEF Ahead
      <4> QED BY <4>1, <4>2
    <3>3. HeldBack(d, b, i) => HeldBack(d, b, i)'
      BY <2>4, SameHeldBack
    <3>4. HeldBack(d, b, held_jobs[b][k])' <=> HeldBack(d, b, i)'
      BY <3>1 DEF HeldBack
    <3> QED BY <3>2, <3>3, <3>4
  <2> QED BY <2>6 DEF HeldInv
\* Where the pass ends it has looked at every job, where one starts at none.
<1>13. ASSUME UNCHANGED <<confVars, countVars, held_jobs, jobspec>>,
              \A a \in Assoc : \A k \in DOMAIN held_jobs[a] : ~Ahead(a, k)
       PROVE  HeldInv(d)'
  <2>1. ASSUME NEW a \in Assoc, NEW k \in DOMAIN held_jobs'[a]
        PROVE  HeldBack(d, a, held_jobs[a][k])'
    <3>1. PICK i : i = held_jobs[a][k]
      OBVIOUS
    <3>2. HeldBack(d, a, i)
      BY <1>13, <2>1, <3>1 DEF HeldInv
    <3>3. HeldBack(d, a, i)'
      BY <1>13, <3>2, SameHeldBack
    <3> QED BY <1>13, <3>1, <3>3 DEF HeldBack
  <2> QED BY <2>1 DEF HeldInv
<1>14. CASE EndPass
  <2>1. pass \in Pass /\ pass.at \in Nat
    BY <1>t, <1>14 DEF EndPass, Pass
  <2>2. ASSUME NEW a \in Assoc, NEW k \in DOMAIN held_jobs[a] PROVE ~Ahead(a, k)
    BY <1>t, <1>14, <2>1, <2>2 DEF EndPass, Ahead
  <2> QED BY <1>13, <1>14, <2>2 DEF EndPass
<1>15. ASSUME NEW a \in Assoc, ReprioritizeNext(a) PROVE HeldInv(d)'
  BY <1>13, <1>15 DEF ReprioritizeNext, Ahead
<1>16. CASE Reprioritize \/ UNCHANGED vars
  BY <1>2, <1>16 DEF Reprioritize, vars
<1> QED BY <1>3, <1>4, <1>5, <1>7, <1>8, <1>9, <1>10, <1>11, <1>12, <1>14, <1>15, <1>16
        DEF StaticNext, Callback, JobEvent, ReleasePass, JobsUsedUp

LEMMA InitHeld ==
  ASSUME Init, NEW d PROVE HeldInv(d)
<1>1. \A a \in Assoc : held_jobs[a] = <<>>
  BY DEF Init, InitCounts
<1> QED BY <1>1 DEF HeldInv

\* At rest, what is held is held by the one limit in the way.
LEMMA HeldReason ==
  ASSUME IInv, NEW d, LimitInv(d), HeldInv(d)
  PROVE  HeldForAReason
<1> SUFFICES ASSUME Idle, NEW a \in Assoc, NEW i \in DOMAIN held_jobs[a],
                    NEW j, j = held_jobs[a][i]
             PROVE  deps[j] \cap Exceeded(a, j, held_queue[j], NothingReleased) # {}
  BY DEF HeldForAReason
<1>1. j \in Jobs /\ j \in HeldBy(a)
  BY HeldJob
<1>2. held_queue[j] = jobspec[j].queue /\ deps[j] # {}
  BY <1>1, IdleJob DEF IInv
<1>3. deps[j] = {d}
  BY <1>1, <1>2 DEF LimitInv, OnlyOwn
<1>4. d \in Exceeded(a, j, held_queue[j], NothingReleased)
  BY <1>2 DEF HeldInv, Ahead, Idle, HeldBack
<1> QED BY <1>3, <1>4

-----------------------------------------------------------------------------
(* Theorems *)

\* The counters of every association are the numbers of its active, running and
\* waiting jobs, at every step of every execution: what the limits are compared
\* with is what the jobs are doing.
THEOREM JobCountsStayExact == Spec => []JobCountsExact
<1>1. Init => IInv /\ JobCountsExact
  BY InitInv, InitJobCounts
<1>2. IInv /\ JobCountsExact /\ [Next]_vars => (IInv /\ JobCountsExact)'
  BY NextInv, NextJobCounts
<1> QED BY <1>1, <1>2, PTL DEF Spec

\* The same of nodes and cores: what the counters of an association, and of each
\* of its queues, say is in use is what the jobspecs of its running and waiting
\* jobs add up to, so that a job that ends gives back what it took.
THEOREM ResourceCountsStayExact == Spec => []ResourceCountsExact
<1>1. Init => IInv /\ ResourceCountsExact
  BY InitInv, InitResources
<1>2. IInv /\ ResourceCountsExact /\ [Next]_vars => (IInv /\ ResourceCountsExact)'
  BY NextInv, NextResources
<1> QED BY <1>1, <1>2, PTL DEF Spec

\* No step takes an association beyond its max_active_jobs: new_cb () looks
\* again at what validate_cb () looked at before.
THEOREM ActiveLimitIsKept == Spec => ActiveLimitKept
<1> USE DEF confVars, countVars, heldVars, jobVars, runVars
<1>1. ASSUME IInv, [Next]_vars, NEW a \in Assoc,
             cur_active_jobs'[a] > cur_active_jobs[a], limits[a].max_active_jobs > 0
      PROVE  cur_active_jobs'[a] <= limits[a].max_active_jobs
  <2>t. cur_active_jobs \in [Assoc -> Int] /\ limits \in [Assoc -> Limits]
    BY <1>1 DEF IInv, TypeOK
  <2>m. limits[a].max_active_jobs \in Int
    BY <2>t DEF Limits
  <2>1. \E j \in Jobs : New(j) \/ InactivePending(j) \/ InactiveAllocated(j)
    <3>1. cur_active_jobs' # cur_active_jobs
      BY <1>1, <2>t
    <3>2. ~ReleasePass
      BY <3>1 DEF ReleasePass, Keep, Release, Commit, EndPass, ReprioritizeNext
    <3>3. ~Update
      BY <3>1 DEF Update, RecUpdate, RecQUpdate, RecProjUpdate, RecConfigUpdate, Reprioritize
    <3>4. PICK j \in Jobs : Submit(j) \/ Callback(j) \/ JobEvent(j)
      BY <1>1, <3>1, <3>2, <3>3 DEF Next, vars
    <3>5. ~JobEvent(j)
      BY <3>1 DEF JobEvent, AfterAnyDone, Run, Finish, Cancel
    <3>6. Submit(j) => New(j)
      BY <3>1 DEF Submit, Validate, NewRejected
    <3>7. Callback(j) => InactivePending(j) \/ InactiveAllocated(j)
      BY <3>1 DEF Callback, Depend, Priority, Sched
    <3> QED BY <3>4, <3>5, <3>6, <3>7
  <2>2. PICK j \in Jobs : New(j) \/ InactivePending(j) \/ InactiveAllocated(j)
    BY <2>1
  <2>3. CASE New(j)
    <3> DEFINE b == NewAssociation(j)
    <3>1. ~AtMaxActive(b) /\ cur_active_jobs' = [cur_active_jobs EXCEPT ![b] = @ + 1]
      BY <2>3 DEF New, Attach
    <3> HIDE DEF b
    <3>2. a = b /\ cur_active_jobs'[a] = cur_active_jobs[a] + 1
      BY <1>1, <3>1, <2>t
    <3> QED BY <1>1, <3>1, <3>2, <2>t, <2>m DEF AtMaxActive
  <2>4. CASE InactivePending(j) \/ InactiveAllocated(j)
    <3>1. cur_active_jobs' = [cur_active_jobs EXCEPT ![bank_info[j]] = @ - 1]
      BY <2>4 DEF InactivePending, InactiveAllocated
    <3> QED BY <1>1, <3>1, <2>t
  <2> QED BY <2>2, <2>3, <2>4
<1>2. IInv /\ [Next]_vars =>
        [\A a \in Assoc :
           cur_active_jobs'[a] > cur_active_jobs[a] /\ limits[a].max_active_jobs > 0
             => cur_active_jobs'[a] <= limits[a].max_active_jobs]_vars
  BY <1>1
<1> QED BY Invariance, <1>2, PTL DEF Spec, ActiveLimitKept

\* Where one kind of limit on waiting jobs is in the way at a time, no association
\* ever has more jobs waiting for the scheduler than its max_sched_jobs: the
\* jobs that depend_cb () lets by, and those that a pass releases one after the
\* other, are each counted by sched_cb () before the next is compared.
THEOREM SchedLimitStaysKept ==
  \A d \in SchedDep :
    NoAfterAny /\ LimitsAreCounts /\ StaticSpec /\ []OneLimit(d) => []SchedLimitKept
<1> SUFFICES ASSUME NEW d \in SchedDep, NoAfterAny, LimitsAreCounts
             PROVE  StaticSpec /\ []OneLimit(d) => []SchedLimitKept
  OBVIOUS
<1>1. Init => LimitsInv(d)
  BY InitInv, InitLimits, InitLimitInv DEF LimitsInv
<1>2. LimitsInv(d) /\ OneLimit(d) /\ [StaticNext]_vars => LimitsInv(d)'
  BY NextLimits
<1>3. LimitsInv(d) => SchedLimitKept
  BY DEF LimitsInv
<1> QED BY <1>1, <1>2, <1>3, PTL DEF StaticSpec

\* The same of the limits of a queue on the jobs, nodes and cores an association
\* has waiting in it, and on the nodes it has waiting or running in it.
THEOREM QueueLimitsStayKept ==
  \A d \in SchedDep :
    NoAfterAny /\ LimitsAreCounts /\ StaticSpec /\ []OneLimit(d) => []QueueLimitsKept
<1> SUFFICES ASSUME NEW d \in SchedDep, NoAfterAny, LimitsAreCounts
             PROVE  StaticSpec /\ []OneLimit(d) => []QueueLimitsKept
  OBVIOUS
<1>1. Init => LimitsInv(d)
  BY InitInv, InitLimits, InitLimitInv DEF LimitsInv
<1>2. LimitsInv(d) /\ OneLimit(d) /\ [StaticNext]_vars => LimitsInv(d)'
  BY NextLimits
<1>3. LimitsInv(d) => QueueLimitsKept
  BY DEF LimitsInv
<1> QED BY <1>1, <1>2, <1>3, PTL DEF StaticSpec

\* ... and no job is held by limits that have room for it: whatever makes room,
\* a job that starts, ends or is cancelled, sets a pass over the held jobs going,
\* and a pass that is over has left only those that the limit still holds back.
THEOREM HeldForAReasonOnly ==
  \A d \in SchedDep : NoAfterAny /\ StaticSpec /\ []OneLimit(d) => []HeldForAReason
<1> SUFFICES ASSUME NEW d \in SchedDep, NoAfterAny
             PROVE  StaticSpec /\ []OneLimit(d) => []HeldForAReason
  OBVIOUS
<1> DEFINE Inv == IInv /\ LimitInv(d) /\ HeldInv(d)
<1>1. Init => Inv
  BY InitInv, InitLimitInv, InitHeld
<1>2. Inv /\ OneLimit(d) /\ [StaticNext]_vars => Inv'
  BY StaticIsNext, NextInv, NextOnlyOwn, NextLaunched, NextNothingToBook, NextHeldInv DEF LimitInv
<1>3. Inv => HeldForAReason
  BY HeldReason
<1> QED BY <1>1, <1>2, <1>3, PTL DEF StaticSpec

=============================================================================
