------------------------------- MODULE JobUsage -------------------------------
(***************************************************************************)
(* Job usage: the records of finished jobs, the usage of every association *)
(* in bins of one half-life period each, the usage of every bank, and the  *)
(* commands that touch them (src/src/bindings/python/fluxacct/accounting/  *)
(* job_usage_calculation.py, db_info_subcommands.py, user_subcommands.py,  *)
(* src/src/cmd/flux-account-fetch-job-records.py).                         *)
(*                                                                         *)
(* Three kinds of process share one SQLite database: the cron job that     *)
(* fetches records and updates usage, the service that runs the commands   *)
(* of administrators, and job-list, where finished jobs appear.  A step is *)
(* a committed transaction, or a read outside of one: update_job_usage ()  *)
(* reads the end of the half-life period before its transaction begins,    *)
(* and clear_usage () commits once for every bank above the one it clears, *)
(* reads the next sum before its next transaction, and ends with one more. *)
(***************************************************************************)
EXTENDS Integers, FiniteSets, FiniteSetsExt, Functions, TLC

CONSTANTS
  Banks,        \* names of the banks
  NoBank,       \* the empty parent_bank of the root
  Parent,       \* the bank each bank is under
  Assocs,       \* associations, a user in a bank
  BankOf,       \* the bank of each association
  Jobs,         \* finished jobs, or jobs that will finish
  AssocOf,      \* the association each job is charged to
  Usage,        \* the weighted usage of each job, rounded
  Configs,      \* values of half_life and reset_period
  Edits,        \* those of them that edit-config sets
  DecayNum, DecayDen,  \* the decay factor
  Second,       \* ticks of the clock in a second
  ScrubAge,     \* how old a record is when it is scrubbed
  ClearBanks,   \* banks whose usage is cleared; not the root, which has no users
  ClearTimes,   \* timestamps given with --ignore-older-than
  UserEdits,    \* associations that are added and deleted
  Updaters,     \* processes that run update-usage
  None,         \* nothing read
  MaxTime       \* bound: the clock stops here

ASSUME UsageAssumption ==
  /\ IsFiniteSet(Jobs) /\ IsFiniteSet(Assocs) /\ IsFiniteSet(Banks)
  /\ NoBank \notin Banks /\ Parent \in [Banks -> Banks \cup {NoBank}]
  /\ BankOf \in [Assocs -> Banks]
  /\ AssocOf \in [Jobs -> Assocs] /\ Usage \in [Jobs -> Nat]
  /\ \A c \in Configs : c.half_life \in Nat \ {0} /\ c.reset_period \in Nat \ {0}
  /\ DecayNum \in Nat /\ DecayDen \in Nat \ {0} /\ DecayNum < DecayDen
  /\ Second \in Nat \ {0} /\ ScrubAge \in Nat /\ ClearTimes \subseteq Nat
  /\ ClearBanks \subseteq {b \in Banks : Parent[b] # NoBank}
  /\ Edits \subseteq Configs /\ UserEdits \subseteq Assocs
  /\ None \notin Int

VARIABLES
  clock,               \* time.time ()
  t_inactive,          \* when each finished job became inactive (job-list)
  jobs,                \* table jobs: the records fetched and not scrubbed
  assoc,               \* association_table
  bins,                \* job_usage_per_association_table
  last_job_timestamp,  \* job_usage_factor_table
  bank,                \* bank_table
  end_hl,              \* t_half_life_period_table
  config,              \* config_table: half-life and reset period
  reconfigure_time,    \* config_table: when the bins were last made anew
  read_end_hl,         \* what each updater has read of end_hl
  clearing,            \* the clear-usage the service is in the middle of: the bank,
                       \* the highest one it has written, the sum it has read for
                       \* the next, and (history) if an update has committed since
  counted,             \* history: times a job is in the bins of its association
  rotations,           \* history: times the bins of an association were rotated
  overtaken,           \* history: banks with an update in the middle of their clear
  stale                \* history: banks whose sum a clear failed to reach, or had
                       \* read before an update and wrote after it

table == <<jobs, assoc, bins, last_job_timestamp, bank, end_hl, config,
           reconfigure_time>>
history == <<counted, rotations, overtaken, stale>>
vars == <<clock, t_inactive, table, read_end_hl, clearing, history>>

\* The service runs one command at a time.
Nothing == [bank |-> NoBank, at |-> NoBank, sum |-> None, outrun |-> FALSE]
Idle == clearing.bank = NoBank

-----------------------------------------------------------------------------
(* Sums, bins and the tree of banks *)

UsageOf(S) == SumFunctionOnSet(Usage, S)
LastEnd(S) == Max({t_inactive[j] : j \in S})
JobsOf(a) == {j \in Jobs : AssocOf[j] = a}
Finished == DOMAIN t_inactive

Zeros(n) == [p \in 0..n - 1 |-> 0]
Decay(v) == (v * DecayNum) \div DecayDen
BinsAfterReconfigure(c) == (c.reset_period + c.half_life - 1) \div c.half_life
BinsOfNewUser(c) ==
  LET n == c.reset_period \div c.half_life IN IF n > 0 THEN n ELSE 4

\* Variant: period 0 is not reset.
PeriodZeroStays(b) == [p \in DOMAIN b |-> IF p = 0 THEN b[0] ELSE Decay(b[p - 1])]
\* Every period moves on by one and decays, the oldest is dropped.
ApplyDecayFactor(b) == [p \in DOMAIN b |-> IF p = 0 THEN 0 ELSE Decay(b[p - 1])]

SubBanks(b) == {c \in Banks : Parent[c] = b}
Leaves == {b \in Banks : SubBanks(b) = {}}
AssocsIn(b) == {a \in DOMAIN assoc : BankOf[a] = b}
SumOfSubBanks(usage, b) == SumFunctionOnSet(usage, SubBanks(b))

\* calc_parent_bank_usage () from the root: leaves have the usage of their
\* associations, and the others the sum over their sub-banks.
CalcParentBankUsage(usage) ==
  LET total[b \in Banks] ==
        IF b \in Leaves THEN SumFunctionOnSet(usage, AssocsIn(b))
        ELSE MapThenSumSet(LAMBDA c : total[c], SubBanks(b))
  IN  [b \in Banks |-> total[b]]

BankUsages == [b \in Banks |-> bank[b].job_usage]
Ignored == [b \in Banks |-> bank[b].ignore_older_than]
BankRows(usage, ignored) ==
  [b \in Banks |-> [job_usage |-> usage[b], ignore_older_than |-> ignored[b]]]

-----------------------------------------------------------------------------
(* The records *)

\* The database is created, and the associations that do not come and go added.
Init ==
  /\ clock = 1
  /\ t_inactive = <<>>
  /\ jobs = {}
  /\ assoc = [a \in Assocs \ UserEdits |-> [job_usage |-> 0]]
  /\ \E c \in Configs :
       /\ config = c
       /\ end_hl = 1 + c.half_life
       /\ bins = [a \in Assocs \ UserEdits |-> Zeros(BinsOfNewUser(c))]
  /\ last_job_timestamp = [a \in Assocs \ UserEdits |-> 0]
  /\ bank = [b \in Banks |-> [job_usage |-> 0, ignore_older_than |-> 0]]
  /\ reconfigure_time = 0
  /\ read_end_hl = [u \in Updaters |-> None]
  /\ clearing = Nothing
  /\ counted = [j \in Jobs |-> 0]
  /\ rotations = [a \in Assocs |-> 0]
  /\ overtaken = {} /\ stale = {}

\* Time passes.
Tick ==
  /\ clock < MaxTime
  /\ clock' = clock + 1
  /\ UNCHANGED <<t_inactive, table, read_end_hl, clearing, history>>

\* Some jobs become inactive at the same moment.  Nobody reads the clock and
\* still sees that moment afterwards.
JobsEnd(S) ==
  /\ clock < MaxTime
  /\ S # {} /\ S \cap Finished = {}
  /\ t_inactive' = [j \in Finished \cup S |-> IF j \in S THEN clock ELSE t_inactive[j]]
  /\ clock' = clock + 1
  /\ UNCHANGED <<table, read_end_hl, clearing, history>>

\* Variant: with no record yet the script starts from the present.
SinceNow == IF jobs = {} THEN clock ELSE LastEnd(jobs)
\* flux account-fetch-job-records: the jobs that finished after the last
\* record, INSERT OR IGNORE.
Since == IF jobs = {} THEN 0 ELSE LastEnd(jobs)
FetchJobRecords ==
  /\ jobs' = jobs \cup {j \in Finished : t_inactive[j] > Since}
  /\ UNCHANGED <<clock, t_inactive, assoc, bins, last_job_timestamp, bank, end_hl,
                 config, reconfigure_time, read_end_hl, clearing, history>>

ScrubOldJobs ==
  /\ Idle
  /\ jobs' = {j \in jobs : t_inactive[j] >= clock - ScrubAge}
  /\ UNCHANGED <<clock, t_inactive, assoc, bins, last_job_timestamp, bank, end_hl,
                 config, reconfigure_time, read_end_hl, clearing, history>>

-----------------------------------------------------------------------------
(* flux account update-usage *)

\* update_job_usage () reads the end of the half-life period first ...
UpdateBegin(u) ==
  /\ read_end_hl[u] = None
  /\ read_end_hl' = [read_end_hl EXCEPT ![u] = end_hl]
  /\ UNCHANGED <<clock, t_inactive, table, clearing, history>>

\* Variant: the time of the last clear is not looked at.
ClearedToo(a) ==
  {j \in jobs : /\ AssocOf[j] = a
                /\ t_inactive[j] > last_job_timestamp[a]
                /\ t_inactive[j] > reconfigure_time}
NewJobs(a) ==
  {j \in jobs : /\ AssocOf[j] = a
                /\ t_inactive[j] > last_job_timestamp[a]
                /\ t_inactive[j] > bank[BankOf[a]].ignore_older_than
                /\ t_inactive[j] > reconfigure_time}

UpdateTInactive(a) ==
  IF NewJobs(a) = {} THEN last_job_timestamp[a] ELSE LastEnd(NewJobs(a))

\* calc_usage_factor (): what becomes of association a, for the end of the
\* half-life period the updater has read and the time it is then.
CalcUsageFactor(a, end, now) ==
  LET found == NewJobs(a)
      current == UsageOf(found)
      last == IF found = {} THEN 0 ELSE LastEnd(found)
      decayed == ApplyDecayFactor(bins[a])
      past == SumFunction(decayed)
      idle == found = {}
  IN CASE idle /\ end > now - config.half_life ->
            [bins |-> bins[a], job_usage |-> assoc[a].job_usage, rotated |-> FALSE]
       [] idle /\ end < now - config.half_life ->
            [bins |-> decayed, job_usage |-> past, rotated |-> TRUE]
       [] ~(idle /\ end # now - config.half_life) /\ last - end < config.half_life ->
            [bins |-> [bins[a] EXCEPT ![0] = @ + current],
             job_usage |-> current + SumFunction(bins[a]), rotated |-> FALSE]
       [] OTHER ->
            [bins |-> [decayed EXCEPT ![0] = current + past],
             job_usage |-> current + past, rotated |-> TRUE]

\* Variant: a period more must have passed.
OnePeriodLate(now) ==
  IF end_hl < now - 2 * config.half_life THEN end_hl + config.half_life ELSE end_hl
CheckEndHL(now) ==
  IF end_hl < now - config.half_life THEN end_hl + config.half_life ELSE end_hl

\* ... and then does the rest in one transaction.  The clock is read again for
\* every association, so a boundary may pass in the middle: late holds the
\* associations that are looked at after a tick.
UpdateJobUsage(u, late, ticks) ==
  /\ read_end_hl[u] # None
  /\ late \subseteq (IF ticks = 1 THEN DOMAIN assoc ELSE {})
  /\ ticks = 1 => clock < MaxTime
  /\ clock' = clock + ticks
  /\ read_end_hl' = [read_end_hl EXCEPT ![u] = None]
  /\ UNCHANGED <<t_inactive, jobs, config, reconfigure_time>>
  /\ \E factor \in {[a \in DOMAIN assoc |->
         CalcUsageFactor(a, read_end_hl[u], IF a \in late THEN clock + 1 ELSE clock)]} :
       LET usage == [a \in DOMAIN assoc |-> factor[a].job_usage]
       IN /\ bins' = [a \in DOMAIN bins |->
                        IF a \in DOMAIN assoc THEN factor[a].bins ELSE bins[a]]
          /\ assoc' = [a \in DOMAIN assoc |-> [assoc[a] EXCEPT !.job_usage = usage[a]]]
          /\ bank' = BankRows(CalcParentBankUsage(usage), Ignored)
          /\ rotations' = [a \in Assocs |->
               IF a \in DOMAIN assoc /\ factor[a].rotated THEN rotations[a] + 1
               ELSE rotations[a]]
  /\ last_job_timestamp' = [a \in DOMAIN last_job_timestamp |->
       IF a \in DOMAIN assoc THEN UpdateTInactive(a) ELSE last_job_timestamp[a]]
  /\ end_hl' = CheckEndHL(clock + ticks)
  /\ counted' = [j \in Jobs |->
       IF AssocOf[j] \in DOMAIN assoc /\ j \in NewJobs(AssocOf[j])
       THEN counted[j] + 1 ELSE counted[j]]
  /\ stale' = {}
  /\ clearing' = [clearing EXCEPT !.outrun = clearing.sum # None]
  /\ overtaken' = overtaken \cup ({clearing.bank} \ {NoBank})

-----------------------------------------------------------------------------
(* Commands of an administrator *)

Truncate(t) == t - (t % Second)

\* clear_usage () of one bank.  The first transaction takes the usage from the
\* bank, its associations and their bins, and adds up the parent's anew; at is
\* the highest bank that has been written.
Cleared(b, zeros) ==
  LET usage == [BankUsages EXCEPT ![b] = 0]
      p == Parent[b]
  IN /\ Idle
     /\ clearing' = [bank |-> b, at |-> p, sum |-> None, outrun |-> FALSE]
     /\ bank' = BankRows([usage EXCEPT ![p] = SumOfSubBanks(usage, p)], Ignored)
     /\ assoc' = [a \in DOMAIN assoc |->
          IF BankOf[a] = b THEN [assoc[a] EXCEPT !.job_usage = 0] ELSE assoc[a]]
     /\ bins' = [a \in DOMAIN bins |-> IF BankOf[a] = b THEN zeros[a] ELSE bins[a]]
     /\ last_job_timestamp' = [a \in DOMAIN last_job_timestamp |->
          IF BankOf[a] = b THEN 0 ELSE last_job_timestamp[a]]
     /\ counted' = [j \in Jobs |-> IF BankOf[AssocOf[j]] = b THEN 0 ELSE counted[j]]
     /\ overtaken' = overtaken \ {b} /\ stale' = stale \ {p}
     /\ UNCHANGED <<clock, t_inactive, jobs, end_hl, config, reconfigure_time,
                    read_end_hl, rotations>>

\* Variant: the bins are left as they are.
BinsNotCleared(b) == Cleared(b, bins)
ClearUsage(b) == Cleared(b, [a \in DOMAIN bins |-> [p \in DOMAIN bins[a] |-> 0]])

\* Variant: only the parent.
ParentReached(b) == TRUE
RootReached(b) == Parent[b] = NoBank

\* update_parent_bank_usage () of the parent, and so on: the sum for the next
\* bank is read outside of a transaction ...
ReadParentSum ==
  /\ ~Idle /\ clearing.sum = None /\ ~RootReached(clearing.at)
  /\ clearing' = [clearing EXCEPT
       !.sum = SumOfSubBanks(BankUsages, Parent[clearing.at])]
  /\ UNCHANGED <<clock, t_inactive, table, read_end_hl, history>>

\* ... and then written.
WriteParentSum ==
  /\ ~Idle /\ clearing.sum # None
  /\ LET p == Parent[clearing.at]
     IN /\ bank' = [bank EXCEPT ![p].job_usage = clearing.sum]
        /\ clearing' = [clearing EXCEPT !.at = p, !.sum = None, !.outrun = FALSE]
        /\ stale' = IF clearing.outrun THEN stale \cup {p} ELSE stale \ {p}
  /\ UNCHANGED <<clock, t_inactive, jobs, assoc, bins, last_job_timestamp, end_hl,
                 config, reconfigure_time, read_end_hl, counted, rotations, overtaken>>

\* The last transaction: from now on, or from the timestamp given.
ClearUsageEnds ==
  /\ ~Idle /\ clearing.sum = None /\ RootReached(clearing.at)
  /\ \E t \in {clock} \cup ClearTimes :
       bank' = [bank EXCEPT ![clearing.bank].ignore_older_than = Truncate(t)]
  /\ clearing' = Nothing
  /\ UNCHANGED <<clock, t_inactive, jobs, assoc, bins, last_job_timestamp, end_hl,
                 config, reconfigure_time, read_end_hl, history>>

\* A lock that is not given up in time or a timestamp that cannot be read
\* raises, or the service is killed: what has been committed stays.
ClearUsageFails ==
  /\ ~Idle
  /\ clearing' = Nothing
  /\ stale' = stale \cup {Parent[clearing.at]}
  /\ UNCHANGED <<clock, t_inactive, table, read_end_hl, counted, rotations, overtaken>>

\* edit_config () of a key that concerns the bins: reconfigure_usage_bins ().
EditConfig(c) ==
  /\ Idle
  /\ config' = c
  /\ bins' = [a \in DOMAIN bins |-> Zeros(BinsAfterReconfigure(c))]
  /\ last_job_timestamp' = [a \in DOMAIN last_job_timestamp |-> 0]
  /\ end_hl' = clock + c.half_life
  /\ reconfigure_time' = clock
  /\ counted' = [j \in Jobs |-> 0]
  /\ overtaken' = {}
  /\ UNCHANGED <<clock, t_inactive, jobs, assoc, bank, read_end_hl, clearing,
                 rotations, stale>>

\* add_user () of a new association keeps the rows that an earlier one of that
\* name has left behind.  (An association that is only disabled is updated as
\* any other.)
AddUser(a) ==
  /\ Idle /\ a \notin DOMAIN assoc
  /\ assoc' = [c \in DOMAIN assoc \cup {a} |->
       IF c = a THEN [job_usage |-> 0] ELSE assoc[c]]
  /\ last_job_timestamp' = [c \in DOMAIN bins \cup {a} |->
       IF c \in DOMAIN bins THEN last_job_timestamp[c] ELSE 0]
  /\ LET old == IF a \in DOMAIN bins THEN bins[a] ELSE <<>>
         added == [p \in DOMAIN old \cup 0..BinsOfNewUser(config) - 1 |->
                     IF p \in DOMAIN old THEN old[p] ELSE 0]
     IN  bins' = [c \in DOMAIN bins \cup {a} |-> IF c = a THEN added ELSE bins[c]]
  /\ UNCHANGED <<clock, t_inactive, jobs, bank, end_hl, config,
                 reconfigure_time, read_end_hl, clearing, history>>

\* delete_user (), with --force.
DeleteUser(a) ==
  /\ Idle /\ a \in DOMAIN assoc
  /\ assoc' = Restrict(assoc, DOMAIN assoc \ {a})
  /\ UNCHANGED <<clock, t_inactive, jobs, bins, last_job_timestamp, bank, end_hl,
                 config, reconfigure_time, read_end_hl, clearing, history>>

-----------------------------------------------------------------------------
(* The specifications *)

Records ==
  \/ Tick
  \/ \E S \in SUBSET (Jobs \ Finished) : JobsEnd(S)
  \/ FetchJobRecords
  \/ ScrubOldJobs

Update(u) ==
  \E late \in SUBSET DOMAIN assoc, ticks \in 0..1 : UpdateJobUsage(u, late, ticks)
Updates == \E u \in Updaters : UpdateBegin(u) \/ Update(u)

Clears ==
  \/ \E b \in ClearBanks : ClearUsage(b)
  \/ ReadParentSum
  \/ WriteParentSum
  \/ ClearUsageEnds
  \/ ClearUsageFails
Reconfigures == \E c \in Edits : EditConfig(c)
Users == \E a \in UserEdits : AddUser(a) \/ DeleteUser(a)

Next == Records \/ Updates \/ Clears \/ Reconfigures \/ Users
Spec == Init /\ [][Next]_vars

\* Cron runs fetch-job-records and update-usage for ever, and a run of
\* update-usage that has begun ends (weak fairness of Update, which nothing
\* disables, said of the state).
FairSpec ==
  /\ Spec
  /\ WF_vars(FetchJobRecords)
  /\ \A u \in Updaters : WF_vars(UpdateBegin(u)) /\ []<>(read_end_hl[u] = None)

-----------------------------------------------------------------------------
(* Properties *)

\* A job that no clear and no reconfiguration has put out of account.
InAccount(j) == /\ t_inactive[j] > bank[BankOf[AssocOf[j]]].ignore_older_than
                /\ t_inactive[j] > reconfigure_time

\* The bins of an association hold exactly the records up to the last one
\* counted, each once, and none from before a clear or a reconfiguration,
\* however fetching, scrubbing, clearing, deleting and re-adding interleave
\* (s_new_jobs, update_t_inactive).  A record old enough to be scrubbed may be
\* lost.  Only an update between the first and the last commit of a clear looks
\* at records by the timestamp the clear is about to change: it counts again
\* what was to be ignored, and passes over what was to be taken in again.
CountedExactly ==
  \A j \in Jobs :
    LET a == AssocOf[j]
        seen == j \in Finished /\ a \in DOMAIN bins
                /\ t_inactive[j] <= last_job_timestamp[a]
        orderly == BankOf[a] \notin overtaken
    IN /\ counted[j] <= 1
       /\ counted[j] = 1 => seen /\ t_inactive[j] > reconfigure_time
       /\ counted[j] = 1 /\ orderly => InAccount(j)
       /\ (orderly /\ seen /\ InAccount(j) /\ j \in jobs
            /\ t_inactive[j] >= clock - ScrubAge) => counted[j] = 1

\* What is counted of an association, in its bins and as its job usage, is
\* never more than its jobs have used: bins that move on, are added up again or
\* come back with a re-added association do not make usage out of nothing
\* (calc_usage_factor, apply_decay_factor, insert_per_assoc_usage_rows).
UsageBounded ==
  \A a \in DOMAIN bins :
    LET used == UsageOf(JobsOf(a) \cap Finished)
    IN  /\ SumFunction(bins[a]) <= used
        /\ a \in DOMAIN assoc => assoc[a].job_usage <= used

\* ... which takes a decay factor of at most 1/2: a rotation that comes with new
\* jobs adds the decayed past to bin 0 and leaves it in the other bins as well.
DecayHalves == 2 * DecayNum <= DecayDen

\* A bank with sub-banks has the sum of their usage; a leaf covers that of its
\* associations (it keeps that of a deleted one until the next update), after
\* every update and every clear of a leaf (calc_parent_bank_usage,
\* update_parent_bank_usage).  In the middle of a clear the bank it comes to next
\* is behind; a clear that fails leaves it so until the next update, and one
\* that writes a sum an update has outrun puts it back there.
AssocUsages == [a \in DOMAIN assoc |-> assoc[a].job_usage]
Behind(b) == b \in stale \/ (~Idle /\ b = Parent[clearing.at])
BankUsageSums ==
  \A b \in Banks :
    IF b \in Leaves
    THEN bank[b].job_usage >= SumFunctionOnSet(AssocUsages, AssocsIn(b))
    ELSE Behind(b) \/ bank[b].job_usage = SumOfSubBanks(BankUsages, b)

\* ... when the banks are a tree, and clears are of leaves: clear-usage of a bank
\* that has sub-banks leaves theirs as it is.
BanksAreATree ==
  \E height \in [Banks -> 0..Cardinality(Banks)] :
    \A b \in Banks : Parent[b] \in Banks => height[b] < height[Parent[b]]
LeavesAreCleared == ClearBanks \subseteq Leaves

\* With one updater usage is decayed once per half-life period: bins that hold
\* anything rotate only when the period moves on, by one, wherever the boundary
\* falls, and whatever is reconfigured or added between the two halves of an
\* update (calc_usage_factor, check_end_hl).
HoldsUsage(a) == \E p \in DOMAIN bins[a] : bins[a][p] # 0
RotatedOncePerPeriod ==
  [][\A a \in DOMAIN assoc :
       HoldsUsage(a) /\ rotations'[a] # rotations[a] =>
         /\ rotations'[a] = rotations[a] + 1
         /\ end_hl' = end_hl + config.half_life]_vars

\* Every record gets into the bins, unless a clear or a reconfiguration puts it
\* out of account, its association is deleted, it gets so old that it may be
\* scrubbed before it is counted, or an update and a clear of its bank have run
\* into each other (main, update_job_usage).
Lost(j) ==
  /\ j \in Finished
  /\ \/ ~InAccount(j)
     \/ BankOf[AssocOf[j]] \in overtaken
     \/ AssocOf[j] \notin DOMAIN assoc
     \/ t_inactive[j] < clock - ScrubAge
RecordsGetCounted ==
  \A j \in Jobs : j \in Finished ~> (counted[j] = 1 \/ Lost(j))

=============================================================================
