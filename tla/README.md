# A verification project for flux-accounting

flux-accounting gives a Flux cluster banks, fair-share and limits. A SQLite
database holds who may charge what to which bank; a service changes it; scripts
compute usage and fair-share from it and push it to the job manager; and there
a jobtap plugin, `mf_priority`, computes priorities and holds jobs back while
their user is over a limit. This directory models that system in TLA+, checks
the models with TLC on small instances, and proves about them with TLAPS for all
instances.

## The system

| component | state | operations | hard because |
|---|---|---|---|
| priority plugin, limits (`src/plugins/mf_priority.cpp`, `accounting.cpp`, `job.cpp`) | maps of associations, default banks, queues, projects; per association: counts of active, running and scheduled jobs, resources, usage per queue, the vector of held jobs | the callbacks `job.validate`, `job.new`, `job.state.depend/priority/sched/run/inactive`; the RPCs `rec_update`, `rec_q_update`, `rec_proj_update`, `reprioritize`, configuration; the loop `check_and_release_held_jobs` | callbacks nest inside the loop; counts must survive every path a job can leave by; limits are read at one time and used at another |
| priority plugin, loading | associations under the name `DNE` that stand for "no data yet" | jobs that arrive before the data; reload of the plugin, with the exported JSON or without | counts are rebuilt from replayed states |
| priority plugin, factors | weights, `queue_factor` and `bank_factor` of each association | `priority_calculation` | factors are kept per association, not per job |
| update script (`cmd/flux-account-priority-update.py`) | none | reads one table after the other and sends each in RPCs | two runs overlap, a run dies half-way; what is gone from the database stays in the plugin |
| database: banks, associations, queues, projects, factors, configuration (`bindings/python/fluxacct/accounting/*_subcommands.py`) | the tables and the tree the banks form | add, edit, delete, bring back, cascades | helpers commit in the middle; references across tables are kept by hand |
| accounting service (`cmd/flux-account-service.py`) | one connection | one handler per RPC; start, shutdown | an exception leaves what was written uncommitted, and the next commit takes it along |
| command line (`cmd/flux-account.py`) | none | one request per subcommand | which arguments reach the handlers together |
| job records and usage (`cmd/flux-account-fetch-job-records.py`, `job_usage_calculation.py`) | the jobs table, usage per association and period, the last record counted, the end of the half-life period | fetch, update, clear, scrub, reconfigure | late records, the boundary of the half-life period, decay |
| fair-share (`fairness/`, `cmd/flux_account_update_fshare.cpp`) | a weighted tree read from the database, the `fairshare` column | read, weigh, sort, walk, write | ties between unlike nodes, zero shares, a table that changes between reading and writing |
| fair-share emulator (`fairshare_emulator.py`) | none | the same walk in Python, on an exported tree | two implementations of one algorithm |
| creation and upgrade of the schema (`create_db.py`, `cmd/flux-account-update-db.py`) | the schema and its version number | compare with a new database, add tables, columns and rows, rebuild tables, migrate usage | SQLite commits some statements by themselves and others not; killed runs leave things behind |
| formatting, reports, query of the plugin | none | | |

How they interact: the command line sends an RPC to the service, which runs one
database function at a time. Cron runs fetch-job-records, update-usage,
update-fshare and priority-update, in this order, each a process of its own on
the same database. Priority-update upgrades an old schema, and ends in RPCs to the
plugin. The plugin shares the job manager's single thread with flux-core:
callbacks run to their end, but `flux_jobtap_dependency_remove ()` calls back
into the plugin before it returns.

What makes each component correct:

* limits: counters equal what the jobs are doing; no limit is passed; nobody is
  held without a reason; whoever is held gets out; flux-core and the plugin
  agree on who is held.
* loading and the update script: a job is counted once whatever came first, the
  job or the data; it is scheduled under an association the plugin was told of;
  the plugin ends up with what the tables say.
* database: one root, inner banks have no users, a user has one default bank and
  it is an active one; a command happens or does not.
* service: every call is answered once; a failure commits nothing.
* usage: each record is counted once; the usage of an association is the sum of
  its periods, a bank's that of what is under it.
* fair-share: ranks are those the weights call for, whatever the order of equals;
  the table settles on the newest tree.
* upgrade: the version number never runs ahead of the schema; nothing stored is
  lost; it ends.

## Modules

| module | models | extends or uses |
|---|---|---|
| `AccountingTypes`, `MFPriority` | the plugin's limits | |
| `MFPriorityProofs` | their theorems | `MFPriority` |
| `PluginSync`, `PluginSyncProofs` | update script, plugin's maps, jobs before the data, reload | |
| `AccountingTables` | the tables, and the SQL statements as functions on them | |
| `AccountingRequests` | what the command line can send | `AccountingTables` |
| `AccountingDB`, `AccountingDBProofs` | the commands, step by step, on the service's connection; theorems about their steps, and about whole commands | `AccountingRequests` |
| `AtomicAccounting` | what the commands promise to other processes | refined by `AccountingDB` |
| `AccountingService`, `AccountingServiceProofs` | the service around the commands: clients, views, shutdown | `AccountingDB` |
| `SchemaUpgrade`, `SchemaUpgradeProofs` | `create_db` and `update_db` | |
| `AtomicUpgrade` | what an upgrade promises | refined by `SchemaUpgrade` |
| `JobUsage`, `JobUsageProofs` | records and usage | |
| `SumProofs` | lemmas about sums over finite sets | used by the proofs of `JobUsage`, `MFPriority`, `Fairshare` and the commands |
| `FairshareTree` | weights, ties, ranks, the emulator, as functions | |
| `Fairshare` | the process that reads the tables and writes the column | `FairshareTree` |
| `FairshareProofs` | their theorems: the walks, and the process | `Fairshare` |
| `MC*` | instances for TLC | the module of that name |

Every module with an `MC` module has definitions marked `Variant:` just before
the definition they vary. They are that definition with a plausible mistake in
it, used to confirm that the properties notice the mistake; no action uses them.

### AccountingTypes

The constants (users, banks, queues, projects, job ids, the jobspecs users
submit, the payloads of the RPCs), the records of `accounting.hpp` and
`job.hpp`, the names of the eight dependencies, and the assumptions on the
constants. Names are model values; a jobspec is the record of the attributes
the plugin reads (user, bank, queue, project) and of what `jj_get_counts ()`
makes of its resources.

### MFPriority

The enforcement of limits. The plugin's maps are `known`, `def_bank`,
`limits`, `queues`, `projects`; an `Association` is split into its configured
half (`limits[a]`) and its counted half (`cur_active_jobs[a]` ...,
`queue_usage[a][q]`, `held_jobs[a]`). A `Job` in the vector is its id, its
`deps` and its `held_queue`. What flux-core knows of a job is `state`,
`jobspec`, `dependencies`, `posted` (the events of its eventlog that
`inactive_cb` asks for) and the two aux items.

One thread means that most interleavings cannot happen, and which ones can is
what matters. Three variables say so. `call` is a callback that must run next.
`pass` is the activation of `check_and_release_held_jobs ()`: where its iterator
is, the headroom it has given away, and the job it has just released. `sweep`
is what `reprior_cb ()` has still to visit. New events are possible only when
all three are empty (`Idle`).

| code | actions |
|---|---|
| `validate_cb` | `Validate` (a refused submission changes nothing) |
| `new_cb` | `New`, `NewRejected` |
| `depend_cb` | `Depend` |
| `priority_cb` | `Priority` |
| `sched_cb`, `run_cb` | `Sched`, `Run` |
| `inactive_cb` | `InactivePending`, `InactiveAllocated` |
| `check_and_release_held_jobs` | `Keep` and `Release` (the eight checks of one held job), `Commit` (what is booked after the released job's callbacks), `EndPass` |
| `rec_update_cb`, `rec_q_cb`, `rec_proj_cb`, `rec_config_cb` | `RecUpdate`, `RecQUpdate`, `RecProjUpdate`, `RecConfigUpdate` |
| `reprior_cb` | `Reprioritize`, `ReprioritizeNext` |
| flux-core (external) | `Accept`, `AfterAnyDone`, `Prioritized`, `Finish`, `Cancel`, `GoesInactive` |

`Keep` and `Release` take all removable dependencies in one step: a job's
callbacks can only run when its last dependency goes, and the checks after that
one are of dependencies it does not carry. `Commit` is a step of its own
because those callbacks run in between.

`Spec` has every RPC at any time. `StaticSpec` leaves the limits alone, which
the properties about limits need: an administrator may lower a limit below what
is in use. `FairSpec` adds fairness to it.

Assumed: the data is loaded when the model starts (`PluginSync` has the rest), and
nobody configures -1 or 999 for `max_run_jobs`, which the code uses as marks
(`Ordinary`). Left out: priorities, logging, JSON, allocation failures,
`job.update`, the error path of the loop.

### PluginSync

From the tables to the plugin. `db` is what is committed. A run of the script is
`pc`, `next` and `held`: it reads one table (`Read`), sends it in one RPC, and so
on; the tables are read at different times and other runs and commands come in
between. The plugin's side is `rows`, `def_bank`, `waiting` (users who have an
entry under `DNE`) and `more`, which stands for its other maps: those it clears
before it fills them, and `Merged`, the ones it adds to. A job has a `state`, the
`bank` in its jobspec, and the two aux items: `aux`, its association (`NULL`, one
of a real bank, or the `DNE` one) and `info`.

| code | actions |
|---|---|
| `main` of the script, one step for each table | `StartRun`, `Read`, `rec_update_cb`, `rec_other_cb`, `reprior_cb`, `send_instance_owner_info`, `Kill` |
| `validate_cb`, `new_cb`, `depend_cb` up to PRIORITY | `Submit` (`SubmitWithoutData`, `SubmitKnown`, `RejectJob`), `new_cb`, `LeaveDepend` |
| `priority_cb` | `Prioritize` (`Grant`) |
| `sched_cb` and `run_cb`, `inactive_cb` | `Alloc`, `GoInactive` |
| `flux_plugin_init`, replay of states | `Load (with_data)`, then `new_cb` for each job in the order of `Rank` |
| commands on the tables | `ChangeAssociation`, `ChangeDefault`, `ChangeOther` |

`lost` is history: jobs that a plugin loaded without data has met again. Two of
the properties except them, because the code does not treat them like others
(see the list of disagreements). Jobs name no bank, queue or project when they
are submitted, and none is held: limits are in `MFPriority`.

### AccountingTables, AccountingRequests

`AccountingTables` has the tables as one record of sets of rows, and an
operator for each statement the commands share: `InsertBank`, `ReactivateBank`,
`SetBankParent`, `ModifyQueues`, `SetDefaultBank`, and so on, with the lookups
(`RowsOf`, `SubBanks`, `Below`, `AssociationIsActive`). `AccountingRequests` is
what each subcommand of the command line can put into a request: an option not
given is `Keep`, a value that takes a column back to its default is `Reset`, one
that the code will refuse is `Bad`.

### AccountingDB

The commands. `disk` is what is committed, `work` what the service's connection
sees, `lock` who has a write transaction. A command is a list of steps `todo`; a
step ends where the function commits, writes, or may raise, so that a failure
finds exactly what the code has written by then.

| code | actions |
|---|---|
| `bank_subcommands.py` | `AddBank`; `DeleteBank`, then `VisitBank` down the tree, `RecalculateUsage`, `SaveAll`; `EditBank`, then `EditBankShares`, `EditBankParent` |
| `user_subcommands.py` | `AddUser`; `DeleteUser`, then `DisableUser`, `UpdateDefaultBank`; `EditUser`, then `EditModifyQueues`, `EditDefaultBank`, `EditShares`, `EditQueues`, `EditProjects`; `EditAllUsers`; `SyncUserids` |
| `queue_subcommands.py`, `project_subcommands.py` | `AddQueue`, `DeleteQueue`, `EditQueue` and `EditQueueLimit`; `AddProject`, `DeleteProject` |
| `priorities.py`; configuration, `db_info_subcommands.py` | `EditFactor`, `ResetFactors`; `AddConfig`, `DeleteConfig`, `EditConfig`, `EditConfigKey`, `ReconfigureBins` |
| `populate_db`; scrubbing and clearing, as far as they touch the lock | `PopulateDb`, `PopulateRow`; `ScrubOldJobs`, `ClearUsage` |
| SQLite: the file is locked for longer than the timeout | `TurnedAway`, `LockedOut` |
| cron's scripts (external), the clock, the end of the service | `OtherLocks`, `OtherUnlocks`; `Tick`; `Restart` |

The abstract specification `AtomicAccounting` has one variable, the committed
tables, and no connection, lock, step or restart: each change is one whole
command, or one whole removal of an association or a bank (`delete_bank` commits
many of them). After the first of these commits with `--force` the bank the command
names may be gone while banks and associations below it are not; a later removal
finds them as `Orphans` (`Doomed`). `WholeCommands` is that `AccountingDB`
implements it, with `disk` for its tables.

### AccountingService

Extends `AccountingDB` with the process around it. A client calls (`Call`), the
reactor takes the oldest request (`Serve`: the endpoint's check of who may call,
then the command or the view), runs its steps (`Proceed`) and answers. Views read
`work`; `shown` tells whether what they showed is committed. `ShutdownService`
answers its caller and nobody else; `Killed` takes effect at any step; `Start`
begins with an empty inbox. `General` is the list of endpoints that
`flux-account-service.py` registers for every user.

### SchemaUpgrade

`update_db`, statement by statement. `file` is committed, `work` has the open
transaction of `holder`. A statement that changes the schema outside a
transaction commits by itself (`Alter`), the first INSERT opens one (`Insert`),
and where that happens depends on which tables have rows. Several runs may be
under way (`Updaters`), each with its `pc`, the tables it has `read` and has to
do (`plan`), and the one in hand (`task`).

| code | actions |
|---|---|
| `update_db`: find the version, copy the file, make the template | `Begin` (`create_db` is the template) |
| `update_tables` | `update_tables` |
| `migrate_job_usage_to_per_assoc` | `ReadUsage`, `migrate_job_usage_to_per_assoc` |
| `update_columns`, `add_tmp_table_to_db`, `move_existing_rows`, `add_columns` | the actions of these names |
| `init_tables`, the new version, `commit` | `init_tables`, `Commit` |
| an exception; a kill; "database is locked" | `GiveUp`; `Abort` |
| other programs on the file, the package (external) | `ChangeRow`, `RecordUsage`, `Install` |

The abstract specification `AtomicUpgrade` has a version, a content and nothing
in between; `NothingLost` is that `SchemaUpgrade` implements it, where the
content is what either version stores: the columns both have, and each
association's usage per period, whether as a column or as a row.

### JobUsage

The records of finished jobs and what becomes of them. Each table is a variable:
`jobs` (the records fetched), `assoc` (`association_table`), `bins`
(`job_usage_per_association_table`, a function from periods per association),
`last_job_timestamp` (`job_usage_factor_table`), `bank` (`bank_table`), `end_hl`
(`t_half_life_period_table`), `config` and `reconfigure_time` (`config_table`).
`t_inactive` is what job-list knows: which jobs have finished, and when. A job's
weighted usage, rounded, is a constant.

The processes are cron's (fetch-job-records, update-usage) and the service; they
meet in the database only, so a step is a transaction that commits, or a read
outside of one. `update_job_usage ()` is two steps, because it reads the end of
the half-life period before its transaction begins: `UpdateBegin` keeps it in
`read_end_hl`. Inside the transaction the clock is read again for every
association and once more at the end: `late` is the set of associations looked at
after a tick.

`clear_usage ()` is as many steps as it has transactions, and more.
`update_parent_bank_usage ()` commits for every bank above the one cleared, and
reads the sum for the next one before its transaction begins; what jobs to ignore
is said in a last transaction. `clearing` is where it is; the service does nothing
else meanwhile (`Idle`), but cron may. A call with several banks goes through all
of this for one bank after the other: it is one call per bank here.

| code | actions |
|---|---|
| `fetch_new_jobs`, `insert_jobs_in_db` | `FetchJobRecords` |
| `scrub_old_jobs` | `ScrubOldJobs` |
| `update_job_usage` | `UpdateBegin`, `UpdateJobUsage` (`NewJobs` is its query, `CalcUsageFactor` the four cases of `calc_usage_factor`, `CalcParentBankUsage` the walk from the root, `CheckEndHL` the boundary) |
| `clear_usage`, `update_parent_bank_usage` | `ClearUsage` (up to the first commit), `ReadParentSum` and `WriteParentSum` for each bank further up, `ClearUsageEnds` (from now on, or from a timestamp given); `ClearUsageFails` after any of these: a timestamp that does not parse, a lock, a kill |
| `edit_config`, `reconfigure_usage_bins` | `EditConfig` |
| `add_user` | `AddUser` (rows left by an earlier one are kept) |
| `delete_user` | `DeleteUser` (`--force`) |
| job-list, the clock (external) | `JobsEnd`, `Tick` |

`counted` and `rotations` are history: how often a job is in the bins of its
association, and how often those rotated. `overtaken` and `stale` are where an
update and a clear have run into each other: the banks that had an update in the
middle of their clear, and the banks whose sum a clear did not reach or wrote as it
had been before an update. Disabled associations are updated like all others, so
enabling and disabling one changes nothing here.

Two things the model makes visible. The end of the half-life period is compared
as if it were its start (`end_hl < now - half_life`), so the first period lasts
two half-lives and each later one is judged one half-life late. And what bin 0
gets at a rotation is the current usage plus the decayed past, which is why no
sum of bins equals the job usage; with the decay factor of 1/2 that the runs use
the bins are still never worth more than the jobs (`UsageBounded`), with a
larger one they can be.

Left out: the usage weights, the fair-share reset by a clear, `edit-bank` of
`ignore_older_than`, default banks, the views, copying an old job archive. Usage is in whole numbers, chosen so that
halving it twice is exact.

### FairshareTree, Fairshare

`FairshareTree` is what one run computes from the tables it has read, all as they
were at one moment. `Read` are the banks and associations `get_sub_banks ()`
reaches from the root, `Weight` the weight of each among its siblings (a
fraction, kept as a pair of integers), `Weights` those of everything read. Usage
is counted in parts of a second, `Unit` of them. `Tree` are the program's weights,
for which siblings' usage is added up in an integer that drops what each has
beyond whole seconds (`Whole`); `EmulatorTree` are those of the emulator, which
adds up doubles. The walk of
`weighted_walk.cpp` is the recursive function `visit`: sort the children, let
those of equal weight form one group, number the associations of a group, and go
on with the children of all its banks as if they had one parent (the code's
virtual node, `build_tie_aware_children`). Sorting is `Arranged`: the nodes of a
set, each behind those that the comparison puts before it; where `std::sort` may
leave equals in any order, `Precedes` asks `order`, an injective numbering of the
nodes that is chosen for each run. `TreeAssumption` says that the banks are a
tree, by a depth for each. `NextRank` and `Ranks` are the
numbering of `handle_leaf`. The operators of the emulator stand next to those of
the program. `Standing` is the reference: an association's rank is the number of
associations less those that are ahead of it, because their banks from the root
down, and then they themselves, weigh more at the first difference. There is no
walk and no order of visits in it.

`Fairshare` is the process: `Load` reads the tree and computes, in one order of
visiting equals or another (`Orders`); `Write` is the transaction that updates
the column, or does nothing when the file is locked (`GiveUp`); `Kill` takes a run
away. In between `UpdateUsage`, `ClearUsage`, `EditShares`, `EditBankShares`,
`AddUser`, `DeleteUser`, `AddBank`, `DeleteBank` change the tables. Doubles are
exact fractions, `is_equal`'s epsilon is equality, and the value written is the
rank over the number of associations.

## Runs

| run | asks |
|---|---|
| `counts` | `JobsConsistent`, `JobCountsExact`, `ResourceCountsExact`, `HeldJobsConsistent`, `IteratorValid`, `ActiveLimitKept` |
| `limits` | `SchedLimitKept`, `QueueLimitsKept`, `HeldForAReason` |
| `progress` | `HeldJobsLeave` |
| `sync` | `CountsRecovered`, `ScheduledUnderItsBank`, `PluginCatchesUp`, `WaitersGetIn` |
| `tables` | `CleanUnlessLocked`, `OneRootBank`, `NoMixedBank`, `OneDefaultBank`, `UsageRows`, `NothingLeftOpen`, `DeleteTakesSubtree`, `DefaultFollows`, `WholeCommands` |
| `service` | `ServiceTypeOK`, `EachCallOnce`, `ViewsShowCommitted`, `FailedEditsCommitNothing`, `CallsEnd` |
| `upgrade` | `VersionTellsSchema`, `NothingLost`, `UpgradeEnds` |
| `recorded` | `CountedExactly`, `UsageBounded`, `BankUsageSums`, `RotatedOncePerPeriod`, `RecordsGetCounted` |
| `fairshare` | `RankedByStanding`, `EmulatorAgrees`, `UsingLessNeverHurts`, `FairshareSettles` |
| `stuck`, `durable`, `second_job` | each refutes one statement of the documentation, a comment or a test |

### Bounds

`counts` has three jobs, two kinds of jobspec (one names no bank and a
queue, one names a bank, no queue, two nodes and an afterany dependency), two
payloads of associations and two of queues, sent at any moment. Three jobs are
one running, one held and one that comes or goes in between; both payloads
reach each kind of limit, the second adds a bank and moves the default bank, so
that one user has jobs in two associations. `limits` has four jobs
so that a pass looks at two held jobs while others are in SCHED, and one kind of
limit at a time (`LimitsSpec`): with two, a held job meets the one that did not
hold it unchecked. `progress` has three jobs of one or two nodes
under five limits at once. Job ids are finite, so a run ends when all are used
up (`JobsUsedUp`). Symmetry over job ids is used in the runs of safety
properties only: ids are never compared but for equality.

`sync` has two stages, which one run checks together. In the first there are two
overlapping runs of the script, two changes of any table by commands, and a
kill of a run or a load of the plugin. Two changes (`MaxChanges`) are one that a
run misses and one that it sees; one map that is replaced and one that is merged
stand for the rest. In the second there are one run of the script, two jobs of two
users, of whom one may be in two banks, a load with data or without, and a change
of an association or a default bank.

`tables` has four stages: a tree of three banks to which a bank and two users
are added, deleted and brought back; a bank below another, with two users, that is
deleted with it, at once or for good; and a user in two banks, with queues, a
project, factors and configuration, on which the edits and then the other
commands work. `MaxBankRows` bounds the ids of banks, `MaxDepth` is Python's
recursion limit, one tick of the clock tells associations made at one time from
others. The requests are ones that no step refuses half-way, which
`NothingLeftOpen` confirms: a command that
fails half-way leaves its writes in the transaction, and the next command
commits them, so `WholeCommands` cannot hold then; what does hold is asked in
`service`. Its five stages send, three calls in all, the commands that fail at
each of their steps, trees with cycles, every view, and what a guest may not
send. Three calls are one that leaves a transaction open, one that meets it, and
one that sees the result.

`upgrade` has two runs of the script on a file of the older of two versions. The
newer one has a table for usage in place of columns, a table that loses a column
and gains one, one that gains one, and a new row of configuration: each path
through `update_db`. `MaxWrites` and `MaxAborts` are one: a write between two
statements, and a kill at any of them. `Touched` leaves the factor table out, and
`RecordUsage` stands for usage that others record (see the disagreements for a
write to the factor table while it is being migrated).

`recorded` has two jobs of one association, a half-life of one or two ticks with
two bins, a reconfiguration to the shorter one at any moment, a clock of four
ticks (`MaxTime`), an updater, a bank that is cleared from now on or from the
first tick on, and its association deleted and added again: enough for a record to
be fetched, counted, decayed out of both bins and scrubbed (`ScrubAge`), and for
the boundary to come before, between and inside updates. The bank has two above
it, so that a clear has each of its steps. Late records that meet an earlier one
need two jobs and not more. The clock stops at `MaxTime`; everything else goes
on.

`fairshare` has a root with a leaf and with a bank of two leaves, four
associations, usage up to two seconds in halves (`Unit = 2`, `MaxUsage = 4`), and
shares up to two. Two banks, an association and a bank, or associations of
different banks come to tie, at two depths, with whole seconds in both banks,
in one or in neither; banks without shares, one or two at a tie, deleted subtrees
and users still to come are among the 86 initial tables. Both orders of visiting
equals are tried, one change may come between reading and writing, and two runs
overlap. Each exception that the properties make is met: without any one of
`SecondsCounted`, `SharelessTie`, `SubBanksTie` and `FractionsTie`, TLC refutes the
property that has it.

### What the passing runs show

Counters, held jobs and flux-core's view agree over every interleaving of
submissions, releases, cancellations and RPCs. With one kind of limit at a time,
and jobs without dependencies of their own, limits on SCHED are kept and nobody
is held without a reason. A job that is held leaves DEPEND under any combination
of limits as long as jobs have no other dependencies.

The counts of active and running jobs are right after a load of the plugin,
whatever comes first, jobs or data. The plugin ends up with what the
tables say once nobody changes them, though the script reads them one after the
other and two runs may send in any order. A job that waits for data gets in.

The accounting tables keep one root, no bank with both users and sub-banks, one
default bank per user, which removals move to an active association, and the
usage rows of each association. Nothing that only the service sees is ever
unprotected by the lock. Other processes see whole commands. When commands fail
half-way, they still commit nothing, apart from the five that commit on the way
(`CommitsOnTheWay`; `clear-usage` commits for each bank above before it looks at its
timestamp, and with that whatever an earlier command left open); views show uncommitted rows only after such a failure; and every call
is answered once and ends, also on a tree with a cycle and with the file locked.

An upgrade that is interrupted, repeated or run twice at once is one step that
changes the version and nothing that is stored, and it ends.

Of usage: no interleaving of fetching, scrubbing, updates, clears,
reconfigurations and deleted associations counts a record twice or loses one
that is neither out of account nor old enough to be scrubbed; bins are never
worth more than the jobs that made them; banks stay the sums of what is under
them when leaves are cleared; with one updater no period decays an association
twice. All this holds through the transactions of a clear one by one. What an
update does that comes between two of them is excepted by name: it counts what was
to be ignored (`overtaken`), and the sum a clear has read before it and writes
after it is wrong until the next update (`stale`).

Of fair-share: ranks are the reference's, in whatever order equals are visited;
less usage never costs a rank, as long as of siblings that have used something one
has used a second (`SecondsCounted`) and no banks without shares tie; under the
same condition the emulator agrees with the program unless banks tie that
have sub-banks, or whose associations have used fractions of a second; and however
runs overlap or die, the column ends with the values of the newest tree.

### What the refuted statements show

They are the findings in `PROJECT.json`.

* `stuck`: the loop gives headroom to a job that is still waiting for an
  afterany dependency. It leaves `held_jobs`, and if it is then cancelled nobody
  runs a pass: a job held behind it waits until some other job of the
  association starts or ends.
* `durable`: `add_config` and `delete_config` answer with success and commit
  nothing. Until another command commits, other processes do not see the key, and
  a service that stops has lost it.
* `second_job`: before the data comes, the second job of a user gets the mark
  `DNE` written into its jobspec as its bank, and waits in PRIORITY for ever.

### Other disagreements, which no run states

Met while modelling, and in the model as the code has them unless noted.

Limits: limits on running jobs, nodes and cores are compared with what runs when
a job enters DEPEND, so two jobs submitted before the first starts both pass. A
held job is compared again only with the limits that held it. A job with a
dependency of its own is compared with `max_sched_jobs` when it is submitted, not
when it enters SCHED.

Loading: `priority_cb` does not add a job of a bare reload to `cur_sched_jobs`
when it finds its association, and `run_cb` subtracts it. It always writes the
default bank, also for a job submitted to another one, and does not look at
`active`. `run_cb` kills a job in SCHED that is allocated after a reload without
data. A user without an association keeps the `DNE` entry, so later jobs wait
and are not refused. Associations deleted with `--force` stay in the plugin, and
so do priority factors. The owner's default bank is overwritten.
`flux_plugin_init` sets the default weights after it has read the
configuration's. A job that names a bank and no project,
submitted before the data, makes `new_cb` raise an exception on it.

Usage: bin 0 is given the sum of all bins at a rotation, so from then on the past
is in the table twice. An association with new records is judged by its last
record, others by the clock: late records keep their association from rotating,
and the period moves on. `job_usage` outlives a reconfiguration until there are
new jobs. Two overlapping `update-usage` rotate the bins twice. `clear-usage`
cuts its time to a second, so a job that finished earlier in that second counts
again. It commits the emptied bins before it says what to ignore: an update in
between counts the ignored jobs again, and they stay (`CountedExactly` without
`orderly` is refuted by `recorded`); the sum of a bank further up may be read
before an update and written after it, and is wrong until the next. Clearing a bank with sub-banks clears its own row and not the users below.
The number of bins is rounded down for a new association and up by a
reconfiguration.

Database: clearing the root with a bad time, and adding a queue that exists,
fail with the write lock held. `clear-usage` of any other bank with a bad time fails
when it has committed; so does `edit-user` when it empties the queues and a later
field is refused, and `edit-queue` for a later limit. `edit_bank` can make a cycle or put a bank under
one that has users. `edit_all_users` can give two rows of one user the same
bank.

Upgrade: usage written to the factor table while it is being migrated is lost.
A `_tmp` table left by a killed run, met by the upgrade to a further version,
makes every later run fail.

Fair-share: at a tie the emulator does not merge tied sub-banks a second time
and does not put users before banks as the program does, although its manual
page calls the algorithm the same. `export_db_as_fairshare_json` says it fetches
active associations and exports all, with the stored usage of banks. The program
sums siblings' usage in an unsigned integer, which drops the fraction of a second
that each has; job usages are rounded to five digits and halved by decay, so there are
fractions. Among siblings one of which has used a second this changes nothing: all
weights have the same sum in them. Siblings with less than a second each get
weight 0 as if they had no shares; an association alone in its leaf that goes from a
second to half a second loses rank by it. The emulator sums the fractions too. So where
leaf banks tie, it may merge their associations in another order than the program:
with 1.5 s twice in one and 1 s and 2 s in the other, the program weighs those of the
first 2/3 and those of the second 3/2 and 3/4, while for the emulator the first weigh 1
and come between the others. `write_acct_info` returns
SQLite's positive `SQLITE_BUSY` and its caller tests `< 0`, so a run that wrote
nothing exits with success. Inactive associations keep their old value. `update_fairshare_values`
binds `std::to_string (...).c_str ()` of a temporary; the model writes the value,
as the tests expect.

## Fairness

`MFPriority`: `WF` of the release loop, which is straight-line code of the
thread that is running. `SF` of each job's own callbacks, of `New`, `Run`,
`Finish` and `AfterAnyDone`: the job manager handles events in the order they
arrive, so an event of one job is not put off for ever by those of others,
although it is enabled only between two of them; that the scheduler allocates
every job in the end and that jobs end is an assumption on the environment.
Submitting, cancelling and RPCs are not fair.

`PluginSync`: `WF` of a run's steps and of starting one, since cron starts the
script again and again, and of the callbacks, which the job manager finishes.
Submitting, allocating, commands, kills and loads are not fair.

`AccountingService`: `WF` of `Serve`, `Proceed` and `ShutdownService` (the
reactor runs on), of `Start` (systemd restarts the service) and of
`OtherUnlocks` (a script commits in the end). Clients are not fair.

`SchemaUpgrade`: `WF` of each run's steps, and of `Begin` as long as the
version is old: `flux account-priority-update`, which cron runs, calls it.
Exceptions, kills and other programs are not fair.

`JobUsage`: `WF` of fetching and of the first half of an update, since cron runs
the scripts for ever, and every update that has begun ends (`[]<>`, which is `WF`
of its second half because nothing disables that). The clock, jobs, scrubbing and
commands are not fair.

`Fairshare`: every run is under way again and again (`[]<>`, cron), `WF` of
`Write`, and of the lock being given back. Kills and commands are not fair, and a
run that is locked out gives up.

## Proofs

For every set of users, banks, queues, projects, jobs, clients, requests and
tables, and every tree, configuration and bound that satisfies the named
assumptions of the modules (`NamesAssumption` and the others of
`AccountingTypes`, `UsageAssumption`, `SyncAssumption`, `BoundsAssumption`,
`ServiceAssumption`, `TreeAssumption`, `FairshareAssumption` and those of
`AccountingTables`):

| theorem | says |
|---|---|
| `TypeCorrect` | `TypeOK` of `MFPriority` always holds |
| `Invariance` | the inductive invariant `IInv` always holds |
| `JobsStayConsistent` | `JobsConsistent` |
| `HeldStayConsistent` | `HeldJobsConsistent` |
| `IteratorStaysValid` | `IteratorValid` |
| `JobCountsStayExact` | `JobCountsExact` |
| `ActiveLimitIsKept` | `ActiveLimitKept` |
| `CountInvariance` | the inductive invariant `CountInv` of the records always holds |
| `RecordsCountedExactly` | `CountedExactly`, with any number of updaters |
| `OneRotationPerPeriod` | `RotatedOncePerPeriod`, with one updater |
| `OpenTransactionsAreLocked` | `CleanUnlessLocked`, whatever commands are sent |
| `NeverTwoRoots` | `OneRootBank` |
| `ServiceTransactionsAreLocked` | `CleanUnlessLocked` of the whole service |
| `ViewsShowWhatIsCommitted` | `ViewsShowCommitted` |
| `CallsAreServedOnce` | `EachCallOnce`, for any number of clients |
| `SyncTypesOK` | `TypeOK` of `PluginSync` |
| `JobsRunUnderTheirBank` | `ScheduledUnderItsBank` |
| `CountsAreRecovered` | `CountsRecovered` |
| `TablesTypesOK` | `TypeOK` of `AccountingDB`, for any requests |
| `ServiceTypesOK` | `ServiceTypeOK`, for any requests and any number of clients |
| `FailuresCommitNothing` | `FailedEditsCommitNothing` |
| `UpgradeTypesOK` | `TypeOK` of `SchemaUpgrade` |
| `ResourceCountsStayExact` | `ResourceCountsExact` |
| `WalkIsStanding` | the walk of the program ranks by standing, on every tree and in every order of equals |
| `StandingRange` | ranks are between 1 and the number of associations |
| `FairshareIsSound` | the inductive invariant `IInv` of `Fairshare` always holds |
| `RunsRankByStanding` | `RankedByStanding`, for any number of overlapping runs |
| `EmulatorAgreesWithRuns` | `EmulatorAgrees` |
| `LessUsageNeverHurts` | `UsingLessNeverHurts` |

Some properties hold only for inputs, or for parameters, that keep a condition.
The condition is then a hypothesis of the theorem, and a named definition of the
module it is about:

| theorem | says | where |
|---|---|---|
| `UsageRowsStay` | `UsageRows` | `AllRowsStay`: no `pop-db`, no `edit-all-users` of a bank |
| `DefaultBanksAgree` | `OneDefaultBank` | `DefaultsGoTogether`: none of the commands that set the default of one row |
| `BanksStayUnmixed` | `NoMixedBank` | `AllRowsStay`, `ParentsStayEmpty`: nobody is added to a bank that a bank is moved under |
| `ChangesAreWhole` | `WholeCommands`, the refinement of `AtomicAccounting` | `[]NothingLeftOpen`: no command leaves its transaction to the next; `ResetsComeLast`: an `edit-user` that clears the queues sets no projects |
| `DefaultsFollow` | `DefaultFollows` | `[]NothingLeftOpen`, `DefaultsGoTogether` |
| `SubtreesAreTaken` | `DeleteTakesSubtree` | `[]NothingLeftOpen`, `AllRowsStay`, `ParentsStayEmpty` |
| `NothingStaysOpen` | `NothingLeftOpen` | `RefusedAtOnce`: no request has a field that may be refused behind one that was written, and none is `add-config`, `delete-config` or `pop-db`; `TreeStays`: banks are put below higher ones, less deep than Python can walk, and the root is not removed with `--force` |
| `CarefulCommandsAreWhole` | `WholeCommands`, `DefaultFollows` and `DeleteTakesSubtree` together | conditions on requests only: those of `NothingStaysOpen`, which take the place of `[]NothingLeftOpen`, and each property's own |
| `VersionTellsTheSchema` | `VersionTellsSchema` | `SchemaHistory`: no table is rebuilt twice; `UsageLeftAlone`: the usage table is not written while it is migrated |
| `UpgradeIsAtomic` | `NothingLost`, the refinement of `AtomicUpgrade` | the same |
| `UsageStaysBounded` | `UsageBounded` | `DecayHalves`: a period's usage decays at least to its half |
| `BankUsageAddsUp` | `BankUsageSums` | `BanksAreATree`; `LeavesAreCleared`: `clear-usage` is of banks without sub-banks |
| `SchedLimitStaysKept` | `SchedLimitKept` | `NoAfterAny`, `LimitsAreCounts`, `[]OneLimit(d)`: one limit `d` on waiting jobs is ever in the way; `StaticSpec`: limits are not edited |
| `QueueLimitsStayKept` | `QueueLimitsKept` | the same |
| `HeldForAReasonOnly` | `HeldForAReason` | the same, but for `LimitsAreCounts` |
| `EmulateIsStanding` | the emulator ranks by standing | `~SubBanksTie`: no banks tie that have sub-banks |
| `LessUsageRanksNoLower` | with less usage, an association stands no lower | `SecondsCounted`: of siblings with usage one has used a second; no sibling banks without shares |

None of these hypotheses is a convenience: each names a command, a history or a
configuration with which the property fails, and the run that checks the property
meets it. Where it is about constants TLC evaluates it: `CarefulCommands`
(`MCAccountingDB`), `Regular` (`MCJobUsage`) and `ThisHistory` (`SchemaUpgrade`)
are the `ASSUME`s that say so; of `NoAfterAny` and `LimitsAreCounts` the cfg
of `limits` says it. `NothingLeftOpen` is about states, and an invariant of
`tables`; a command that is refused half-way breaks it, and its writes then go with
the next command's commit, whatever that command is. `NothingStaysOpen` gives it for
requests that keep two conditions, which the commands of two of the four stages of
`tables` meet. `edit-bank` with shares and a parent, say, does not: whether it is
refused half-way depends on the tables. `OneLimit` is about states too: the initial states of `limits`
configure one limit each, and in every state reached from one no job is over
another (93 711 states, looked at with that as an invariant).

**Limits.** None of the properties is inductive alone. That a pass releases
only held jobs needs `HeldJobsConsistent`; that needs to know where the
iterator is while a released job's callbacks run (`IteratorValid`), because the
job is then still in the vector and no longer has a dependency; and both need
`JobsConsistent` to know in which state a callback finds its job. `IInv` is
their conjunction with `TypeOK`. One lemma per conjunct shows that every action
keeps it (`NextType`, `NextJobs`, `NextHeld`, `NextIterator`), on lemmas about
`RemoveAt`, `Erase` and `Append` on injective sequences. The counts are proved
on top: a step changes the state of at most one job
and the cardinality of each set of jobs by what it adds to the counter.
`ActiveLimitKept` follows because only `Attach` raises the count, under the
guard `~AtMaxActive`.

**Resources.** `ResourceCountsExact` says that a counter is a sum over a set of
jobs. `SumProofs` is about such sums: `SumUnfolds` is the fold of the community
modules taken apart one element at a time, and from it that a sum over a set with
an element more, or less, or with one value changed, is what one expects. The
induction it takes is over finite sets, from the well-foundedness of the naturals
and with a set where the library's theorem has an operator. `EventFits` says what
a callback's addition to a counter must be for the set of jobs it leaves, and
`EventStep` does this once for all of them.

**Limits on waiting jobs.** `SchedLimitKept` needs that a job on its way to the
scheduler is still under every limit when `sched_cb ()` counts it. `depend_cb ()`
and a pass compare; between that and `sched_cb ()` is a callback for the
priority, at which nothing else may be counted. That is `LaunchedUnder`. A pass
releases one job after the other and counts what it gives away itself, on top of
the counters, and sets that back when the job is counted (`NothingToBook`). Both
are right only while one limit is in the way (`OnlyOwn`): a held job is compared
with the limits it is held by, and when these let it go it is not compared with the
others; and they speak of the limits at one moment (`StaticSpec`). With
several limits in the way the model reaches states where a limit is exceeded; that
is what the code does. `HeldForAReason` is strengthened to `HeldInv`: a held
job is over the limit (`HeldBack`), or the pass that runs has still to come to it
(`Ahead`). A step that lowers a counter starts a pass at the first job, one
that raises a counter makes nobody be held less, and a pass that goes on past a job
has found it over the limit with what was released before counted.

**Usage.** `CountedExactly` is not inductive because of `FetchJobRecords`: a
record that a fetch brings must not be one that an update has passed over. It is
later than every record in the table (`Since`), so the argument needs to know
that the last record counted of an association is still there, or a later one, or
so old that the scrub took it, and then what the fetch brings is old too. That is
`LastIsKept`. The last transaction of a clear says which jobs are in account; it
harms nothing because nothing of the bank has been seen since the first one
(`ClearedIsUnseen`), unless an update has come between. With the two halves of
`CountedExactly` and the types these are `CountInv`. The latest of a set of records exists by `BoundedMax`, from the
library's well-foundedness of the naturals. What usages sum up to plays no part,
so `CountType` says nothing of it.

`UsageBounded` is about sums: the bins of an association are worth no more than
the jobs counted in them, and its job usage no more than these and what it was
before (`UsageInv`). A rotation leaves the past in the other bins and adds it,
decayed, to bin 0 as well: half of it and less fits, because the bins that move up
decay too. That is `DecayHalves`. `BankUsageSums` is kept by `UpdateJobUsage`
because it writes every bank's usage as the sum of what it wrote of its
sub-banks; the function it does this with is defined by recursion on the tree,
and `BanksAreATree` gives the heights on which `SumsUnfold` proves that it is
what its definition says. A clear writes one bank at a time (`OneBankWritten`):
that bank is the sum again, the one above it is `Behind`, and no other has it
below. What it writes is the sum if it was when it was read and no update has come
since (`SumIsPending`). The leaf that is cleared agrees with its sub-banks because
it has none.

`OneRotationPerPeriod` rests on `PeriodInv`:
between its halves the updater agrees with the table on the end of the period,
or a reconfiguration has emptied the bins (`NothingInBins`), and then a rotation
is none. By `RotatesAtBoundary`, whether judged by the clock or by the last
record, an association that rotates does so after the boundary, so `CheckEndHL`,
which reads the clock last, sees it too. One updater is needed: a second one
breaks it.

**Database.** Every step of a command is a `Transaction`: it writes nothing, or it
holds the lock, or it commits (`ReceiveIsTransaction`, `ContinueIsTransaction`),
and whoever else may write waits for the lock. That is `CleanUnlessLocked`.
`OneRootBank` is strengthened to `TwoRooted`, which adds that the rows of
both copies have the shape of banks: only `InsertBank` makes a root, under the
guard that looks for one in `work`, and what `work` shows is all there is
because nobody else commits meanwhile.

The types come first, for every function of `AccountingTables` and every task of
every command. What is kept of the rows is `Kept`: three statements of one copy of
the tables, each under the hypothesis that leaves out the commands that break it.
A lemma per statement of SQL says what it keeps; `AllAsked` says, of the command
that runs, that it is one of the requests, so that a hypothesis about requests
is one about the task at hand. `UsageRows` holds because a row of an association
and its usage rows are inserted by one task; `OneDefaultBank` because the task
that changes a default writes all active rows of the user; `NoMixedBank` because
`add-bank` looks for users of the parent and `add-user` for sub-banks of the bank
in the copy in which they then insert.

**Whole commands.** `WholeCommands` needs to know what a command has written when
it commits: `Underway` says, for each command and each place in the rest of its
steps, how `work` and `disk` differ (`Run`). Most commands write in one
transaction, so that what the steps done so far make of `disk` is `work`.
`delete_bank` commits in the middle, with every association: from one commit to the
next, some of the doomed banks are gone from `work` and nothing else is
(`Visited`), or nothing is and a default bank is to be looked for (`DeleteRun`); and
what is left to do stays among the doomed, because a removal takes no bank out of
them (`DoomedGrows`). That `Below`,
a fold of as many steps as there are banks, has then reached everything
(`BelowCloses`, `BelowLeast`) is by the cardinality of what it has reached.

`DefaultFollows` and `DeleteTakesSubtree` compare the tables at an answer with those
when the command came. `DefaultsFollowed` is what connects them: a default bank that
was active then is active, or its user has nothing active left, or the task that
looks for another one comes next. `CutSoFar` is about the banks visited: what
was below one is visited or is still to be, its own row is not active, and neither
are its associations but for those to be removed next. Associations are removed only
at banks without sub-banks; that none is left elsewhere is `NoMixedBank`.

`NothingLeftOpen` is strengthened to `Steady`. The tasks of a command are of two
kinds: those that are never refused (`SureTask`), and those that may be, which stand
first in the list, when nothing has been written (`FirstTask`); and the last task is
one that commits (`Closing`). That the walk of `delete_bank` is never refused, and
neither is the sum over the tree at its end, is about the tables (`Ordered`): each
bank is below a higher one, so that both walks end before Python gives up
(`WalksEnd`), there is a root as long as there are banks, and the locked keys of the
configuration stay.

**Service.** That a view shows committed rows follows from the same lock. For
`EachCallOnce`, `CallInv` adds the types of the queue and of the calls; the
lemmas `HeadLeaves` and `LastComes` say what a queue without repetitions is after
its head has left or a newcomer has joined. `FailedEditsCommitNothing` needs to
know of a command of one step that an answer with an error comes after no commit
(`ReceiveIsCareful`), and of the rest of a longer one where a commit may still be: `Careful` says that
it is the last task, so that a command that has committed cannot fail any more,
and `UntouchedSoFar` that the file is as it was when the command came.

**Upgrade.** `UpgradeInv` says of the file and of the open transaction that they
are between two versions (`Sound`): whatever is new up to the version is there,
and what is there beyond it is at most what the steps done so far have made. Of
a run it says what it has read and where it is (`RunSound`). The version is written
last, and a run that is killed leaves tables from which the next one's
`CREATE TABLE IF NOT EXISTS` and `ADD COLUMN` go on to the same end. With one
exception, which is `SchemaHistory`: a table that lost a column is built anew under
another name and then renamed; if a run is killed in between, what it built
stays, and a run of a later release that rebuilds the same table again would find
it and keep it, with the columns of the older version (TLC finds this with
three versions of one table). The repository's history rebuilds each table once. The
refinement follows: a step of an updater is a stutter of `AtomicUpgrade` but for
the one that commits.

**Synchronisation.** `Typed` is the types with the fact that a run that sends
has a table to send. `JobsOK` says of each job to what it is attached in each
state; it is proved one group of actions at a time, and a lemma (`OtherJobsKept`)
disposes of the jobs a step does not touch. The counts follow as in the plugin's:
a step moves at most one job in or out of the sets counted (`AttachedChanges`,
`FollowingKeepsCounts`), and a load starts both from nothing.

**Fair-share.** `WalkIsStanding` compares two definitions that have little in
common: `Walk` goes down a tree, row by row, with a merged list of children for each
row of banks that tie; `Standing` counts who is ahead. Between them is `Orderly`: a
list of associations in which each of a set stands once, none before one that is
ahead of it, with a mark on those that do not differ from the next.
`OrderlyRanks` shows that counting down along such a list, with a stride over
ties, gives each its standing, so that all that is left is that the walk makes such a
list. That is one induction, over how deep the children in hand are (`VisitOrderly`;
`MaxDepth` bounds it, and as it is about a number, a set takes the place of
the operator that the library's induction would ask for). A row is a stretch of
neighbours that tie (`RowFrom`, `TiesInARow`). The children of its banks are
again nodes of one level whose banks above are alike (`NextLevel`), which is what
makes the merge right: where the banks above tie, being ahead is decided among the
children (`AheadOfLevel`, `AlikeNotAhead`). The list of a level is then put together
from the pieces of its rows (`PiecesOrderly`). That weights compare like
numbers, although they are pairs with `<<1, 0>>` above all, is
`NotExceededTransitive`, by cross products; that associations come before banks
of their weight is what makes alikeness transitive. `Visit` and `Traverse` are defined
by a `CHOOSE` of a function on all lists; that there is one (`VisitExists`) is by
the same depths.

The emulator makes one flat list of a bank's children and those of tied
banks. Only leaves are merged where no banks with sub-banks tie
(`RowOfLeaves`), so the merged nodes are associations and its missing second merge and
its missing second comparison do not matter: `FlatOrderly`, `EmulateIsStanding`.

Its weights are not the program's, but siblings compare alike in both: the sum that
all of them share cancels, as long as it is not 0, and what is left is shares
times the other's usage (`Heavier`, `SiblingsCompare`, `SomethingCounts`). Two
associations of different parents are compared by weights only where their banks tie;
those are leaves then, and have used whole seconds, with which both sums are the same
(`WholeWeighsTheSame`). So the two trees have one standing (`AheadInBoth`).

For the process, `IInv` adds that what a run has read is a tree. `WeightsAreTree` proves
it of whatever is in the tables: a bank that was read has its parents read, and
weights have a denominator or a numerator because the shares of all siblings are at
least those of one. The rest is that each command keeps the types of the rows and
that a run which writes stale ranks writes ranks all the same.

`LessUsageNeverHurts` looks at two trees, and shows that whoever is ahead of the
association in the second was ahead in the first. It is enough to look at where the
two part: there are two siblings, one above the association, which has used less
than before, and one that is not, which has used the same (`AheadParts`). Of these,
too, it does not matter what the sum is. That the first was not heavier now, though
it has used less, means that it was lighter before, or that both have no shares
(`LessIsHeavier`); two banks of that kind are what the property leaves out. The sum
must not be 0 in the second tree, and so in the first (`LessAmong`), or weights
would not tell usages apart.

**Only model-checked.** All liveness (`FairshareSettles` and that of the other
modules): it rests on fairness, about which the provers know nothing.
`NothingLeftOpen` for commands with several fields that may be refused, which depends
on the tables of the run. Otherwise each safety property of a passing run is stated
by a theorem, some under the hypotheses above. The type invariant of
`SchemaUpgrade` is the other way round: `UpgradeTypesOK` proves it and no run repeats
it, and so is `IInv` of `Fairshare`.

## Not modelled

* Priorities themselves: `priority_calculation` is one weighted sum of doubles
  that no other action reads. The bank and queue factors it keeps per association
  are a listed hazard.
* `job.update` of a job's queue or bank, and the error path of the release loop:
  after a failed removal the job's dependencies and the plugin's differ in ways
  that no property of `MFPriority` survives.
* The plugin's query, formatting and reports: they change nothing; whether what
  they read is there and committed is in `AccountingService`.
* Disk errors and failing commits, `NULL` where a column has a default, the
  deletion of project `*`, the values of userids, a backup copied while SQLite
  writes its journal, a package installed while an upgrade runs, the copy of an old
  job archive.
* In fair-share: several associations' usage changes one at a time, not in one
  transaction of `update-usage`; `delete_bank` is one commit, because the bank goes
  first and nothing under an inactive bank is read; a bank deleted with `--force`
  is left out.

## What is left

1. `job.update` and the error path of the loop, as actions of `MFPriority` with
   properties that say what is still true after them.
2. Jobs that name banks in `PluginSync`, with the limits of `MFPriority` on top.
3. Theorems: in which trees where banks with sub-banks tie the emulator still ranks
   as the program does, and how far using less can lower a rank where no sibling has
   used a second.
