----------------------------- MODULE AccountingDB -----------------------------
(***************************************************************************)
(* The commands that edit the accounting database, as the accounting       *)
(* service runs them.  The service has one thread and one SQLite           *)
(* connection: it takes one request, runs the function of the command and  *)
(* answers, with an error when the function raised.  The connection opens  *)
(* a transaction at the first write and keeps it, and the lock it holds on *)
(* the file, until somebody calls commit or rollback.  The service's own   *)
(* error handlers do neither.                                              *)
(*                                                                         *)
(*   disk   what is committed: what every other process reads              *)
(*   work   what the service's connection sees: disk and its open          *)
(*          transaction                                                    *)
(*   lock   who has an open write transaction                              *)
(*   todo   what the running command still has to do, step by step         *)
(*   cmd    the request being served                                       *)
(*   reply  the last answer                                                *)
(*   before disk when the running command began (a history variable)       *)
(*   now    the clock that stamps new associations, in seconds             *)
(*                                                                         *)
(* A step ends where the function commits, writes or may raise.  The other *)
(* writer is any of the scripts cron runs (flux account-update-usage,      *)
(* flux account-fetch-job-records): they touch other tables, but lock the  *)
(* same file.                                                              *)
(***************************************************************************)
EXTENDS AccountingRequests, Sequences

CONSTANTS
  Requests,      \* the commands administrators send
  MaxBankRows,   \* bound on bank_id
  MaxDepth,      \* the depth at which Python gives up a recursion
  MaxTime        \* bound on the clock

ASSUME BoundsAssumption ==
  /\ MaxBankRows \in Nat /\ MaxDepth \in Nat /\ MaxTime \in Nat
  /\ Requests \subseteq Edits

(* The steps of a command that takes several.                              *)
Task ==
     [do: {"banks"}, names: SUBSET Banks, depth: Nat, force: BOOLEAN]
  \cup [do: {"users"}, names: SUBSET Users, bank: Banks, force: BOOLEAN]
  \cup [do: {"default"}, user: Users, bank: Banks]
  \cup [do: {"usage", "save"}]
  \cup [do: {"bank_shares"}, bank: Banks, value: Shares \cup {Bad}]
  \cup [do: {"bank_parent"}, bank: Banks, value: Banks]
  \cup [do: {"modify_queues"}, user: Users, bank: Banks \cup {Keep},
        add: Queues \cup {Keep}, del: Queues \cup {Keep}]
  \cup [do: {"user_def"}, user: Users, bank: Banks \cup {Keep}, value: Banks \cup {Reset}]
  \cup [do: {"user_shares"}, user: Users, bank: Banks \cup {Keep}, value: Shares]
  \cup [do: {"user_queues"}, user: Users, bank: Banks \cup {Keep},
        value: (SUBSET Queues) \cup {Reset}]
  \cup [do: {"user_projects"}, user: Users, bank: Banks \cup {Keep},
        value: (SUBSET Projects) \cup {Reset}]
  \cup [do: {"queue_limit"}, queue: Queues, field: {"running", "nodes"},
        value: Shares \cup {Bad}]
  \cup [do: {"config"}, key: Keys, value: Shares \cup {Bad}]
  \cup [do: {"rebin"}]
  \cup [do: {"row"}, row: AssocRow]

VARIABLES disk, work, lock, todo, cmd, reply, before, now
vars == <<disk, work, lock, todo, cmd, reply, before, now>>

Free == "free"
Service == "service"
Other == "other"

---------------------------------------------------------------------------
(* The connection of the service. *)

NoCommand == [op |-> "none"]
Idle == todo = <<>>
Writable == lock # Other

(* A statement that writes, and one that writes and commits. *)
Write(d) == /\ Writable
            /\ work' = d
            /\ lock' = Service
            /\ UNCHANGED disk
Save(d) == /\ Writable
           /\ work' = d
           /\ disk' = d
           /\ lock' = Free

NoWrite == UNCHANGED <<disk, work, lock>>

(* The function returns or raises, and the handler of the request answers. *)
Answer(a) == /\ todo' = <<>>
             /\ cmd' = NoCommand
             /\ reply' = a
             /\ before' = disk'

(* The command goes on with tasks and then with what was left.             *)
GoOn(tasks) ==
  LET rest == tasks \o Tail(todo)
  IN IF rest = <<>> THEN Answer("ok")
     ELSE todo' = rest /\ UNCHANGED <<cmd, reply, before>>

Raise == NoWrite /\ Answer("error")

(* A request whose command takes several steps. *)
Begin(r, tasks) ==
  /\ Idle
  /\ todo' = tasks
  /\ cmd' = r
  /\ reply' = "none"
  /\ UNCHANGED <<before, now>>
  /\ NoWrite

(* A request whose command is over with one transaction. *)
Short(r, name) == /\ Idle
                  /\ r.op = name
                  /\ UNCHANGED now

OneOf(task, cond) == IF cond THEN <<task>> ELSE <<>>

Doing(name) == /\ ~Idle
               /\ Head(todo).do = name
               /\ UNCHANGED now

---------------------------------------------------------------------------
(* bank_subcommands.py *)

\* Variant: a second root is accepted.
BankRefusedUnderRoot(d, r) ==
  \/ r.parent # NoBank /\ ~KnownBank(d, r.parent)
  \/ r.parent # NoBank /\ MembersOf(d, r.parent) # {}
  \/ BankIsActive(d, r.bank, r.parent)
BankRefused(d, r) ==
  \/ r.parent = NoBank /\ HasRoot(d)
  \/ r.parent # NoBank /\ ~KnownBank(d, r.parent)
  \/ r.parent # NoBank /\ MembersOf(d, r.parent) # {}
  \/ BankIsActive(d, r.bank, r.parent)

BankDisabled(d, r) == \E x \in SameBank(d, r.bank, r.parent) :
                        SameBank(d, r.bank, r.parent) = {x}

AddBank(r) ==
  /\ Short(r, "add_bank")
  /\ \/ BankRefused(work, r) /\ Raise
     \/ /\ ~BankRefused(work, r)
        /\ BankDisabled(work, r)
        /\ Save(ReactivateBank(work, r.bank, r.parent))
        /\ Answer("ok")
     \/ /\ ~BankRefused(work, r)
        /\ ~BankDisabled(work, r)
        /\ \E i \in 1..MaxBankRows :
             NextId(work, i) /\ Save(InsertBank(work, i, r.bank, r.parent, Default))
        /\ Answer("ok")

\* Variant: the walk stops below the named bank.
VisitsTop(names, depth, force) ==
  OneOf([do |-> "banks", names |-> names, depth |-> depth, force |-> force],
        names # {} /\ depth = 0)
(* The walk of delete_bank: one step per bank, then the associations of    *)
(* the banks that have no sub-banks.                                       *)
Visits(names, depth, force) ==
  OneOf([do |-> "banks", names |-> names, depth |-> depth, force |-> force], names # {})
Removals(users, b, force) ==
  OneOf([do |-> "users", names |-> users, bank |-> b, force |-> force], users # {})

DeleteBank(r) ==
  /\ r.op = "delete_bank"
  /\ Begin(r, Visits({r.bank}, 0, r.force)
                \o OneOf([do |-> "usage"], r.force)
                \o <<[do |-> "save"]>>)

VisitBank ==
  /\ Doing("banks")
  /\ LET t == Head(todo)
     IN \E b \in t.names :
          LET d == RemoveBank(work, b, t.force)
              subs == SubBanks(d, b)
              members == {x.user : x \in MembersOf(d, b)}
          IN IF t.depth >= MaxDepth
               THEN Write(d) /\ Answer("error")
               ELSE /\ Write(d)
                    /\ GoOn((IF subs # {} THEN Visits(subs, t.depth + 1, t.force)
                             ELSE Removals(members, b, t.force))
                              \o Visits(t.names \ {b}, t.depth, t.force))

(* The usage of the remaining tree is summed again from the root, which    *)
(* may be gone.                                                            *)
RecalculateUsage ==
  /\ Doing("usage")
  /\ IF HasRoot(work) /\ \A x \in work.banks :
                           x.parent = NoBank => ~EndlessBelow(work, x.bank)
       THEN Write(work) /\ GoOn(<<>>)
       ELSE Raise

(* The last commit of a command; without a transaction it does nothing.    *)
(* edit_user stamps mod_time first.                                        *)
SaveAll ==
  /\ Doing("save")
  /\ IF lock = Service \/ cmd.op = "edit_user" THEN Save(work) ELSE NoWrite
  /\ GoOn(<<>>)

EditBank(r) ==
  /\ r.op = "edit_bank"
  /\ Begin(r, OneOf([do |-> "bank_shares", bank |-> r.bank, value |-> r.shares],
                    r.shares # Keep)
                \o OneOf([do |-> "bank_parent", bank |-> r.bank, value |-> r.parent],
                         r.parent # Keep)
                \o <<[do |-> "save"]>>)

\* Variant: each column of a bank is committed.
EditBankSharesAlone ==
  /\ Doing("bank_shares")
  /\ LET t == Head(todo)
     IN IF t.value = Bad THEN Raise
        ELSE Save(SetBankShares(work, t.bank, t.value)) /\ GoOn(<<>>)
\* Variant: the value is not looked at.
EditBankAnyShares ==
  /\ Doing("bank_shares")
  /\ LET t == Head(todo) IN Write(SetBankShares(work, t.bank, t.value)) /\ GoOn(<<>>)
EditBankShares ==
  /\ Doing("bank_shares")
  /\ LET t == Head(todo)
     IN IF t.value = Bad THEN Raise
        ELSE Write(SetBankShares(work, t.bank, t.value)) /\ GoOn(<<>>)

EditBankParent ==
  /\ Doing("bank_parent")
  /\ LET t == Head(todo)
     IN IF ~KnownBank(work, t.value) THEN Raise
        ELSE Write(SetBankParent(work, t.bank, t.value)) /\ GoOn(<<>>)

---------------------------------------------------------------------------
(* user_subcommands.py *)

\* Variant: a bank with sub-banks takes associations.
UserRefusedIfActive(d, r) == AssociationIsActive(d, r.user, r.bank)
UserRefused(d, r) == \/ AssociationIsActive(d, r.user, r.bank)
                     \/ SubBanks(d, r.bank) # {}

NewUserRefused(d, r) == \/ ~KnownBank(d, r.bank)
                        \/ \E q \in r.queues : ~KnownQueue(d, q)
                        \/ ~(r.projects \subseteq d.projects)

\* Variant: each association brings its own bank as the default.
OwnDefaultBank(d, u, b) == {b}
(* The default bank of the user's first row, or the new bank. *)
DefaultBanks(d, u, b) == IF RowsOf(d, u) = {} THEN {b} ELSE {x.def : x \in RowsOf(d, u)}

NewRow(r, def) ==
  [user |-> r.user, bank |-> r.bank, active |-> TRUE, def |-> def, shares |-> Default,
   queues |-> r.queues, projects |-> r.projects, created |-> now]

AddUser(r) ==
  /\ Short(r, "add_user")
  /\ \/ UserRefused(work, r) /\ Raise
     \/ /\ ~UserRefused(work, r)
        /\ RowsAt(work, r.user, r.bank) # {}
        /\ Save(ReactivateAssociation(work, r.user, r.bank))
        /\ Answer("ok")
     \/ /\ ~UserRefused(work, r)
        /\ RowsAt(work, r.user, r.bank) = {}
        /\ NewUserRefused(work, r)
        /\ Raise
     \/ /\ ~UserRefused(work, r)
        /\ RowsAt(work, r.user, r.bank) = {}
        /\ ~NewUserRefused(work, r)
        /\ \E def \in DefaultBanks(work, r.user, r.bank) :
             Save(InsertAssociation(work, NewRow(r, def)))
        /\ Answer("ok")

(* delete_user commits the row, then looks at the default bank. *)
DeleteUser(r) ==
  /\ r.op = "delete_user"
  /\ Begin(r, Removals({r.user}, r.bank, r.force))

DisableUser ==
  /\ Doing("users")
  /\ LET t == Head(todo)
     IN \E u \in t.names :
          /\ Save(RemoveAssociation(work, u, t.bank, t.force))
          /\ GoOn(<<[do |-> "default", user |-> u, bank |-> t.bank]>>
                    \o Removals(t.names \ {u}, t.bank, t.force))

DefaultMayMove(t) == /\ \E x \in RowsOf(work, t.user) : x.def = t.bank
                     /\ NextDefaults(work, t.user) # {}
DefaultMayStay(t) == \/ RowsOf(work, t.user) = {}
                     \/ \E x \in RowsOf(work, t.user) : x.def # t.bank
                     \/ NextDefaults(work, t.user) = {}

UpdateDefaultBank ==
  /\ Doing("default")
  /\ LET t == Head(todo)
     IN \/ /\ DefaultMayMove(t)
           /\ \E new \in NextDefaults(work, t.user) :
                Save(SetDefaultBank(work, t.user, Keep, new))
        \/ DefaultMayStay(t) /\ NoWrite
  /\ GoOn(<<>>)

EditUser(r) ==
  /\ r.op = "edit_user"
  /\ IF \/ r.queues # Keep /\ {r.add, r.del} # {Keep}
        \/ r.add # Keep /\ r.add = r.del
       THEN Idle /\ Raise /\ UNCHANGED now
       ELSE Begin(r,
              OneOf([do |-> "modify_queues", user |-> r.user, bank |-> r.bank,
                     add |-> r.add, del |-> r.del], {r.add, r.del} # {Keep})
              \o OneOf([do |-> "user_def", user |-> r.user, bank |-> r.bank,
                        value |-> r.def], r.def # Keep)
              \o OneOf([do |-> "user_shares", user |-> r.user, bank |-> r.bank,
                        value |-> r.shares], r.shares # Keep)
              \o OneOf([do |-> "user_queues", user |-> r.user, bank |-> r.bank,
                        value |-> r.queues], r.queues # Keep)
              \o OneOf([do |-> "user_projects", user |-> r.user, bank |-> r.bank,
                        value |-> r.projects], r.projects # Keep)
              \o <<[do |-> "save"]>>)

EditModifyQueues ==
  /\ Doing("modify_queues")
  /\ LET t == Head(todo)
     IN IF \/ ~\E x \in work.assocs : Chosen(x, t.user, t.bank)
           \/ t.add # Keep /\ ~KnownQueue(work, t.add)
          THEN Raise
          ELSE Write(ModifyQueues(work, t.user, t.bank, t.add, t.del)) /\ GoOn(<<>>)

EditDefaultBank ==
  /\ Doing("user_def")
  /\ LET t == Head(todo)
     IN IF t.value = Reset THEN Raise
        ELSE Write(SetDefaultBank(work, t.user, t.bank, t.value)) /\ GoOn(<<>>)

EditShares ==
  /\ Doing("user_shares")
  /\ LET t == Head(todo)
     IN Write(SetShares(work, t.user, t.bank, t.value)) /\ GoOn(<<>>)

(* clear_queues and clear_projects commit, in the middle of the command. *)
EditQueues ==
  /\ Doing("user_queues")
  /\ LET t == Head(todo)
     IN \/ /\ t.value = Reset
           /\ Save(SetQueues(work, t.user, t.bank, {}))
           /\ GoOn(<<>>)
        \/ /\ t.value # Reset
           /\ IF \E q \in t.value : ~KnownQueue(work, q) THEN Raise
              ELSE Write(SetQueues(work, t.user, t.bank, t.value)) /\ GoOn(<<>>)

EditProjects ==
  /\ Doing("user_projects")
  /\ LET t == Head(todo)
     IN \/ /\ t.value = Reset
           /\ Save(SetProjects(work, t.user, t.bank, {}))
           /\ GoOn(<<>>)
        \/ /\ t.value # Reset
           /\ IF ~(t.value \subseteq work.projects) THEN Raise
              ELSE Write(SetProjects(work, t.user, t.bank, t.value)) /\ GoOn(<<>>)

(* Two rows of one user moved to the same bank break the table's key: the  *)
(* UPDATE changes nothing, but it has opened the transaction.              *)
EditAllUsers(r) ==
  /\ Short(r, "edit_all_users")
  /\ IF \/ r.def = Reset
        \/ r.queues # Keep /\ \E q \in r.queues : ~KnownQueue(work, q)
       THEN Raise
       ELSE IF /\ r.bank # Keep
               /\ \E x, y \in work.assocs : x # y /\ x.user = y.user
              THEN Write(work) /\ Answer("error")
              ELSE Save(SetAllUsers(work, r.bank, r.def, r.queues)) /\ Answer("ok")

(* Userids are not modelled: some differ, or none. *)
SyncUserids(r) ==
  /\ Short(r, "sync_userids")
  /\ Save(work) \/ NoWrite
  /\ Answer("ok")

---------------------------------------------------------------------------
(* job_usage_calculation.py: what scrub-old-jobs and clear-usage do to the *)
(* jobs and the usage is in JobUsage; here they take part in transactions. *)

ScrubOldJobs(r) ==
  /\ Short(r, "scrub_old_jobs")
  /\ Save(work)
  /\ Answer("ok")

(* A commit for each bank above the named one, on a cycle until Python     *)
(* gives up, and one at the end.  The first also commits what an earlier   *)
(* command left open.  After it the command can still fail: a time that    *)
(* does not parse raises before the last commit, and each later statement  *)
(* that writes may find the file locked.                                   *)
HasParent(d, b) == \E x \in d.banks : x.bank = b /\ x.parent # NoBank
ClearUsage(r) ==
  /\ Short(r, "clear_usage")
  /\ \/ r.time # Bad /\ ~EndlessAbove(work, r.bank) /\ Save(work) /\ Answer("ok")
     \/ HasParent(work, r.bank) /\ Save(work) /\ Answer("error")
     \/ r.time = Bad /\ ~HasParent(work, r.bank) /\ Write(work) /\ Answer("error")

---------------------------------------------------------------------------
(* queue_subcommands.py and project_subcommands.py *)

(* The INSERT of a queue that exists fails after it has opened the         *)
(* transaction.                                                            *)
AddQueue(r) ==
  /\ Short(r, "add_queue")
  /\ IF KnownQueue(work, r.queue) THEN Write(work) /\ Answer("error")
     ELSE Save(InsertQueue(work, r.queue, Default, Default)) /\ Answer("ok")

DeleteQueue(r) ==
  /\ Short(r, "delete_queue")
  /\ Save(RemoveQueue(work, r.queue))
  /\ Answer("ok")

EditQueue(r) ==
  /\ r.op = "edit_queue"
  /\ {r.running, r.nodes} # {Keep}
  /\ Begin(r, OneOf([do |-> "queue_limit", queue |-> r.queue, field |-> "running",
                     value |-> r.running], r.running # Keep)
                \o OneOf([do |-> "queue_limit", queue |-> r.queue, field |-> "nodes",
                          value |-> r.nodes], r.nodes # Keep))

(* edit_queue commits each field. *)
EditQueueLimit ==
  /\ Doing("queue_limit")
  /\ LET t == Head(todo)
     IN IF t.value = Bad THEN Raise
        ELSE Save(SetQueueLimit(work, t.queue, t.field, t.value)) /\ GoOn(<<>>)

AddProject(r) ==
  /\ Short(r, "add_project")
  /\ IF r.project \in work.projects THEN Raise
     ELSE Save(InsertProject(work, r.project)) /\ Answer("ok")

DeleteProject(r) ==
  /\ Short(r, "delete_project")
  /\ Save(RemoveProject(work, r.project))
  /\ Answer("ok")

---------------------------------------------------------------------------
(* priorities.py *)

EditFactor(r) ==
  /\ Short(r, "edit_factor")
  /\ IF r.factor \notin Factors THEN Raise
     ELSE Save(SetWeight(work, r.factor, r.weight)) /\ Answer("ok")

(* Four statements and one commit. *)
ResetFactors(r) ==
  /\ Short(r, "reset_factors")
  /\ Save(ResetWeights(work))
  /\ Answer("ok")

---------------------------------------------------------------------------
(* db_info_subcommands.py *)

(* add_config and delete_config return without a commit. *)
AddConfig(r) ==
  /\ Short(r, "add_config")
  /\ IF KnownKey(work, r.key) THEN Write(work) /\ Answer("error")
     ELSE Write(InsertKey(work, r.key, r.value)) /\ Answer("ok")

DeleteConfig(r) ==
  /\ Short(r, "delete_config")
  /\ IF r.key \in LockedKeys THEN Raise
     ELSE Write(RemoveKey(work, r.key)) /\ Answer("ok")

EditConfig(r) ==
  /\ r.op = "edit_config"
  /\ Begin(r, <<[do |-> "config", key |-> r.key, value |-> r.value]>>
                \o OneOf([do |-> "config", key |-> r.key2, value |-> r.value2],
                         r.key2 # Keep)
                \o OneOf([do |-> "rebin"], {r.key, r.key2} \cap BinKeys # {})
                \o <<[do |-> "save"]>>)

(* A value the key does not take raises before the UPDATE, an unknown key  *)
(* after it.                                                               *)
EditConfigKey ==
  /\ Doing("config")
  /\ LET t == Head(todo)
     IN \/ t.value = Bad /\ Raise
        \/ /\ t.value # Bad
           /\ ~KnownKey(work, t.key)
           /\ Write(work)
           /\ Answer("error")
        \/ /\ t.value # Bad
           /\ KnownKey(work, t.key)
           /\ Write(SetKey(work, t.key, t.value))
           /\ GoOn(<<>>)

(* reconfigure_usage_bins commits on its own, or needs a half-life.        *)
ReconfigureBins ==
  /\ Doing("rebin")
  /\ IF \A k \in BinKeys : KnownKey(work, k) THEN Save(work) /\ GoOn(<<>>) ELSE Raise

PopulateDb(r) ==
  /\ r.op = "pop_db"
  /\ Begin(r, <<[do |-> "row", row |-> r.row], [do |-> "row", row |-> r.row2],
                [do |-> "save"]>>)

PopulateRow ==
  /\ Doing("row")
  /\ LET x == Head(todo).row
     IN IF RowsAt(work, x.user, x.bank) # {}
          THEN Write(work) /\ Answer("error")
          ELSE Write([work EXCEPT !.assocs = @ \cup {x}]) /\ GoOn(<<>>)

---------------------------------------------------------------------------
(* The other processes, the clock, and the end of the service.             *)

(* The statements of the running step that write. *)
Writes(t) == CASE t.do = "save"    -> cmd.op = "edit_user"
               [] t.do = "default" -> DefaultMayMove(t)
               [] OTHER            -> TRUE

\* Variant: a command waits for the file for as long as it takes.
NeverLockedOut == FALSE /\ UNCHANGED vars
(* SQLite gives up after five seconds: sqlite3.OperationalError.           *)
(* delete_bank and populate_db roll back; the service holds no             *)
(* transaction here, so that there is nothing left to roll back.           *)
LockedOut ==
  /\ lock = Other
  /\ ~Idle
  /\ Writes(Head(todo))
  /\ Raise
  /\ UNCHANGED now

(* The same for a command of one transaction. *)
TurnedAway(r) ==
  /\ Idle
  /\ lock = Other
  /\ r.op \notin {"delete_bank", "edit_bank", "delete_user", "edit_user", "edit_queue",
                  "edit_config", "pop_db"}
  /\ Raise
  /\ UNCHANGED now

\* Variant: a script writes while the service has a transaction open.
OtherBreaksIn ==
  /\ lock # Other
  /\ lock' = Other
  /\ UNCHANGED <<disk, work, todo, cmd, reply, before, now>>
OtherLocks ==
  /\ lock = Free
  /\ lock' = Other
  /\ UNCHANGED <<disk, work, todo, cmd, reply, before, now>>

OtherUnlocks ==
  /\ lock = Other
  /\ lock' = Free
  /\ UNCHANGED <<disk, work, todo, cmd, reply, before, now>>

Tick ==
  /\ now < MaxTime
  /\ now' = now + 1
  /\ UNCHANGED <<disk, work, lock, todo, cmd, reply, before>>

\* Variant: the open transaction outlives the service.
RestartOpen ==
  /\ lock' = IF lock = Service THEN Free ELSE lock
  /\ todo' = <<>>
  /\ cmd' = NoCommand
  /\ reply' = "none"
  /\ before' = disk
  /\ UNCHANGED <<disk, work, now>>
(* The service is killed at any point, or told to shut down between two    *)
(* requests: SQLite drops the open transaction.  It starts again.          *)
Restart ==
  /\ work' = disk
  /\ lock' = IF lock = Service THEN Free ELSE lock
  /\ todo' = <<>>
  /\ cmd' = NoCommand
  /\ reply' = "none"
  /\ before' = disk
  /\ UNCHANGED <<disk, now>>

---------------------------------------------------------------------------
(* A database that flux account create-db has just made. *)
NewTables ==
  [banks |-> {}, assocs |-> {}, factors |-> {}, queues |-> {}, projects |-> {},
   config |-> LockedKeys \X {Default}, weights |-> [f \in Factors |-> Default]]

InitWith(tables) ==
  /\ disk = tables
  /\ work = tables
  /\ before = tables
  /\ lock = Free
  /\ todo = <<>>
  /\ cmd = NoCommand
  /\ reply = "none"
  /\ now = 0

Init == InitWith(NewTables)

Receive(r) ==
  \/ AddBank(r) \/ DeleteBank(r) \/ EditBank(r)
  \/ AddUser(r) \/ DeleteUser(r) \/ EditUser(r) \/ EditAllUsers(r)
  \/ AddQueue(r) \/ DeleteQueue(r) \/ EditQueue(r)
  \/ AddProject(r) \/ DeleteProject(r) \/ EditFactor(r) \/ ResetFactors(r)
  \/ AddConfig(r) \/ DeleteConfig(r) \/ EditConfig(r) \/ PopulateDb(r)
  \/ SyncUserids(r) \/ ScrubOldJobs(r) \/ ClearUsage(r)
  \/ TurnedAway(r)

Continue ==
  \/ VisitBank \/ RecalculateUsage \/ SaveAll \/ EditBankShares \/ EditBankParent
  \/ DisableUser \/ UpdateDefaultBank
  \/ EditModifyQueues \/ EditDefaultBank \/ EditShares \/ EditQueues \/ EditProjects
  \/ EditQueueLimit \/ EditConfigKey \/ ReconfigureBins \/ PopulateRow

Next ==
  \/ \E r \in Requests : Receive(r)
  \/ Continue
  \/ LockedOut \/ OtherLocks \/ OtherUnlocks \/ Tick \/ Restart

Spec == Init /\ [][Next]_vars

---------------------------------------------------------------------------
(* Safety. *)

(* The types of the variables. *)
TypeOK ==
  /\ disk \in Tables
  /\ work \in Tables
  /\ before \in Tables
  /\ lock \in {Free, Service, Other}
  /\ todo \in Seq(Task)
  /\ cmd \in Requests \cup {NoCommand}
  /\ reply \in {"none", "ok", "error"}
  /\ now \in 0..MaxTime

(* Whatever the service sees and other processes do not is held under the  *)
(* lock: nobody can commit between the service's write and its commit.     *)
CleanUnlessLocked == lock # Service => work = disk

(* A command that answered with success has committed what it did.         *)
AnsweredIsDurable == reply = "ok" => work = disk

(* add_bank keeps a single root, for the service and for every reader.     *)
OneRoot(d) == \A x, y \in d.banks : x.parent = NoBank /\ y.parent = NoBank => x = y
OneRootBank == OneRoot(disk) /\ OneRoot(work)

(* No bank holds both associations and sub-banks: the two checks, in       *)
(* add_bank and in add_user, are on different tables and in different      *)
(* commands.                                                               *)
Unmixed(d) == \A x \in d.banks, y \in d.assocs : x.parent # y.bank
NoMixedBank == Unmixed(disk) /\ Unmixed(work)

(* The rows of a user name one default bank, although each row stores its  *)
(* own copy.                                                               *)
Agreed(d) == \A x, y \in d.assocs : x.user = y.user => x.def = y.def
OneDefaultBank == Agreed(disk) /\ Agreed(work)

(* Each association has one row, and its rows of the usage tables, which   *)
(* the calculation of its usage reads without looking whether they exist.  *)
Keyed(d) == /\ \A x, y \in d.assocs : x.user = y.user /\ x.bank = y.bank => x = y
            /\ \A x \in d.assocs : <<x.user, x.bank>> \in d.factors
UsageRows == Keyed(disk) /\ Keyed(work)

(* The last three hold as long as nobody uses the commands that take no    *)
(* care of them: pop-db, edit-all-users with a bank, edit-bank with a      *)
(* parent to which users are added, and edit-user with a default bank for  *)
(* one of the user's associations.                                         *)
AllRowsStay ==
  \A r \in Requests : /\ r.op # "pop_db"
                      /\ r.op = "edit_all_users" => r.bank = Keep
NewParents == {r.parent : r \in {x \in Requests : x.op = "edit_bank" /\ x.parent # Keep}}
ParentsStayEmpty == \A r \in Requests : r.op = "add_user" => r.bank \notin NewParents
DefaultsGoTogether ==
  \A r \in Requests : /\ r.op # "pop_db"
                      /\ r.op = "edit_user" /\ r.def # Keep => r.bank = Keep

(* After delete_bank has answered with success no bank from the named one  *)
(* down is active, and none of their associations.                         *)
SubtreeGone(b) ==
  LET below == Below(before, {b})
  IN /\ \A x \in disk'.banks : x.bank \in below => ~x.active
     /\ \A x \in disk'.assocs : x.bank \in below => ~x.active
DeleteTakesSubtree == [][cmd.op = "delete_bank" /\ reply' = "ok" => SubtreeGone(cmd.bank)]_vars

(* A removal that is answered leaves no user, who has an active            *)
(* association left and whose default bank was active, with a default bank *)
(* that is not: delete_user commits the removal before it looks for a new  *)
(* default bank, and delete_bank goes through several removals.            *)
DefaultActive(d, u) == \A x \in RowsOf(d, u) : AssociationIsActive(d, u, x.def)
DefaultFollows ==
  [][cmd.op \in {"delete_user", "delete_bank"} /\ reply' = "ok" =>
       \A u \in Users :
         /\ DefaultActive(before, u)
         /\ \E x \in RowsOf(disk', u) : x.active
         => DefaultActive(disk', u)]_vars

(* No command is refused half-way, or returns without a commit: the next   *)
(* one finds no transaction open.                                          *)
NothingLeftOpen == Idle => work = disk

(* What it takes for that, whatever the tables are.  A command that is     *)
(* refused is refused before its first write.                              *)
RefusedAtOnce(requests) ==
  \A r \in requests :
    /\ r.op \notin {"add_config", "delete_config", "pop_db"}
    /\ r.op = "edit_bank" => Keep \in {r.shares, r.parent}
    /\ r.op = "edit_config" => r.key2 = Keep
    /\ r.op = "edit_user" =>
         LET queuesFirst == {r.add, r.del} = {Keep} /\ r.def = Keep /\ r.shares = Keep
         IN /\ r.def = Reset => {r.add, r.del} = {Keep}
            /\ r.queues \notin {Keep, Reset} => queuesFirst
            /\ r.projects \notin {Keep, Reset} => queuesFirst /\ r.queues = Keep

(* A bank is put below higher ones only, there are fewer levels than       *)
(* Python has frames, and the root stays the root.                         *)
NewRoots(requests) ==
  {r.bank : r \in {x \in requests : x.op = "add_bank" /\ x.parent = NoBank}}
BelowHigher(r, height, roots) ==
  /\ \/ r.op = "add_bank" /\ r.parent # NoBank
     \/ r.op = "edit_bank" /\ r.parent # Keep
     => r.bank \notin roots /\ height[r.bank] < height[r.parent]
  /\ r.op = "delete_bank" /\ r.force => r.bank \notin roots
TreeStays(requests) ==
  \E height \in [Banks -> 0..MaxDepth - 1] :
    \A r \in requests : BelowHigher(r, height, NewRoots(requests))

(* clear_queues commits: what edit_user does after it is on its own.       *)
ResetsComeLast ==
  \A r \in Requests : r.op = "edit_user" /\ r.queues = Reset => r.projects = Keep

(* What other processes read changes by whole transactions of commands.    *)
Atomic == INSTANCE AtomicAccounting WITH tables <- disk
WholeCommands == Atomic!Spec
=============================================================================
