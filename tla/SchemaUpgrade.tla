----------------------------- MODULE SchemaUpgrade -----------------------------
(***************************************************************************)
(* flux account-update-db: bring an accounting database that an older      *)
(* version made to the schema of the installed version, in place, while    *)
(* other programs go on using the file.  The administrator runs it, and    *)
(* "flux account-priority-update" runs it from cron when it finds an old   *)
(* version, so that two may run at the same time.                          *)
(*                                                                         *)
(* SQLite commits each statement that changes the schema by itself, until  *)
(* the first INSERT opens a transaction; from then on everything waits for *)
(* the commit at the end.  Where that happens depends on the data.         *)
(*                                                                         *)
(*   file    what is committed                                             *)
(*   work    file and the open transaction of the holder                   *)
(*   holder  who has an open transaction                                   *)
(*   pc, plan, task, read, target                                          *)
(*           each run: what comes next, the tables that are left, the      *)
(*           table being changed, the usage it has read, and its version   *)
(*   backup  the version of the last copy made of the file, 0 without one  *)
(*   installed, writes, aborts                                             *)
(*           the version of the package, and two bounded counters          *)
(***************************************************************************)
EXTENDS Naturals

CONSTANTS
  Tables, Columns, Keys, Values,
  Bins,          \* the usage_factor_period_N columns
  FactorTable,   \* job_usage_factor_table
  PeriodTable,   \* job_usage_per_association_table
  Latest,        \* the last version there is
  Schema,        \* Schema[v][t]: the columns of table t in version v
  Position,      \* the order of the tables in a new database
  Entries,       \* Entries[t]: the keys of the rows a new database has
  Default,       \* the value a new column or row gets
  NoValue,
  Nobody,
  Updaters,
  Touched,       \* the tables that other programs write to
  OldRows,       \* the rows an old database may have
  MaxWrites, MaxAborts

Versions == 1..Latest
Stored == Values \cup {NoValue}

ASSUME UpgradeAssumption ==
  /\ Latest \in Nat \ {0} /\ MaxWrites \in Nat /\ MaxAborts \in Nat
  /\ FactorTable \in Tables /\ PeriodTable \in Tables /\ Bins \subseteq Columns
  /\ Schema \in [Versions -> [Tables -> SUBSET Columns]]
  /\ Position \in [Tables -> Nat]
  /\ Entries \in [Tables -> SUBSET Keys]
  /\ OldRows \subseteq [Tables -> SUBSET Keys]
  /\ Default \in Values /\ NoValue \notin Values
  /\ Nobody \notin Updaters /\ Touched \subseteq Tables

(* cols[t] is {} when there is no table t; tmp[t] are the columns of the   *)
(* table t_tmp.  The rows of PeriodTable are the values of periods.        *)
Database ==
  [version: Versions, cols: [Tables -> SUBSET Columns], tmp: [Tables -> SUBSET Columns],
   rows: [Tables -> SUBSET Keys], data: [Tables -> [Keys -> [Columns -> Stored]]],
   periods: [Keys -> [Bins -> Stored]]]

Task == [table: Tables, columns: SUBSET Columns]
Usages == [Keys -> [Bins -> Stored]]

VARIABLES file, work, holder, pc, plan, task, read, target, backup, installed, writes, aborts
vars == <<file, work, holder, pc, plan, task, read, target, backup, installed, writes, aborts>>

---------------------------------------------------------------------------
(* A new database, which create_db makes as a template for every run.      *)
NoPeriods == [k \in Keys |-> [b \in Bins |-> NoValue]]

Filled(cols, rows, v) ==
  [t \in Tables |-> [k \in Keys |-> [c \in Columns |->
     IF k \in rows[t] /\ c \in cols[t] THEN v ELSE NoValue]]]

create_db(v) ==
  [version |-> v, cols |-> Schema[v], tmp |-> [t \in Tables |-> {}], rows |-> Entries,
   data |-> Filled(Schema[v], Entries, Default), periods |-> NoPeriods]

TablesOf(d) == {t \in Tables : d.cols[t] # {}}
First(ts) == {t \in ts : \A s \in ts : Position[t] <= Position[s]}

---------------------------------------------------------------------------
(* Statements. *)

CreateTable(d, t, cols) == IF d.cols[t] # {} THEN d ELSE [d EXCEPT !.cols[t] = cols]

CreateTmp(d, t, cols) == IF d.tmp[t] # {} THEN d ELSE [d EXCEPT !.tmp[t] = cols]

WithColumn(d, t, c) ==
  [d EXCEPT !.cols[t] = @ \cup {c},
            !.data[t] = [k \in Keys |-> [@[k] EXCEPT ![c] =
                            IF k \in d.rows[t] THEN Default ELSE NoValue]]]

(* INSERT ... SELECT into t_tmp of the columns that stay, DROP TABLE t,    *)
(* and t_tmp takes its name.                                               *)
Rebuilt(d, t, kept) ==
  [d EXCEPT !.cols[t] = d.tmp[t],
            !.tmp[t] = {},
            !.data[t] = [k \in Keys |-> [c \in Columns |->
                           IF k \notin d.rows[t] \/ c \notin d.tmp[t] THEN NoValue
                           ELSE IF c \in kept THEN @[k][c] ELSE Default]]]

\* Variant: INSERT OR REPLACE.
WithPeriodsReplaced(d, usage) ==
  [d EXCEPT !.periods = [k \in Keys |-> [b \in Bins |->
     IF usage[k][b] # NoValue THEN usage[k][b] ELSE d.periods[k][b]]]]
(* INSERT OR IGNORE. *)
WithPeriods(d, usage) ==
  [d EXCEPT !.periods = [k \in Keys |-> [b \in Bins |->
     IF d.periods[k][b] = NoValue THEN usage[k][b] ELSE d.periods[k][b]]]]

\* Variant: the entries of the newer version are not added.
WithOldEntries(d) == d
WithEntries(d) ==
  [d EXCEPT !.rows = [t \in Tables |-> @[t] \cup Entries[t]],
            !.data = [t \in Tables |-> [k \in Keys |->
               IF k \in Entries[t] \ d.rows[t]
                 THEN [c \in Columns |-> IF c \in d.cols[t] THEN Default ELSE NoValue]
                 ELSE @[t][k]]]]

UsageRead(d) ==
  [k \in Keys |-> [b \in Bins |->
     IF b \in d.cols[FactorTable] /\ k \in d.rows[FactorTable]
       THEN d.data[FactorTable][k][b] ELSE NoValue]]

---------------------------------------------------------------------------
(* The connection of a run. *)

View(p) == IF holder = p THEN work ELSE file

(* A statement that changes the schema: by itself, or in the transaction.  *)
Alter(p, d) == /\ holder \in {Nobody, p}
               /\ work' = d
               /\ file' = IF holder = p THEN file ELSE d
               /\ UNCHANGED holder

(* A statement that changes rows. *)
Insert(p, d) == /\ holder \in {Nobody, p}
                /\ holder' = p
                /\ work' = d
                /\ UNCHANGED file

Goto(p, label) == pc' = [pc EXCEPT ![p] = label]
NoStatement == UNCHANGED <<file, work, holder>>
Running(p) == UNCHANGED <<target, backup, installed, writes, aborts>>

Begin(p) ==
  /\ pc[p] = "idle"
  /\ backup' = file.version
  /\ target' = [target EXCEPT ![p] = installed]
  /\ plan' = [plan EXCEPT ![p] = TablesOf(create_db(installed)) \ TablesOf(file)]
  /\ Goto(p, "tables")
  /\ NoStatement
  /\ UNCHANGED <<task, read, installed, writes, aborts>>

update_tables(p) ==
  /\ pc[p] = "tables"
  /\ \E t \in First(plan[p]) :
       /\ Alter(p, CreateTable(View(p), t, Schema[target[p]][t]))
       /\ plan' = [plan EXCEPT ![p] = @ \ {t}]
  /\ Running(p)
  /\ UNCHANGED <<pc, task, read>>

(* migrate_job_usage_to_per_assoc: fetchall, and then the INSERTs; with no *)
(* row there is no INSERT, and no transaction.                             *)
ReadUsage(p) ==
  /\ pc[p] = "tables"
  /\ plan[p] = {}
  /\ read' = [read EXCEPT ![p] = UsageRead(View(p))]
  /\ Goto(p, "migrate")
  /\ NoStatement
  /\ Running(p)
  /\ UNCHANGED <<plan, task>>

migrate_job_usage_to_per_assoc(p) ==
  /\ pc[p] = "migrate"
  /\ IF read[p] = NoPeriods THEN NoStatement ELSE Insert(p, WithPeriods(View(p), read[p]))
  /\ plan' = [plan EXCEPT ![p] = TablesOf(create_db(target[p]))]
  /\ read' = [read EXCEPT ![p] = NoPeriods]
  /\ Goto(p, "columns")
  /\ Running(p)
  /\ UNCHANGED task

(* update_columns looks at one table after the other. *)
update_columns(p) ==
  /\ pc[p] = "columns"
  /\ \E t \in First(plan[p]) :
       LET old == View(p).cols[t]
           new == Schema[target[p]][t]
           Change(label, columns) ==
             /\ Goto(p, label)
             /\ task' = [task EXCEPT ![p] = [table |-> t, columns |-> columns]]
       IN /\ plan' = [plan EXCEPT ![p] = @ \ {t}]
          /\ \/ old \ new # {} /\ Change("tmp", old \cap new)
             \/ old \ new = {} /\ new \ old # {} /\ Change("add", new \ old)
             \/ old = new /\ UNCHANGED <<pc, task>>
  /\ NoStatement
  /\ Running(p)
  /\ UNCHANGED read

add_tmp_table_to_db(p) ==
  /\ pc[p] = "tmp"
  /\ LET t == task[p].table
     IN Alter(p, CreateTmp(View(p), t, Schema[target[p]][t]))
  /\ Goto(p, "copy")
  /\ Running(p)
  /\ UNCHANGED <<plan, task, read>>

(* The tables and columns that the copy names are there.                   *)
CopyWorks(p) == /\ task[p].columns \subseteq View(p).tmp[task[p].table]
                /\ task[p].columns \subseteq View(p).cols[task[p].table]
                /\ View(p).tmp[task[p].table] # {}

(* move_existing_rows and rename_tmp_table: the INSERT opens the           *)
(* transaction, so that nobody sees a state in between.                    *)
move_existing_rows(p) ==
  /\ pc[p] = "copy"
  /\ CopyWorks(p)
  /\ Insert(p, Rebuilt(View(p), task[p].table, task[p].columns))
  /\ Goto(p, "columns")
  /\ Running(p)
  /\ UNCHANGED <<plan, task, read>>

AddWorks(p, c) == c \notin View(p).cols[task[p].table]

add_columns(p) ==
  /\ pc[p] = "add"
  /\ \E c \in task[p].columns :
       /\ AddWorks(p, c)
       /\ Alter(p, WithColumn(View(p), task[p].table, c))
       /\ task' = [task EXCEPT ![p].columns = @ \ {c}]
       /\ IF task[p].columns = {c} THEN Goto(p, "columns") ELSE UNCHANGED pc
  /\ Running(p)
  /\ UNCHANGED <<plan, read>>

\* Variant: the version is not set.
init_tables_only(p) ==
  /\ pc[p] = "columns"
  /\ plan[p] = {}
  /\ Insert(p, WithEntries(View(p)))
  /\ Goto(p, "commit")
  /\ Running(p)
  /\ UNCHANGED <<plan, task, read>>
(* init_priority_factor_table, init_config_table and the version. *)
init_tables(p) ==
  /\ pc[p] = "columns"
  /\ plan[p] = {}
  /\ Insert(p, [WithEntries(View(p)) EXCEPT !.version = target[p]])
  /\ Goto(p, "commit")
  /\ Running(p)
  /\ UNCHANGED <<plan, task, read>>

Leave(p) == /\ Goto(p, "idle")
            /\ plan' = [plan EXCEPT ![p] = {}]
            /\ read' = [read EXCEPT ![p] = NoPeriods]
            /\ UNCHANGED <<task, target, backup, installed, writes>>

Commit(p) ==
  /\ pc[p] = "commit"
  /\ file' = work
  /\ holder' = Nobody
  /\ UNCHANGED <<work, aborts>>
  /\ Leave(p)

RollBack(p) == IF holder = p THEN work' = file /\ holder' = Nobody /\ UNCHANGED file
               ELSE NoStatement

(* A statement fails, for another run got there first: OperationalError.   *)
GiveUp(p) ==
  /\ \/ pc[p] = "copy" /\ ~CopyWorks(p)
     \/ pc[p] = "add" /\ \E c \in task[p].columns : ~AddWorks(p, c)
  /\ RollBack(p)
  /\ UNCHANGED aborts
  /\ Leave(p)

(* The process is killed, or waits in vain for the lock on the file.       *)
Abort(p) ==
  /\ pc[p] # "idle"
  /\ aborts < MaxAborts
  /\ aborts' = aborts + 1
  /\ RollBack(p)
  /\ Leave(p)

Step(p) ==
  \/ update_tables(p) \/ ReadUsage(p) \/ migrate_job_usage_to_per_assoc(p)
  \/ update_columns(p) \/ add_tmp_table_to_db(p) \/ move_existing_rows(p)
  \/ add_columns(p) \/ init_tables(p) \/ Commit(p) \/ GiveUp(p)

---------------------------------------------------------------------------
(* Other programs, those that an older version installed and still run     *)
(* among them.                                                             *)

Store(d) == /\ holder = Nobody
            /\ writes < MaxWrites
            /\ writes' = writes + 1
            /\ file' = d
            /\ work' = d
            /\ UNCHANGED <<holder, pc, plan, task, read, target, backup, installed, aborts>>

ChangeRow ==
  \E t \in Touched : \E k \in file.rows[t], c \in file.cols[t], v \in Values :
    Store([file EXCEPT !.data[t][k][c] = v])

(* The usage that the calculation of the new version writes. *)
RecordUsage ==
  /\ Bins \cap file.cols[FactorTable] = {}
  /\ \E k \in Keys, b \in Bins, v \in Values :
       /\ file.periods[k][b] # NoValue
       /\ Store([file EXCEPT !.periods[k][b] = v])

(* A newer package is not installed while an upgrade runs. *)
Install ==
  /\ installed < Latest
  /\ \A p \in Updaters : pc[p] = "idle"
  /\ installed' = installed + 1
  /\ UNCHANGED <<file, work, holder, pc, plan, task, read, target, backup, writes, aborts>>

---------------------------------------------------------------------------
OldDatabase(rows, v) ==
  [version |-> 1, cols |-> Schema[1], tmp |-> [t \in Tables |-> {}], rows |-> rows,
   data |-> Filled(Schema[1], rows, v), periods |-> NoPeriods]

Init ==
  /\ \E rows \in OldRows, v \in Values : file = OldDatabase(rows, v)
  /\ work = file
  /\ backup = 0
  /\ holder = Nobody
  /\ pc = [p \in Updaters |-> "idle"]
  /\ plan = [p \in Updaters |-> {}]
  /\ task = [p \in Updaters |-> [table |-> FactorTable, columns |-> {}]]
  /\ read = [p \in Updaters |-> NoPeriods]
  /\ target = [p \in Updaters |-> 1]
  /\ installed = 1
  /\ writes = 0
  /\ aborts = 0

Next == \/ \E p \in Updaters : Begin(p) \/ Step(p) \/ Abort(p)
        \/ ChangeRow \/ RecordUsage \/ Install

Spec == Init /\ [][Next]_vars

(* cron runs "flux account-priority-update" again and again, which starts  *)
(* an upgrade as long as the version is old; a run that has started goes   *)
(* on.                                                                     *)
Fairness ==
  /\ \A p \in Updaters : WF_vars(Step(p))
  /\ WF_vars(file.version < installed /\ \E p \in Updaters : Begin(p))

FairSpec == Spec /\ Fairness

---------------------------------------------------------------------------
(* Properties *)

Labels == {"idle", "tables", "migrate", "columns", "tmp", "copy", "add", "commit"}

(* The types of the variables. *)
TypeOK ==
  /\ file \in Database
  /\ work \in Database
  /\ backup \in Versions \cup {0}
  /\ holder \in Updaters \cup {Nobody}
  /\ pc \in [Updaters -> Labels]
  /\ plan \in [Updaters -> SUBSET Tables]
  /\ task \in [Updaters -> Task]
  /\ read \in [Updaters -> Usages]
  /\ target \in [Updaters -> Versions]
  /\ installed \in Versions
  /\ writes \in 0..MaxWrites
  /\ aborts \in 0..MaxAborts

(* Whoever reads the current version in the file finds all of its schema:  *)
(* the columns of each table, the rows a new database has, and a usage     *)
(* value in every period for each association.  The service looks at the   *)
(* version, and at nothing else, when it starts.                           *)
Complete(d) ==
  /\ d.cols = Schema[d.version]
  /\ \A t \in Tables : Entries[t] \subseteq d.rows[t]
  /\ \A k \in d.rows[FactorTable], b \in Bins : d.periods[k][b] # NoValue
VersionTellsSchema == file.version = Latest => Complete(file)

(* What that takes of the history of the schema: there is something to     *)
(* upgrade to; no table goes away; a table that lost a column, and was     *)
(* built anew for that, stays as it is; the usage of each period was kept  *)
(* in columns, which leave and do not come back; and a new database has no *)
(* associations.                                                           *)
SchemaHistory ==
  /\ Latest > 1
  /\ \A v, w \in Versions, t \in Tables :
       v < w => /\ Schema[v][t] # {} => Schema[w][t] # {}
                /\ Bins \cap Schema[w][FactorTable] \subseteq Schema[v][FactorTable]
                /\ Schema[v][t] \ Schema[w][t] # {} =>
                     \A x \in Versions : w < x => Schema[x][t] = Schema[w][t]
  /\ Bins \subseteq Schema[1][FactorTable] /\ Bins # {}
  /\ Entries[FactorTable] = {}

(* Nobody writes the old usage while it is being copied. *)
UsageLeftAlone == FactorTable \notin Touched

(* What is stored, seen through either version. *)
CommonColumns(t) == {c \in Columns : \A v \in Versions : c \in Schema[v][t]}
Cells == {x \in Tables \X Keys \X (Columns \ Bins) : x[3] \in CommonColumns(x[1])}
           \cup ({FactorTable} \X Keys \X Bins)
Value(d, t, k, c) ==
  IF c \in Bins \ d.cols[t] THEN d.periods[k][c]
  ELSE IF k \in Entries[t] \ d.rows[t] THEN Default
  ELSE d.data[t][k][c]
Content(d) == [x \in Cells |-> Value(d, x[1], x[2], x[3])]

(* The upgrade, interrupted, repeated and run twice at a time, is one step *)
(* that changes the version and nothing that is stored.                    *)
Atomic == INSTANCE AtomicUpgrade
            WITH version <- file.version, content <- Content(file), written <- writes
NothingLost == Atomic!Spec

(* The upgrade is done in the end, whatever earlier runs left behind.      *)
UpgradeEnds == installed = Latest ~> [](file.version = Latest)
=============================================================================
