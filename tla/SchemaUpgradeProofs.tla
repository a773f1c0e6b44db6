-------------------------- MODULE SchemaUpgradeProofs --------------------------
(***************************************************************************)
(* What holds of flux account-update-db whatever the versions, tables,     *)
(* columns and rows are, and however many runs and other programs there    *)
(* are.  First the types, then that the version tells the schema, then     *)
(* that the upgrade implements AtomicUpgrade.                              *)
(***************************************************************************)
EXTENDS SchemaUpgrade, TLAPS

---------------------------------------------------------------------------
(* Statements: each takes a database to a database, and this is what it    *)
(* does to the columns of the tables, the rows and the values.             *)

LEMMA CreateTableIs ==
  ASSUME NEW d \in Database, NEW t \in Tables, NEW cols \in SUBSET Columns,
         NEW e, e = CreateTable(d, t, cols)
  PROVE  /\ e \in Database
         /\ \A s \in Tables : e.cols[s] = IF s = t /\ d.cols[s] = {} THEN cols ELSE d.cols[s]
         /\ e.version = d.version /\ e.tmp = d.tmp /\ e.rows = d.rows
         /\ e.data = d.data /\ e.periods = d.periods
BY DEF CreateTable, Database

LEMMA CreateTmpIs ==
  ASSUME NEW d \in Database, NEW t \in Tables, NEW cols \in SUBSET Columns,
         NEW e, e = CreateTmp(d, t, cols)
  PROVE  /\ e \in Database
         /\ \A s \in Tables : e.tmp[s] = IF s = t /\ d.tmp[s] = {} THEN cols ELSE d.tmp[s]
         /\ e.version = d.version /\ e.cols = d.cols /\ e.rows = d.rows
         /\ e.data = d.data /\ e.periods = d.periods
BY DEF CreateTmp, Database

ColumnAdded(d, e, t, c) ==
  /\ e \in Database
  /\ \A s \in Tables : e.cols[s] = IF s = t THEN d.cols[s] \cup {c} ELSE d.cols[s]
  /\ e.version = d.version /\ e.tmp = d.tmp /\ e.rows = d.rows /\ e.periods = d.periods
  /\ \A s \in Tables, k \in Keys, x \in Columns :
       e.data[s][k][x] = IF s = t /\ x = c
                           THEN IF k \in d.rows[t] THEN Default ELSE NoValue
                           ELSE d.data[s][k][x]

LEMMA WithColumnIs ==
  ASSUME NEW d \in Database, NEW t \in Tables, NEW c \in Columns
  PROVE  ColumnAdded(d, WithColumn(d, t, c), t, c)
<1> DEFINE column(k) == IF k \in d.rows[t] THEN Default ELSE NoValue
           table == [k \in Keys |-> [d.data[t][k] EXCEPT ![c] = column(k)]]
           data == [d.data EXCEPT ![t] = table]
           cols == [d.cols EXCEPT ![t] = @ \cup {c}]
           e == WithColumn(d, t, c)
<1>1. table \in [Keys -> [Columns -> Stored]]
  BY UpgradeAssumption DEF Database, Stored
<1>2. data \in [Tables -> [Keys -> [Columns -> Stored]]] /\ cols \in [Tables -> SUBSET Columns]
  BY <1>1 DEF Database
<1>3. e = [d EXCEPT !.cols = cols, !.data = data]
  BY DEF WithColumn, Database
<1> HIDE DEF e
<1>4. \A s \in Tables, k \in Keys, x \in Columns :
        data[s][k][x] = IF s = t /\ x = c THEN column(k) ELSE d.data[s][k][x]
  BY DEF Database
<1> HIDE DEF data, cols
<1>5. e \in Database /\ e.cols = cols /\ e.data = data /\ e.tmp = d.tmp /\ e.rows = d.rows
      /\ e.version = d.version /\ e.periods = d.periods
  BY <1>2, <1>3 DEF Database
<1>6. \A s \in Tables : cols[s] = IF s = t THEN d.cols[s] \cup {c} ELSE d.cols[s]
  BY DEF cols, Database
<1>7. ColumnAdded(d, e, t, c)
  BY <1>4, <1>5, <1>6 DEF ColumnAdded
<1> QED BY <1>7 DEF e

LEMMA RebuiltIs ==
  ASSUME NEW d \in Database, NEW t \in Tables, NEW kept \in SUBSET Columns,
         NEW e, e = Rebuilt(d, t, kept)
  PROVE  /\ e \in Database
         /\ \A s \in Tables : e.cols[s] = IF s = t THEN d.tmp[s] ELSE d.cols[s]
         /\ \A s \in Tables : e.tmp[s] = IF s = t THEN {} ELSE d.tmp[s]
         /\ e.version = d.version /\ e.rows = d.rows /\ e.periods = d.periods
         /\ \A s \in Tables, k \in Keys, x \in Columns :
              e.data[s][k][x] = IF s # t THEN d.data[s][k][x]
                                ELSE IF k \notin d.rows[t] \/ x \notin d.tmp[t] THEN NoValue
                                ELSE IF x \in kept THEN d.data[s][k][x] ELSE Default
<1> DEFINE cell(k, x) == IF k \notin d.rows[t] \/ x \notin d.tmp[t] THEN NoValue
                         ELSE IF x \in kept THEN d.data[t][k][x] ELSE Default
           table == [k \in Keys |-> [c \in Columns |-> cell(k, c)]]
           data == [d.data EXCEPT ![t] = table]
           cols == [d.cols EXCEPT ![t] = d.tmp[t]]
           tmp == [d.tmp EXCEPT ![t] = {}]
<1>1. table \in [Keys -> [Columns -> Stored]]
  BY UpgradeAssumption DEF Database, Stored
<1>2. /\ data \in [Tables -> [Keys -> [Columns -> Stored]]]
      /\ cols \in [Tables -> SUBSET Columns] /\ tmp \in [Tables -> SUBSET Columns]
  BY <1>1 DEF Database
<1>3. e = [d EXCEPT !.cols = cols, !.tmp = tmp, !.data = data]
  BY DEF Rebuilt, Database
<1>4. \A s \in Tables, k \in Keys, x \in Columns :
        data[s][k][x] = IF s # t THEN d.data[s][k][x] ELSE cell(k, x)
  BY DEF Database
<1> HIDE DEF data, cols, tmp
<1>5. /\ e \in Database /\ e.cols = cols /\ e.data = data /\ e.tmp = tmp
      /\ e.rows = d.rows /\ e.version = d.version /\ e.periods = d.periods
  BY <1>2, <1>3 DEF Database
<1> QED BY <1>4, <1>5 DEF cols, tmp, Database

LEMMA WithPeriodsIs ==
  ASSUME NEW d \in Database, NEW usage \in Usages,
         NEW e, e = WithPeriods(d, usage)
  PROVE  /\ e \in Database
         /\ e.version = d.version /\ e.cols = d.cols /\ e.tmp = d.tmp /\ e.rows = d.rows
         /\ e.data = d.data
         /\ \A k \in Keys, b \in Bins :
              e.periods[k][b] = IF d.periods[k][b] = NoValue THEN usage[k][b]
                                ELSE d.periods[k][b]
<1> DEFINE periods == [k \in Keys |-> [b \in Bins |->
                         IF d.periods[k][b] = NoValue THEN usage[k][b] ELSE d.periods[k][b]]]
<1>1. periods \in [Keys -> [Bins -> Stored]]
  BY DEF Database, Usages
<1>2. e = [d EXCEPT !.periods = periods]
  BY DEF WithPeriods, Database
<1>3. \A k \in Keys, b \in Bins :
        periods[k][b] = IF d.periods[k][b] = NoValue THEN usage[k][b] ELSE d.periods[k][b]
  OBVIOUS
<1> HIDE DEF periods
<1>4. /\ e \in Database /\ e.periods = periods
      /\ e.version = d.version /\ e.cols = d.cols /\ e.tmp = d.tmp /\ e.rows = d.rows
      /\ e.data = d.data
  BY <1>1, <1>2 DEF Database
<1> QED BY <1>3, <1>4

Initialized(d, v) == [WithEntries(d) EXCEPT !.version = v]

LEMMA WithEntriesIs ==
  ASSUME NEW d \in Database, NEW v \in Versions,
         NEW e, e = Initialized(d, v)
  PROVE  /\ e \in Database
         /\ e.version = v /\ e.cols = d.cols /\ e.tmp = d.tmp /\ e.periods = d.periods
         /\ \A s \in Tables : e.rows[s] = d.rows[s] \cup Entries[s]
         /\ \A s \in Tables, k \in Keys, x \in Columns :
              e.data[s][k][x] = IF k \notin Entries[s] \ d.rows[s] THEN d.data[s][k][x]
                                ELSE IF x \in d.cols[s] THEN Default ELSE NoValue
<1> DEFINE new(s) == [c \in Columns |-> IF c \in d.cols[s] THEN Default ELSE NoValue]
           rows == [t \in Tables |-> d.rows[t] \cup Entries[t]]
           data == [t \in Tables |-> [k \in Keys |->
                      IF k \in Entries[t] \ d.rows[t] THEN new(t) ELSE d.data[t][k]]]
<1>1. rows \in [Tables -> SUBSET Keys]
  BY UpgradeAssumption DEF Database
<1>2. \A t \in Tables : new(t) \in [Columns -> Stored]
  BY UpgradeAssumption DEF Stored
<1>3. data \in [Tables -> [Keys -> [Columns -> Stored]]]
  BY <1>2 DEF Database
<1>4. WithEntries(d) = [d EXCEPT !.rows = rows, !.data = data]
  BY DEF WithEntries, Database
<1>5. \A s \in Tables, k \in Keys, x \in Columns :
        data[s][k][x] = IF k \notin Entries[s] \ d.rows[s] THEN d.data[s][k][x]
                        ELSE IF x \in d.cols[s] THEN Default ELSE NoValue
  OBVIOUS
<1> DEFINE w == WithEntries(d)
<1> HIDE DEF data, w
<1>6. /\ w \in Database /\ w.cols = d.cols /\ w.data = data /\ w.tmp = d.tmp
      /\ w.rows = rows /\ w.version = d.version /\ w.periods = d.periods
  <2> HIDE DEF rows
  <2> QED BY <1>1, <1>3, <1>4 DEF w, Database
<1>7. /\ e \in Database /\ e.cols = d.cols /\ e.data = data /\ e.tmp = d.tmp
      /\ e.rows = rows /\ e.version = v /\ e.periods = d.periods
  BY <1>6 DEF w, Database, Initialized
<1> QED BY <1>5, <1>7

LEMMA UsageReadIs ==
  ASSUME NEW d \in Database
  PROVE  /\ UsageRead(d) \in Usages
         /\ \A k \in Keys, b \in Bins :
              UsageRead(d)[k][b] = IF b \in d.cols[FactorTable] /\ k \in d.rows[FactorTable]
                                     THEN d.data[FactorTable][k][b] ELSE NoValue
BY UpgradeAssumption DEF UsageRead, Usages, Database, Stored

(* The writes of the other programs.                                       *)
WithCell(d, t, k, c, v) == [d EXCEPT !.data[t][k][c] = v]
WithPeriod(d, k, b, v) == [d EXCEPT !.periods[k][b] = v]

LEMMA DataStored ==
  ASSUME NEW d \in Database, NEW v \in Values,
         NEW t \in Tables, NEW k \in Keys, NEW c \in Columns,
         NEW e, e = WithCell(d, t, k, c, v)
  PROVE  /\ e \in Database
         /\ e.version = d.version /\ e.cols = d.cols /\ e.tmp = d.tmp
         /\ e.rows = d.rows /\ e.periods = d.periods
         /\ \A s \in Tables, j \in Keys, x \in Columns :
              e.data[s][j][x] = IF s = t /\ j = k /\ x = c THEN v ELSE d.data[s][j][x]
<1> DEFINE table == [d.data[t] EXCEPT ![k] = [d.data[t][k] EXCEPT ![c] = v]]
           data == [d.data EXCEPT ![t] = table]
<1>1. table \in [Keys -> [Columns -> Stored]]
  BY DEF Database, Stored
<1>2. data \in [Tables -> [Keys -> [Columns -> Stored]]]
  BY <1>1 DEF Database
<1>3. e = [d EXCEPT !.data = data]
  BY DEF Database, WithCell
<1>4. \A s \in Tables, j \in Keys, x \in Columns :
        data[s][j][x] = IF s = t /\ j = k /\ x = c THEN v ELSE d.data[s][j][x]
  BY DEF Database
<1> HIDE DEF data
<1>5. /\ e \in Database /\ e.data = data /\ e.periods = d.periods
      /\ e.version = d.version /\ e.cols = d.cols /\ e.tmp = d.tmp /\ e.rows = d.rows
  BY <1>2, <1>3 DEF Database
<1> QED BY <1>4, <1>5

LEMMA PeriodStored ==
  ASSUME NEW d \in Database, NEW v \in Values, NEW k \in Keys, NEW b \in Bins,
         NEW e, e = WithPeriod(d, k, b, v)
  PROVE  /\ e \in Database
         /\ e.version = d.version /\ e.cols = d.cols /\ e.tmp = d.tmp
         /\ e.rows = d.rows /\ e.data = d.data
         /\ \A j \in Keys, x \in Bins :
              e.periods[j][x] = IF j = k /\ x = b THEN v ELSE d.periods[j][x]
BY DEF Database, Stored, WithPeriod

---------------------------------------------------------------------------
(* Types. *)

LEMMA ViewType ==
  ASSUME TypeOK, NEW p \in Updaters
  PROVE  View(p) \in Database
BY DEF TypeOK, View

LEMMA NewDatabase ==
  ASSUME NEW v \in Versions
  PROVE  TablesOf(create_db(v)) = {t \in Tables : Schema[v][t] # {}}
BY DEF TablesOf, create_db

LEMMA InitTypes == Init => TypeOK
<1> SUFFICES ASSUME Init PROVE TypeOK
  OBVIOUS
<1>1. PICK rows \in OldRows, v \in Values : file = OldDatabase(rows, v)
  BY DEF Init
<1>2. rows \in [Tables -> SUBSET Keys] /\ 1 \in Versions
  BY UpgradeAssumption DEF Versions
<1>3. Schema[1] \in [Tables -> SUBSET Columns]
  BY <1>2, UpgradeAssumption
<1>4. Filled(Schema[1], rows, v) \in [Tables -> [Keys -> [Columns -> Stored]]]
  BY DEF Filled, Stored
<1>5. NoPeriods \in Usages
  BY DEF NoPeriods, Usages, Stored
<1>6. file \in Database
  BY <1>1, <1>2, <1>3, <1>4, <1>5 DEF OldDatabase, Database, Usages
<1> QED
  BY <1>2, <1>5, <1>6, UpgradeAssumption DEF Init, TypeOK, Labels, Task

(* One table in update_columns. *)
LEMMA UpdateColumnsIs ==
  ASSUME NEW p \in Updaters, update_columns(p)
  PROVE  \E t \in First(plan[p]) :
           /\ plan' = [plan EXCEPT ![p] = @ \ {t}]
           /\ LET old == View(p).cols[t]
                  new == Schema[target[p]][t]
              IN \/ /\ old \ new # {} /\ Goto(p, "tmp")
                    /\ task' = [task EXCEPT ![p] = [table |-> t, columns |-> old \cap new]]
                 \/ /\ old \ new = {} /\ new \ old # {} /\ Goto(p, "add")
                    /\ task' = [task EXCEPT ![p] = [table |-> t, columns |-> new \ old]]
                 \/ old = new /\ UNCHANGED <<pc, task>>
<1>1. PICK t \in First(plan[p]) :
        LET old == View(p).cols[t]
            new == Schema[target[p]][t]
            Change(label, columns) ==
              /\ Goto(p, label)
              /\ task' = [task EXCEPT ![p] = [table |-> t, columns |-> columns]]
        IN /\ plan' = [plan EXCEPT ![p] = @ \ {t}]
           /\ \/ old \ new # {} /\ Change("tmp", old \cap new)
              \/ old \ new = {} /\ new \ old # {} /\ Change("add", new \ old)
              \/ old = new /\ UNCHANGED <<pc, task>>
  BY DEF update_columns
<1> QED BY <1>1

(* A run's own steps. *)
LEMMA StatementKeepsTypes ==
  ASSUME TypeOK, NEW p \in Updaters, NEW d \in Database
  PROVE  /\ Alter(p, d) => file' \in Database /\ work' \in Database
                           /\ holder' \in Updaters \cup {Nobody}
         /\ Insert(p, d) => file' \in Database /\ work' \in Database
                            /\ holder' \in Updaters \cup {Nobody}
         /\ RollBack(p) => file' \in Database /\ work' \in Database
                            /\ holder' \in Updaters \cup {Nobody}
BY DEF TypeOK, Alter, Insert, RollBack, NoStatement

LEMMA StepKeepsTypes ==
  ASSUME TypeOK, NEW p \in Updaters, Step(p)
  PROVE  TypeOK'
<1> USE UpgradeAssumption
<1>a. View(p) \in Database /\ target[p] \in Versions
  BY ViewType DEF TypeOK
<1>b. \A t \in Tables : Schema[target[p]][t] \in SUBSET Columns
  BY <1>a
<1>c. \A label \in Labels : Goto(p, label) => pc' \in [Updaters -> Labels]
  BY DEF TypeOK, Goto
<1>d. TablesOf(create_db(target[p])) \in SUBSET Tables
  BY DEF TablesOf
<1>e. NoPeriods \in Usages /\ UsageRead(View(p)) \in Usages
  BY <1>a, UsageReadIs DEF NoPeriods, Usages, Stored
<1>f. \A t \in First(plan[p]) : t \in Tables
  BY DEF First, TypeOK
<1>1. CASE update_tables(p)
  <2>1. PICK t \in First(plan[p]) :
          /\ Alter(p, CreateTable(View(p), t, Schema[target[p]][t]))
          /\ plan' = [plan EXCEPT ![p] = @ \ {t}]
    BY <1>1 DEF update_tables
  <2>2. CreateTable(View(p), t, Schema[target[p]][t]) \in Database
    BY <1>a, <1>b, <1>f, CreateTableIs
  <2> QED BY <1>1, <2>1, <2>2, StatementKeepsTypes DEF update_tables, Running, TypeOK
<1>2. CASE ReadUsage(p)
  BY <1>2, <1>c, <1>e DEF ReadUsage, Running, NoStatement, TypeOK, Labels
<1>3. CASE migrate_job_usage_to_per_assoc(p)
  <2>1. WithPeriods(View(p), read[p]) \in Database
    BY <1>a, WithPeriodsIs DEF TypeOK
  <2> QED BY <1>3, <1>c, <1>d, <1>e, <2>1, StatementKeepsTypes
      DEF migrate_job_usage_to_per_assoc, Running, NoStatement, TypeOK, Labels
<1>4. CASE update_columns(p)
  <2>1. PICK t \in First(plan[p]), columns \in SUBSET Columns :
          /\ plan' = [plan EXCEPT ![p] = @ \ {t}]
          /\ \/ (Goto(p, "tmp") \/ Goto(p, "add"))
                  /\ task' = [task EXCEPT ![p] = [table |-> t, columns |-> columns]]
             \/ UNCHANGED <<pc, task>>
    <3>1. PICK t \in First(plan[p]) :
            /\ plan' = [plan EXCEPT ![p] = @ \ {t}]
            /\ LET old == View(p).cols[t]
                   new == Schema[target[p]][t]
               IN \/ /\ old \ new # {} /\ Goto(p, "tmp")
                     /\ task' = [task EXCEPT ![p] = [table |-> t, columns |-> old \cap new]]
                  \/ /\ old \ new = {} /\ new \ old # {} /\ Goto(p, "add")
                     /\ task' = [task EXCEPT ![p] = [table |-> t, columns |-> new \ old]]
                  \/ old = new /\ UNCHANGED <<pc, task>>
      BY <1>4, UpdateColumnsIs
    <3>2. Schema[target[p]][t] \in SUBSET Columns
      BY <1>b, <1>f
    <3> QED BY <3>1, <3>2
  <2>2. [table |-> t, columns |-> columns] \in Task
    BY <1>f DEF Task
  <2>3. pc' \in [Updaters -> Labels]
    BY <1>c, <2>1 DEF TypeOK, Labels
  <2>4. task' \in [Updaters -> Task]
    BY <2>1, <2>2 DEF TypeOK
  <2>5. plan' \in [Updaters -> SUBSET Tables]
    BY <2>1 DEF TypeOK
  <2> QED BY <1>4, <2>3, <2>4, <2>5 DEF update_columns, Running, NoStatement, TypeOK
<1>5. CASE add_tmp_table_to_db(p)
  <2>1. task[p].table \in Tables
    BY DEF TypeOK, Task
  <2>2. CreateTmp(View(p), task[p].table, Schema[target[p]][task[p].table]) \in Database
    BY <1>a, <1>b, <2>1, CreateTmpIs
  <2> QED BY <1>5, <1>c, <2>2, StatementKeepsTypes
      DEF add_tmp_table_to_db, Running, TypeOK, Labels
<1>6. CASE move_existing_rows(p)
  <2>1. task[p].table \in Tables /\ task[p].columns \in SUBSET Columns
    BY DEF TypeOK, Task
  <2>2. Rebuilt(View(p), task[p].table, task[p].columns) \in Database
    BY <1>a, <2>1, RebuiltIs
  <2> QED BY <1>6, <1>c, <2>2, StatementKeepsTypes DEF move_existing_rows, Running, TypeOK, Labels
<1>7. CASE add_columns(p)
  <2>1. task[p].table \in Tables /\ task[p].columns \in SUBSET Columns
    BY DEF TypeOK, Task
  <2>2. PICK c \in task[p].columns :
          /\ Alter(p, WithColumn(View(p), task[p].table, c))
          /\ task' = [task EXCEPT ![p].columns = @ \ {c}]
          /\ IF task[p].columns = {c} THEN Goto(p, "columns") ELSE UNCHANGED pc
    BY <1>7 DEF add_columns
  <2>3. WithColumn(View(p), task[p].table, c) \in Database
    BY <1>a, <2>1, WithColumnIs DEF ColumnAdded
  <2>4. task' \in [Updaters -> Task]
    BY <2>1, <2>2 DEF TypeOK, Task
  <2> QED BY <1>7, <1>c, <2>2, <2>3, <2>4, StatementKeepsTypes
      DEF add_columns, Running, TypeOK, Labels
<1>8. CASE init_tables(p)
  <2>1. [WithEntries(View(p)) EXCEPT !.version = target[p]] \in Database
    BY <1>a, WithEntriesIs DEF Initialized
  <2> QED BY <1>8, <1>c, <2>1, StatementKeepsTypes DEF init_tables, Running, TypeOK, Labels
<1>9. CASE Commit(p)
  BY <1>9, <1>c, <1>e DEF Commit, Leave, TypeOK, Labels
<1>10. CASE GiveUp(p)
  BY <1>10, <1>c, <1>e, <1>a, StatementKeepsTypes DEF GiveUp, Leave, TypeOK, Labels
<1> QED BY <1>1, <1>2, <1>3, <1>4, <1>5, <1>6, <1>7, <1>8, <1>9, <1>10 DEF Step

LEMMA OthersKeepTypes ==
  ASSUME TypeOK,
         (\E p \in Updaters : Begin(p) \/ Abort(p)) \/ ChangeRow \/ RecordUsage \/ Install
  PROVE  TypeOK'
<1> USE UpgradeAssumption
<1>1. ASSUME NEW p \in Updaters, Begin(p) PROVE TypeOK'
  <2>1. file.version \in Versions
    BY DEF TypeOK, Database
  <2> QED BY <1>1, <2>1 DEF Begin, Goto, NoStatement, TablesOf, TypeOK, Labels
<1>2. ASSUME NEW p \in Updaters, Abort(p) PROVE TypeOK'
  <2>1. NoPeriods \in Usages
    BY DEF NoPeriods, Usages, Stored
  <2>2. file \in Database
    BY DEF TypeOK
  <2> QED BY <1>2, <2>1, <2>2, StatementKeepsTypes DEF Abort, Leave, Goto, TypeOK, Labels
<1>3. ASSUME NEW d \in Database, Store(d) PROVE TypeOK'
  BY <1>3 DEF Store, TypeOK
<1>4. CASE ChangeRow
  <2>0. PICK t \in Touched : \E k \in file.rows[t], c \in file.cols[t], v \in Values :
          Store(WithCell(file, t, k, c, v))
    BY <1>4 DEF ChangeRow, WithCell
  <2>1. PICK k \in file.rows[t], c \in file.cols[t], v \in Values :
          Store(WithCell(file, t, k, c, v))
    BY <2>0
  <2>2. file \in Database /\ t \in Tables /\ k \in Keys /\ c \in Columns
    BY DEF TypeOK, Database
  <2>3. WithCell(file, t, k, c, v) \in Database
    BY <2>2, DataStored
  <2> QED BY <1>3, <2>1, <2>3
<1>5. CASE RecordUsage
  <2>1. PICK k \in Keys, b \in Bins, v \in Values : Store(WithPeriod(file, k, b, v))
    BY <1>5 DEF RecordUsage, WithPeriod
  <2>2. WithPeriod(file, k, b, v) \in Database
    BY PeriodStored DEF TypeOK
  <2> QED BY <1>3, <2>1, <2>2
<1>6. CASE Install
  BY <1>6 DEF Install, TypeOK, Versions
<1> QED BY <1>1, <1>2, <1>4, <1>5, <1>6

(***************************************************************************)
(* Every variable of the upgrade keeps its type, for any schemas, rows and *)
(* runs: each statement of update_db.py and each write of another program  *)
(* leaves a database.                                                      *)
(***************************************************************************)
THEOREM UpgradeTypesOK == Spec => []TypeOK
<1>1. TypeOK /\ [Next]_vars => TypeOK'
  <2> SUFFICES ASSUME TypeOK, [Next]_vars PROVE TypeOK'
    OBVIOUS
  <2>1. ASSUME NEW p \in Updaters, Step(p) PROVE TypeOK'
    BY <2>1, StepKeepsTypes
  <2>2. CASE UNCHANGED vars
    BY <2>2 DEF vars, TypeOK
  <2> QED BY <2>1, <2>2, OthersKeepTypes DEF Next
<1> QED BY <1>1, InitTypes, PTL DEF Spec

---------------------------------------------------------------------------
(* The inductive invariant. *)

(* The columns of t in every version up to i, and whether one was lost.    *)
Always(t, i) == {c \in Columns : \A v \in 1..i : c \in Schema[v][t]}
Dropped(t, i) == \E v \in 1..i : Schema[v][t] \ Schema[i][t] # {}

(* What holds of the file, and of an open transaction, with version i      *)
(* installed.                                                              *)
ColumnsSound(d, i) ==
  \A t \in Tables :
    /\ Always(t, i) \subseteq d.cols[t]
    /\ \A c \in d.cols[t] : \E v \in 1..i : c \in Schema[v][t]
    /\ d.tmp[t] # {} => d.tmp[t] = Schema[i][t] /\ Dropped(t, i)
RowsSound(d) ==
  \A t \in Tables, k \in Keys, c \in Columns :
    k \notin d.rows[t] => d.data[t][k][c] = NoValue
UsageSound(d) ==
  \A k \in Keys, b \in Bins :
    /\ k \in d.rows[FactorTable] =>
         \/ b \in d.cols[FactorTable] /\ d.data[FactorTable][k][b] # NoValue
         \/ d.periods[k][b] # NoValue
    /\ b \in d.cols[FactorTable] /\ d.periods[k][b] # NoValue =>
         d.periods[k][b] = d.data[FactorTable][k][b]
Sound(d, i) ==
  /\ d.version <= i
  /\ ColumnsSound(d, i) /\ RowsSound(d) /\ UsageSound(d)
  /\ d.version = Latest => Complete(d)

(* What a statement of a run leaves to the other runs: tables that are on  *)
(* the way to version i get closer to it, and no usage is lost.            *)
Ahead(d, e, i) ==
  /\ e.version \in {d.version, i}
  /\ \A t \in Tables :
       /\ d.rows[t] \subseteq e.rows[t]
       /\ d.cols[t] \subseteq Schema[i][t] =>
            d.cols[t] \subseteq e.cols[t] /\ e.cols[t] \subseteq Schema[i][t]
  /\ e.rows[FactorTable] = d.rows[FactorTable]
  /\ \A k \in Keys, b \in Bins :
       /\ d.periods[k][b] # NoValue => e.periods[k][b] # NoValue
       /\ b \in e.cols[FactorTable] =>
            b \in d.cols[FactorTable] /\ e.data[FactorTable][k][b] = d.data[FactorTable][k][b]
       /\ b \in d.cols[FactorTable] \ e.cols[FactorTable] /\ d.data[FactorTable][k][b] # NoValue =>
            e.periods[k][b] # NoValue

(* The open transaction. *)
WorkSound ==
  /\ holder = Nobody => work = file
  /\ Ahead(file, work, installed)
  /\ Content(work) = Content(file)

(* What a run that has read the usage, and one that has stored it, knows.  *)
ReadSound(usage, d) ==
  \A k \in Keys, b \in Bins :
    /\ k \in d.rows[FactorTable] => usage[k][b] # NoValue \/ d.periods[k][b] # NoValue
    /\ usage[k][b] # NoValue => IF b \in d.cols[FactorTable]
                                  THEN d.data[FactorTable][k][b] = usage[k][b]
                                  ELSE d.periods[k][b] # NoValue
Migrated(d) == \A k \in d.rows[FactorTable], b \in Bins : d.periods[k][b] # NoValue

Migrating == {"columns", "tmp", "copy", "add", "commit"}
Pending(p, t) == pc[p] \in {"tmp", "copy", "add"} /\ t = task[p].table

RunSound(p) ==
  LET t == task[p].table
      new == Schema[installed][t]
  IN /\ pc[p] # "idle" => target[p] = installed
     /\ pc[p] \in {"idle", "tables", "migrate"} => holder # p
     /\ pc[p] = "migrate" => ReadSound(read[p], View(p))
     /\ pc[p] \in Migrating =>
          /\ Migrated(View(p))
          /\ \A s \in Tables :
               s \in plan[p] \/ Pending(p, s) \/ View(p).cols[s] = Schema[installed][s]
     /\ pc[p] \in {"tmp", "copy"} =>
          Dropped(t, installed) /\ Always(t, installed) \subseteq task[p].columns
     /\ pc[p] = "add" =>
          task[p].columns \subseteq new /\ View(p).cols[t] \cup task[p].columns = new
     /\ pc[p] = "commit" => holder = p /\ work.version = installed /\ Complete(work)

UpgradeInv ==
  /\ TypeOK
  /\ Sound(file, installed) /\ Sound(work, installed) /\ WorkSound
  /\ \A p \in Updaters : RunSound(p)

---------------------------------------------------------------------------
(* The history of the schema, one version at a time. *)

LEMMA VersionFacts ==
  ASSUME NEW i \in Versions
  PROVE  /\ i \in Nat /\ 1 <= i /\ i <= Latest /\ i \in 1..i
         /\ \A v \in 1..i : v \in Versions
         /\ i < Latest => i + 1 \in Versions /\ 1..(i + 1) = (1..i) \cup {i + 1}
BY UpgradeAssumption DEF Versions

LEMMA HistoryFacts ==
  ASSUME SchemaHistory, NEW i \in Versions, NEW t \in Tables
  PROVE  /\ Always(t, i) \subseteq Schema[i][t]
         /\ Bins \cap Schema[i][FactorTable] \subseteq Always(FactorTable, i)
         /\ CommonColumns(t) \subseteq Always(t, i)
         /\ Schema[i][t] = {} => \A v \in 1..i : Schema[v][t] = {}
<1> USE VersionFacts
<1>1. Always(t, i) \subseteq Schema[i][t] /\ CommonColumns(t) \subseteq Always(t, i)
  BY DEF Always, CommonColumns
<1>2. ASSUME NEW v \in 1..i PROVE v = i \/ v < i
  OBVIOUS
<1>3. Bins \cap Schema[i][FactorTable] \subseteq Always(FactorTable, i)
  BY <1>2, UpgradeAssumption DEF Always, SchemaHistory
<1>4. ASSUME Schema[i][t] = {}, NEW v \in 1..i PROVE Schema[v][t] = {}
  BY <1>2, <1>4 DEF SchemaHistory
<1> QED BY <1>1, <1>3, <1>4

(* The next version is installed. *)
LEMMA NextVersion ==
  ASSUME SchemaHistory, NEW i \in Versions, i < Latest, NEW t \in Tables
  PROVE  /\ Always(t, i + 1) \subseteq Always(t, i)
         /\ Dropped(t, i) => Schema[i + 1][t] = Schema[i][t] /\ Dropped(t, i + 1)
<1> USE VersionFacts
<1>1. Always(t, i + 1) \subseteq Always(t, i)
  BY DEF Always
<1>2. ASSUME Dropped(t, i) PROVE Schema[i + 1][t] = Schema[i][t]
  <2>1. PICK v \in 1..i : Schema[v][t] \ Schema[i][t] # {}
    BY <1>2 DEF Dropped
  <2>2. v # i /\ v \in Versions /\ v < i
    BY <2>1
  <2> QED BY <2>1, <2>2 DEF SchemaHistory
<1>3. Dropped(t, i) => Dropped(t, i + 1)
  BY <1>2 DEF Dropped
<1> QED BY <1>1, <1>2, <1>3

---------------------------------------------------------------------------
(* What is stored, cell by cell. *)

LEMMA CellFacts ==
  ASSUME NEW x \in Cells
  PROVE  /\ x = <<x[1], x[2], x[3]>> /\ x[1] \in Tables /\ x[2] \in Keys /\ x[3] \in Columns
         /\ \/ x[3] \in Bins /\ x[1] = FactorTable
            \/ x[3] \notin Bins /\ x[3] \in CommonColumns(x[1])
BY UpgradeAssumption DEF Cells

(* A table's cell and an association's usage, in a sound database.         *)
LEMMA SameContent ==
  ASSUME SchemaHistory, NEW d, NEW e, NEW i \in Versions, ColumnsSound(d, i),
         \A t \in Tables, k \in Keys : \A c \in Always(t, i) \ Bins :
           (IF k \in Entries[t] \ e.rows[t] THEN Default ELSE e.data[t][k][c]) =
           (IF k \in Entries[t] \ d.rows[t] THEN Default ELSE d.data[t][k][c]),
         \A k \in Keys, b \in Bins :
           (IF b \in e.cols[FactorTable] THEN e.data[FactorTable][k][b] ELSE e.periods[k][b]) =
           (IF b \in d.cols[FactorTable] THEN d.data[FactorTable][k][b] ELSE d.periods[k][b])
  PROVE  Content(e) = Content(d)
<1>1. ASSUME NEW x \in Cells
      PROVE  Value(e, x[1], x[2], x[3]) = Value(d, x[1], x[2], x[3])
  <2>1. CASE x[3] \in Bins /\ x[1] = FactorTable
    BY <2>1, CellFacts DEF Value, SchemaHistory
  <2>2. CASE x[3] \notin Bins /\ x[3] \in CommonColumns(x[1])
    <3>1. x[3] \in Always(x[1], i)
      BY <2>2, CellFacts, HistoryFacts
    <3> QED BY <2>2, <3>1, CellFacts DEF Value
  <2> QED BY <2>1, <2>2, CellFacts
<1> QED BY <1>1 DEF Content

---------------------------------------------------------------------------
(* A statement of a run leads from one sound database to another that is   *)
(* ahead of it and stores the same.                                        *)

Follows(d, e, i) ==
  e \in Database /\ Sound(e, i) /\ Ahead(d, e, i) /\ Content(e) = Content(d)

(* A complete database stays complete. *)
LEMMA CompleteStays ==
  ASSUME NEW i \in Versions, NEW d \in Database, NEW e \in Database,
         Ahead(d, e, i), e.version = d.version, d.version = i, Complete(d)
  PROVE  Complete(e)
<1>1. Schema[i] \in [Tables -> SUBSET Columns] /\ d.cols = Schema[i]
  BY UpgradeAssumption DEF Complete
<1>2. \A t \in Tables : e.cols[t] = Schema[i][t]
  BY <1>1 DEF Ahead
<1>3. e.cols = Schema[i]
  BY <1>1, <1>2 DEF Database
<1>4. \A t \in Tables : Entries[t] \subseteq e.rows[t]
  BY DEF Complete, Ahead
<1>5. \A k \in e.rows[FactorTable], b \in Bins : e.periods[k][b] # NoValue
  BY UpgradeAssumption DEF Complete, Ahead, Database
<1> QED BY <1>3, <1>4, <1>5 DEF Complete

(* So that a statement that leaves the version has the rest to show.       *)
LEMMA FollowsIf ==
  ASSUME NEW i \in Versions, NEW d \in Database, Sound(d, i), NEW e \in Database,
         e.version = d.version, ColumnsSound(e, i), RowsSound(e), UsageSound(e),
         Ahead(d, e, i), Content(e) = Content(d)
  PROVE  Follows(d, e, i)
<1>1. ASSUME e.version = Latest PROVE Complete(e)
  <2>1. d.version = i
    <3>1. d.version <= i /\ d.version = Latest /\ i \in Nat /\ i <= Latest
      BY <1>1, VersionFacts DEF Sound
    <3> QED BY <3>1, UpgradeAssumption
  <2> QED BY <1>1, <2>1, CompleteStays DEF Sound
<1> QED BY <1>1 DEF Follows, Sound

LEMMA CreateTableFollows ==
  ASSUME SchemaHistory, NEW i \in Versions, NEW d \in Database, Sound(d, i), NEW t \in Tables
  PROVE  Follows(d, CreateTable(d, t, Schema[i][t]), i)
<1> DEFINE e == CreateTable(d, t, Schema[i][t])
<1> HIDE DEF e
<1>0. Schema[i][t] \in SUBSET Columns
  BY UpgradeAssumption
<1>1. /\ e \in Database
      /\ \A s \in Tables : e.cols[s] = IF s = t /\ d.cols[s] = {} THEN Schema[i][t] ELSE d.cols[s]
      /\ e.version = d.version /\ e.tmp = d.tmp /\ e.rows = d.rows
      /\ e.data = d.data /\ e.periods = d.periods
  BY <1>0, CreateTableIs DEF e
<1>2. ColumnsSound(e, i)
  BY <1>1, VersionFacts DEF Sound, ColumnsSound
<1>3. \A b \in Bins : b \in e.cols[FactorTable] <=> b \in d.cols[FactorTable]
  BY <1>1, HistoryFacts, UpgradeAssumption DEF Sound, ColumnsSound
<1>4. RowsSound(e) /\ UsageSound(e)
  BY <1>1, <1>3 DEF Sound, RowsSound, UsageSound
<1>5. Ahead(d, e, i)
  BY <1>1, <1>3 DEF Ahead
<1>6. Content(e) = Content(d)
  BY <1>1, <1>3, SameContent DEF Sound
<1> QED BY <1>1, <1>2, <1>4, <1>5, <1>6, FollowsIf DEF e

LEMMA CreateTmpFollows ==
  ASSUME SchemaHistory, NEW i \in Versions, NEW d \in Database, Sound(d, i), NEW t \in Tables,
         Dropped(t, i)
  PROVE  Follows(d, CreateTmp(d, t, Schema[i][t]), i)
<1> DEFINE e == CreateTmp(d, t, Schema[i][t])
<1> HIDE DEF e
<1>0. Schema[i][t] \in SUBSET Columns
  BY UpgradeAssumption
<1>1. /\ e \in Database
      /\ \A s \in Tables : e.tmp[s] = IF s = t /\ d.tmp[s] = {} THEN Schema[i][t] ELSE d.tmp[s]
      /\ e.version = d.version /\ e.cols = d.cols /\ e.rows = d.rows
      /\ e.data = d.data /\ e.periods = d.periods
  BY <1>0, CreateTmpIs DEF e
<1>2. ColumnsSound(e, i)
  BY <1>1 DEF Sound, ColumnsSound
<1>3. RowsSound(e) /\ UsageSound(e)
  BY <1>1 DEF Sound, RowsSound, UsageSound
<1>4. Ahead(d, e, i)
  BY <1>1 DEF Ahead
<1>5. Content(e) = Content(d)
  BY <1>1, SameContent DEF Sound
<1> QED BY <1>1, <1>2, <1>3, <1>4, <1>5, FollowsIf DEF e

LEMMA WithColumnFollows ==
  ASSUME SchemaHistory, NEW i \in Versions, NEW d \in Database, Sound(d, i), NEW t \in Tables,
         NEW c \in Schema[i][t], c \notin d.cols[t]
  PROVE  /\ Follows(d, WithColumn(d, t, c), i)
         /\ WithColumn(d, t, c).cols[t] = d.cols[t] \cup {c}
<1> DEFINE e == WithColumn(d, t, c)
<1> HIDE DEF e
<1>0. c \in Columns
  BY UpgradeAssumption
<1>1. ColumnAdded(d, e, t, c)
  BY <1>0, WithColumnIs DEF e
<1> USE DEF ColumnAdded
<1>2. c \notin Always(t, i) /\ (t = FactorTable => c \notin Bins)
  BY HistoryFacts, UpgradeAssumption DEF Sound, ColumnsSound
<1>3. ColumnsSound(e, i)
  <2> SUFFICES ASSUME NEW s \in Tables
               PROVE  /\ Always(s, i) \subseteq e.cols[s]
                      /\ \A x \in e.cols[s] : \E v \in 1..i : x \in Schema[v][s]
                      /\ e.tmp[s] # {} => e.tmp[s] = Schema[i][s] /\ Dropped(s, i)
    BY DEF ColumnsSound
  <2>1. /\ Always(s, i) \subseteq d.cols[s]
        /\ \A x \in d.cols[s] : \E v \in 1..i : x \in Schema[v][s]
        /\ d.tmp[s] # {} => d.tmp[s] = Schema[i][s] /\ Dropped(s, i)
    BY DEF Sound, ColumnsSound
  <2>2. CASE s = t
    <3>1. e.cols[s] = d.cols[s] \cup {c} /\ i \in 1..i /\ c \in Schema[i][s]
      BY <1>1, <2>2, VersionFacts
    <3> QED BY <1>1, <2>1, <3>1
  <2>3. CASE s # t
    BY <1>1, <2>1, <2>3
  <2> QED BY <2>2, <2>3
<1>4. /\ \A b \in Bins : b \in e.cols[FactorTable] <=> b \in d.cols[FactorTable]
      /\ \A k \in Keys, b \in Bins : e.data[FactorTable][k][b] = d.data[FactorTable][k][b]
  <2> SUFFICES ASSUME NEW b \in Bins
               PROVE  /\ b \in e.cols[FactorTable] <=> b \in d.cols[FactorTable]
                      /\ \A k \in Keys : e.data[FactorTable][k][b] = d.data[FactorTable][k][b]
    OBVIOUS
  <2>1. ~(FactorTable = t /\ b = c) /\ FactorTable \in Tables /\ b \in Columns
    BY <1>2, UpgradeAssumption
  <2>2. e.cols[FactorTable] = IF FactorTable = t THEN d.cols[FactorTable] \cup {c}
                              ELSE d.cols[FactorTable]
    BY <1>1, <2>1
  <2> QED BY <1>1, <2>1, <2>2
<1>5. RowsSound(e)
  BY <1>1 DEF Sound, RowsSound
<1>5a. UsageSound(e)
  BY <1>1, <1>4, UpgradeAssumption DEF Sound, UsageSound
<1>6. Ahead(d, e, i)
  <2>1. ASSUME NEW s \in Tables, d.cols[s] \subseteq Schema[i][s]
        PROVE  d.cols[s] \subseteq e.cols[s] /\ e.cols[s] \subseteq Schema[i][s]
    BY <1>1, <2>1
  <2> QED BY <1>1, <1>4, <2>1 DEF Ahead
<1>7. \A s \in Tables, k \in Keys : \A x \in Always(s, i) : e.data[s][k][x] = d.data[s][k][x]
  BY <1>1, <1>2 DEF Always
<1>8. Content(e) = Content(d)
  BY <1>1, <1>4, <1>7, SameContent DEF Sound
<1> QED BY <1>1, <1>3, <1>5, <1>5a, <1>6, <1>8, FollowsIf DEF e

(* The usage has been stored when a table is built anew.                   *)
LEMMA RebuiltFollows ==
  ASSUME SchemaHistory, NEW i \in Versions, NEW d \in Database, Sound(d, i), NEW t \in Tables,
         NEW kept \in SUBSET Columns, Always(t, i) \subseteq kept, d.tmp[t] # {}, Migrated(d)
  PROVE  /\ Follows(d, Rebuilt(d, t, kept), i)
         /\ Rebuilt(d, t, kept).cols[t] = Schema[i][t]
<1> DEFINE e == Rebuilt(d, t, kept)
<1> HIDE DEF e
<1> USE DEF Sound
<1>1. /\ e \in Database
      /\ \A s \in Tables : e.cols[s] = IF s = t THEN d.tmp[s] ELSE d.cols[s]
      /\ \A s \in Tables : e.tmp[s] = IF s = t THEN {} ELSE d.tmp[s]
      /\ e.version = d.version /\ e.rows = d.rows /\ e.periods = d.periods
      /\ \A s \in Tables, k \in Keys, x \in Columns :
           e.data[s][k][x] = IF s # t THEN d.data[s][k][x]
                             ELSE IF k \notin d.rows[t] \/ x \notin d.tmp[t] THEN NoValue
                             ELSE IF x \in kept THEN d.data[s][k][x] ELSE Default
  BY RebuiltIs DEF e
<1>2. d.tmp[t] = Schema[i][t]
  BY DEF ColumnsSound
<1>3. ColumnsSound(e, i)
  BY <1>1, <1>2, HistoryFacts, VersionFacts DEF ColumnsSound
<1>4. \A s \in Tables, k \in Keys : \A x \in Always(s, i) : e.data[s][k][x] = d.data[s][k][x]
  BY <1>1, <1>2, HistoryFacts DEF Always, RowsSound
<1>5. RowsSound(e)
  BY <1>1 DEF RowsSound
<1>6. \A b \in Bins : b \in e.cols[FactorTable] =>
        /\ b \in d.cols[FactorTable]
        /\ \A k \in Keys : e.data[FactorTable][k][b] = d.data[FactorTable][k][b]
  <2>1. CASE t = FactorTable
    <3>1. \A b \in Bins : b \in e.cols[FactorTable] =>
            b \in Always(FactorTable, i) /\ b \in d.cols[FactorTable]
      BY <1>1, <1>2, <2>1, HistoryFacts DEF ColumnsSound
    <3> QED BY <1>4, <2>1, <3>1
  <2>2. CASE t # FactorTable
    <3>1. FactorTable \in Tables /\ Bins \subseteq Columns
      BY UpgradeAssumption
    <3> QED BY <1>1, <2>2, <3>1
  <2> QED BY <2>1, <2>2
<1>7. UsageSound(e)
  BY <1>1, <1>4, <1>6, UpgradeAssumption DEF UsageSound, Migrated
<1>8. Ahead(d, e, i)
  <2>1. \A b \in Bins : b \in e.cols[FactorTable] =>
          \A k \in Keys : e.data[FactorTable][k][b] = d.data[FactorTable][k][b]
    BY <1>4, <1>6, UpgradeAssumption
  <2>2. \A k \in Keys, b \in Bins : d.data[FactorTable][k][b] # NoValue => e.periods[k][b] # NoValue
    BY <1>1, UpgradeAssumption DEF Migrated, RowsSound
  <2> QED BY <1>1, <1>2, <1>6, <2>1, <2>2 DEF Ahead
<1>9. Content(e) = Content(d)
  <2>1. ASSUME NEW k \in Keys, NEW b \in Bins
        PROVE  (IF b \in e.cols[FactorTable] THEN e.data[FactorTable][k][b] ELSE e.periods[k][b]) =
               (IF b \in d.cols[FactorTable] THEN d.data[FactorTable][k][b] ELSE d.periods[k][b])
    <3>1. CASE b \in e.cols[FactorTable]
      BY <1>4, <1>6, <3>1, UpgradeAssumption
    <3>2. CASE b \notin e.cols[FactorTable] /\ b \in d.cols[FactorTable] /\ k \in d.rows[FactorTable]
      BY <1>1, <3>2 DEF Migrated, UsageSound
    <3>3. CASE b \notin e.cols[FactorTable] /\ b \in d.cols[FactorTable] /\ k \notin d.rows[FactorTable]
      BY <1>1, <3>3, UpgradeAssumption DEF RowsSound, UsageSound
    <3>4. CASE b \notin e.cols[FactorTable] /\ b \notin d.cols[FactorTable]
      BY <1>1, <3>4
    <3> QED BY <3>1, <3>2, <3>3, <3>4
  <2> QED BY <1>1, <1>4, <2>1, SameContent
<1> QED BY <1>1, <1>2, <1>3, <1>5, <1>7, <1>8, <1>9, FollowsIf DEF e

LEMMA WithPeriodsFollows ==
  ASSUME SchemaHistory, NEW i \in Versions, NEW d \in Database, Sound(d, i),
         NEW usage \in Usages, ReadSound(usage, d)
  PROVE  Follows(d, WithPeriods(d, usage), i) /\ Migrated(WithPeriods(d, usage))
<1> DEFINE e == WithPeriods(d, usage)
<1> HIDE DEF e
<1> USE DEF Sound
<1>1. /\ e \in Database
      /\ e.version = d.version /\ e.cols = d.cols /\ e.tmp = d.tmp /\ e.rows = d.rows
      /\ e.data = d.data
      /\ \A k \in Keys, b \in Bins :
           e.periods[k][b] = IF d.periods[k][b] = NoValue THEN usage[k][b]
                             ELSE d.periods[k][b]
  BY WithPeriodsIs DEF e
<1>2. ColumnsSound(e, i) /\ RowsSound(e)
  BY <1>1 DEF ColumnsSound, RowsSound
<1>3. UsageSound(e)
  BY <1>1 DEF UsageSound, ReadSound
<1>4. Migrated(e)
  BY <1>1, UpgradeAssumption DEF Migrated, ReadSound, Database
<1>5. Ahead(d, e, i)
  BY <1>1 DEF Ahead
<1>6. Content(e) = Content(d)
  BY <1>1, SameContent DEF ReadSound
<1> QED BY <1>1, <1>2, <1>3, <1>4, <1>5, <1>6, FollowsIf DEF e

(* Without a usage to store there is no statement. *)
LEMMA NothingToMigrate ==
  ASSUME NEW d \in Database, ReadSound(NoPeriods, d)
  PROVE  Migrated(d)
BY UpgradeAssumption DEF ReadSound, NoPeriods, Migrated, Database

LEMMA WithEntriesFollows ==
  ASSUME SchemaHistory, NEW i \in Versions, NEW d \in Database, Sound(d, i),
         \A t \in Tables : d.cols[t] = Schema[i][t], Migrated(d),
         NEW e, e = Initialized(d, i)
  PROVE  Follows(d, e, i) /\ e.version = i /\ Complete(e)
<1> USE DEF Sound
<1>1. /\ e \in Database
      /\ e.version = i /\ e.cols = d.cols /\ e.tmp = d.tmp /\ e.periods = d.periods
      /\ \A s \in Tables : e.rows[s] = d.rows[s] \cup Entries[s]
      /\ \A s \in Tables, k \in Keys, x \in Columns :
           e.data[s][k][x] = IF k \notin Entries[s] \ d.rows[s] THEN d.data[s][k][x]
                             ELSE IF x \in d.cols[s] THEN Default ELSE NoValue
  BY WithEntriesIs
<1>2. /\ e.rows[FactorTable] = d.rows[FactorTable]
      /\ \A k \in Keys, x \in Columns : e.data[FactorTable][k][x] = d.data[FactorTable][k][x]
  <2>1. Entries[FactorTable] = {} /\ FactorTable \in Tables
    BY UpgradeAssumption DEF SchemaHistory
  <2>2. e.rows[FactorTable] = d.rows[FactorTable] \cup Entries[FactorTable]
    BY <1>1, <2>1
  <2> QED BY <1>1, <2>1, <2>2
<1>4. ColumnsSound(e, i) /\ RowsSound(e)
  BY <1>1 DEF ColumnsSound, RowsSound
<1>5. UsageSound(e)
  BY <1>1, <1>2, UpgradeAssumption DEF UsageSound
<1>6. Complete(e)
  <2>1. e.cols = Schema[i]
    BY <1>1, UpgradeAssumption DEF Database
  <2> QED BY <1>1, <1>2, <2>1 DEF Complete, Migrated
<1>7. Ahead(d, e, i)
  BY <1>1, <1>2, UpgradeAssumption DEF Ahead
<1>8. Content(e) = Content(d)
  <2>1. \A t \in Tables, k \in Keys : \A c \in Always(t, i) \ Bins :
          (IF k \in Entries[t] \ e.rows[t] THEN Default ELSE e.data[t][k][c]) =
          (IF k \in Entries[t] \ d.rows[t] THEN Default ELSE d.data[t][k][c])
    BY <1>1 DEF ColumnsSound, Always
  <2> QED BY <1>1, <1>2, <2>1, SameContent, UpgradeAssumption
<1> QED BY <1>1, <1>4, <1>5, <1>6, <1>7, <1>8, VersionFacts DEF Follows

---------------------------------------------------------------------------
(* What a run knows of the database stays true as the database gets ahead. *)

LEMMA AheadSame ==
  ASSUME NEW i, NEW d
  PROVE  Ahead(d, d, i)
BY DEF Ahead

LEMMA AheadTransitive ==
  ASSUME NEW i, NEW d, NEW e, NEW f, Ahead(d, e, i), Ahead(e, f, i)
  PROVE  Ahead(d, f, i)
<1>1. ASSUME NEW t \in Tables
      PROVE  /\ d.rows[t] \subseteq f.rows[t]
             /\ d.cols[t] \subseteq Schema[i][t] =>
                  d.cols[t] \subseteq f.cols[t] /\ f.cols[t] \subseteq Schema[i][t]
  BY DEF Ahead
<1>2. ASSUME NEW k \in Keys, NEW b \in Bins
      PROVE  /\ d.periods[k][b] # NoValue => f.periods[k][b] # NoValue
             /\ b \in f.cols[FactorTable] =>
                  b \in d.cols[FactorTable] /\ f.data[FactorTable][k][b] = d.data[FactorTable][k][b]
             /\ b \in d.cols[FactorTable] \ f.cols[FactorTable] /\ d.data[FactorTable][k][b] # NoValue =>
                  f.periods[k][b] # NoValue
  BY DEF Ahead
<1> QED BY <1>1, <1>2 DEF Ahead

LEMMA KnownStays ==
  ASSUME NEW i \in Versions, NEW d \in Database, NEW e \in Database, Ahead(d, e, i)
  PROVE  /\ Migrated(d) => Migrated(e)
         /\ \A s \in Tables : d.cols[s] = Schema[i][s] => e.cols[s] = Schema[i][s]
         /\ \A usage : ReadSound(usage, d) => ReadSound(usage, e)
         /\ \A s \in Tables : \A columns : columns \subseteq Schema[i][s] /\ d.cols[s] \cup columns = Schema[i][s] =>
              e.cols[s] \cup columns = Schema[i][s]
<1>1. Migrated(d) => Migrated(e)
  BY UpgradeAssumption DEF Ahead, Migrated, Database
<1>2. \A s \in Tables : d.cols[s] \subseteq Schema[i][s] =>
        d.cols[s] \subseteq e.cols[s] /\ e.cols[s] \subseteq Schema[i][s]
  BY DEF Ahead
<1>3. ASSUME NEW usage, ReadSound(usage, d)
      PROVE  ReadSound(usage, e)
  <2> SUFFICES ASSUME NEW k \in Keys, NEW b \in Bins
               PROVE  /\ k \in e.rows[FactorTable] => usage[k][b] # NoValue \/ e.periods[k][b] # NoValue
                      /\ usage[k][b] # NoValue => IF b \in e.cols[FactorTable]
                                                    THEN e.data[FactorTable][k][b] = usage[k][b]
                                                    ELSE e.periods[k][b] # NoValue
    BY DEF ReadSound
  <2> QED BY <1>3 DEF ReadSound, Ahead
<1>4. ASSUME NEW s \in Tables, NEW columns, columns \subseteq Schema[i][s],
             d.cols[s] \cup columns = Schema[i][s]
      PROVE  e.cols[s] \cup columns = Schema[i][s]
  <2>1. d.cols[s] \subseteq e.cols[s] /\ e.cols[s] \subseteq Schema[i][s]
    BY <1>2, <1>4
  <2> QED BY <1>4, <2>1
<1> QED BY <1>1, <1>2, <1>3, <1>4

(* What a step leaves to run q. *)
Spared(q) ==
  /\ pc'[q] = pc[q] /\ plan'[q] = plan[q] /\ task'[q] = task[q]
  /\ read'[q] = read[q] /\ target'[q] = target[q]
  /\ holder' = q <=> holder = q
  /\ holder = q => work' = work
  /\ Ahead(View(q), View(q)', installed)

LEMMA SparedStays ==
  ASSUME TypeOK, TypeOK', NEW q \in Updaters, RunSound(q), Spared(q), installed' = installed
  PROVE  RunSound(q)'
<1>1. View(q) \in Database /\ View(q)' \in Database /\ installed \in Versions
  BY DEF TypeOK, View
<1>2. task[q].table \in Tables
  BY DEF TypeOK, Task
<1> DEFINE d == View(q)
           e == View(q)'
<1> HIDE DEF d, e
<1>3. /\ Migrated(d) => Migrated(e)
      /\ \A s \in Tables : d.cols[s] = Schema[installed][s] => e.cols[s] = Schema[installed][s]
      /\ ReadSound(read[q], d) => ReadSound(read[q], e)
      /\ \A s \in Tables : \A columns :
           columns \subseteq Schema[installed][s] /\ d.cols[s] \cup columns = Schema[installed][s] =>
              e.cols[s] \cup columns = Schema[installed][s]
  BY <1>1, KnownStays DEF Spared, d, e
<1>4. /\ pc'[q] # "idle" => target'[q] = installed'
      /\ pc'[q] \in {"idle", "tables", "migrate"} => holder' # q
      /\ pc'[q] \in {"tmp", "copy"} =>
           Dropped(task'[q].table, installed') /\ Always(task'[q].table, installed') \subseteq task'[q].columns
      /\ pc'[q] = "commit" => holder' = q /\ work'.version = installed' /\ Complete(work')
  BY DEF RunSound, Spared
<1>5. /\ pc'[q] = "migrate" => ReadSound(read'[q], e)
      /\ pc'[q] \in Migrating =>
          /\ Migrated(e)
          /\ \A s \in Tables :
               s \in plan'[q] \/ Pending(q, s)' \/ e.cols[s] = Schema[installed'][s]
      /\ pc'[q] = "add" =>
          /\ task'[q].columns \subseteq Schema[installed'][task'[q].table]
          /\ e.cols[task'[q].table] \cup task'[q].columns = Schema[installed'][task'[q].table]
  BY <1>2, <1>3 DEF RunSound, Spared, Pending, d
<1> QED BY <1>4, <1>5 DEF RunSound, e

---------------------------------------------------------------------------
(* What a step of run p leaves to the others. *)

Moves(p) ==
  /\ Sound(file, installed)' /\ Sound(work, installed)' /\ WorkSound'
  /\ Content(file)' = Content(file)
  /\ file'.version \in {file.version, installed}
  /\ UNCHANGED <<installed, writes>>
  /\ \A q \in Updaters \ {p} : Spared(q)

(* The variables of the other runs. *)
Apart(p) ==
  \A q \in Updaters \ {p} :
    /\ pc'[q] = pc[q] /\ plan'[q] = plan[q] /\ task'[q] = task[q]
    /\ read'[q] = read[q] /\ target'[q] = target[q]

LEMMA StatementMoves ==
  ASSUME UpgradeInv, NEW p \in Updaters, NEW e, Follows(View(p), e, installed),
         UNCHANGED <<installed, writes>>, Apart(p),
         Alter(p, e) \/ Insert(p, e)
  PROVE  /\ Moves(p) /\ View(p)' = e
         /\ Alter(p, e) => holder' = holder
         /\ Insert(p, e) => holder' = p /\ work' = e
<1>1. Nobody \notin Updaters /\ holder \in {Nobody, p} /\ holder' \in {Nobody, p} /\ work' = e
  BY UpgradeAssumption DEF Alter, Insert
<1>2. View(p) = work
  BY <1>1 DEF UpgradeInv, WorkSound, View
<1>3. Sound(e, installed) /\ Ahead(work, e, installed) /\ Content(e) = Content(work)
  BY <1>2 DEF Follows
<1>4. file' = file \/ (holder = Nobody /\ file' = e)
  BY <1>1 DEF Alter, Insert
<1>5. holder' = Nobody => file' = e
  BY <1>1 DEF Alter, Insert
<1>6. View(p)' = e
  BY <1>1, <1>5 DEF View
<1>7. Ahead(file, file', installed) /\ Ahead(file', e, installed) /\ Sound(file', installed)
      /\ Content(file') = Content(file) /\ Content(e) = Content(file)
  <2>1. Ahead(file, e, installed) /\ Content(e) = Content(file)
    BY <1>3, AheadTransitive DEF UpgradeInv, WorkSound
  <2>2. CASE file' = file
    BY <1>3, <2>1, <2>2, AheadSame DEF UpgradeInv
  <2>3. CASE file' = e
    BY <1>3, <2>1, <2>3, AheadSame
  <2> QED BY <1>4, <2>2, <2>3
<1>8. Sound(file, installed)' /\ Sound(work, installed)'
  BY <1>1, <1>3, <1>7
<1>9. WorkSound'
  BY <1>1, <1>5, <1>7 DEF WorkSound
<1>10. ASSUME NEW q \in Updaters \ {p} PROVE Spared(q)
  <2>1. q # holder /\ q # holder' /\ q # p /\ q \in Updaters
    BY <1>1
  <2>2. View(q) = file /\ View(q)' = file'
    BY <2>1 DEF View
  <2> QED BY <1>7, <2>1, <2>2 DEF Spared, Apart
<1>11. file'.version \in {file.version, installed}
  BY <1>7 DEF Ahead
<1> QED BY <1>6, <1>7, <1>8, <1>9, <1>10, <1>11 DEF Moves, Alter, Insert

LEMMA NoStatementMoves ==
  ASSUME UpgradeInv, NEW p \in Updaters, NoStatement, UNCHANGED <<installed, writes>>, Apart(p)
  PROVE  Moves(p) /\ View(p)' = View(p)
<1>1. \A q : View(q)' = View(q)
  BY DEF NoStatement, View
<1>2. \A q \in Updaters \ {p} : Spared(q)
  BY <1>1, AheadSame DEF Spared, Apart, NoStatement
<1> QED BY <1>1, <1>2 DEF Moves, UpgradeInv, NoStatement, WorkSound

LEMMA RollBackMoves ==
  ASSUME UpgradeInv, NEW p \in Updaters, RollBack(p), UNCHANGED <<installed, writes>>, Apart(p)
  PROVE  Moves(p) /\ holder' # p
<1>0. Nobody \notin Updaters
  BY UpgradeAssumption
<1>1. CASE holder # p
  BY <1>1, NoStatementMoves DEF RollBack, NoStatement
<1>2. CASE holder = p
  <2>1. work' = file /\ holder' = Nobody /\ file' = file
    BY <1>2 DEF RollBack
  <2>2. \A q \in Updaters \ {p} : View(q)' = View(q)
    BY <1>2, <2>1 DEF View
  <2>3. \A q \in Updaters \ {p} : Spared(q)
    BY <1>0, <1>2, <2>1, <2>2, AheadSame DEF Spared, Apart
  <2>4. Sound(file, installed)' /\ Sound(work, installed)' /\ WorkSound'
    BY <2>1, AheadSame DEF UpgradeInv, WorkSound
  <2> QED BY <1>0, <2>1, <2>3, <2>4 DEF Moves
<1> QED BY <1>1, <1>2

LEMMA CommitMoves ==
  ASSUME UpgradeInv, NEW p \in Updaters, Commit(p), UNCHANGED <<installed, writes>>, Apart(p)
  PROVE  Moves(p) /\ holder' # p
<1>1. /\ Nobody \notin Updaters /\ holder = p
      /\ file' = work /\ work' = work /\ holder' = Nobody
  BY UpgradeAssumption DEF Commit, UpgradeInv, RunSound
<1>2. \A q \in Updaters \ {p} : View(q) = file /\ View(q)' = file'
  BY <1>1 DEF View
<1>3. \A q \in Updaters \ {p} : Spared(q)
  BY <1>1, <1>2 DEF Spared, Apart, UpgradeInv, WorkSound
<1>4. Sound(file, installed)' /\ Sound(work, installed)' /\ WorkSound'
  BY <1>1, AheadSame DEF UpgradeInv, WorkSound
<1>5. file'.version \in {file.version, installed} /\ Content(file)' = Content(file)
  BY <1>1 DEF UpgradeInv, WorkSound, Ahead
<1> QED BY <1>1, <1>3, <1>4, <1>5 DEF Moves

LEMMA StepApart ==
  ASSUME TypeOK, NEW p \in Updaters, Begin(p) \/ Step(p) \/ Abort(p)
  PROVE  Apart(p) /\ UNCHANGED <<installed, writes>>
<1> USE DEF Apart, Goto, Running, Leave, TypeOK
<1>1. CASE Begin(p)
  BY <1>1 DEF Begin
<1>2. CASE update_tables(p)
  BY <1>2 DEF update_tables
<1>3. CASE ReadUsage(p)
  BY <1>3 DEF ReadUsage
<1>4. CASE migrate_job_usage_to_per_assoc(p)
  BY <1>4 DEF migrate_job_usage_to_per_assoc
<1>5. CASE update_columns(p)
  BY <1>5, UpdateColumnsIs DEF update_columns
<1>6. CASE add_tmp_table_to_db(p)
  BY <1>6 DEF add_tmp_table_to_db
<1>7. CASE move_existing_rows(p)
  BY <1>7 DEF move_existing_rows
<1>8. CASE add_columns(p)
  BY <1>8 DEF add_columns
<1>9. CASE init_tables(p)
  BY <1>9 DEF init_tables
<1>10. CASE Commit(p)
  BY <1>10 DEF Commit
<1>11. CASE GiveUp(p)
  BY <1>11 DEF GiveUp
<1>12. CASE Abort(p)
  BY <1>12 DEF Abort
<1> QED BY <1>1, <1>2, <1>3, <1>4, <1>5, <1>6, <1>7, <1>8, <1>9, <1>10, <1>11, <1>12 DEF Step

---------------------------------------------------------------------------
(* The steps of a run keep what it knows. *)

LEMMA RunFacts ==
  ASSUME UpgradeInv, NEW p \in Updaters
  PROVE  /\ TypeOK /\ installed \in Versions /\ RunSound(p)
         /\ View(p) \in Database /\ Sound(View(p), installed)
         /\ task[p].table \in Tables /\ task[p].columns \in SUBSET Columns
         /\ \A t \in Tables : Schema[installed][t] \in SUBSET Columns
         /\ \A t \in First(plan[p]) : t \in plan[p] /\ t \in Tables
BY UpgradeAssumption DEF UpgradeInv, TypeOK, Task, View, First

LEMMA BeginKeeps ==
  ASSUME UpgradeInv, NEW p \in Updaters, Begin(p)
  PROVE  Moves(p) /\ RunSound(p)'
<1> USE RunFacts
<1>1. Moves(p)
  BY StepApart, NoStatementMoves DEF Begin
<1>2. pc'[p] = "tables" /\ target'[p] = installed /\ holder' = holder /\ holder # p
      /\ installed' = installed
  BY DEF Begin, Goto, TypeOK, NoStatement, RunSound
<1> QED BY <1>1, <1>2 DEF RunSound, Migrating

LEMMA UpdateTablesKeeps ==
  ASSUME SchemaHistory, UpgradeInv, NEW p \in Updaters, update_tables(p)
  PROVE  Moves(p) /\ RunSound(p)'
<1> USE RunFacts
<1>1. pc[p] = "tables" /\ target[p] = installed /\ holder # p
  BY DEF update_tables, RunSound
<1>2. PICK t \in First(plan[p]) : Alter(p, CreateTable(View(p), t, Schema[installed][t]))
  BY <1>1 DEF update_tables
<1>3. Follows(View(p), CreateTable(View(p), t, Schema[installed][t]), installed)
  BY CreateTableFollows
<1>4. Moves(p) /\ holder' = holder
  BY <1>2, <1>3, StepApart, StatementMoves DEF Step
<1>5. pc' = pc /\ target' = target /\ installed' = installed
  BY DEF update_tables, Running
<1> QED BY <1>1, <1>4, <1>5 DEF RunSound, Migrating

LEMMA ReadUsageKeeps ==
  ASSUME UpgradeInv, NEW p \in Updaters, ReadUsage(p)
  PROVE  Moves(p) /\ RunSound(p)'
<1> USE RunFacts
<1>1. Moves(p) /\ View(p)' = View(p)
  BY StepApart, NoStatementMoves DEF ReadUsage, Step
<1>2. /\ pc'[p] = "migrate" /\ target'[p] = installed' /\ installed' = installed
      /\ holder' # p /\ read'[p] = UsageRead(View(p))
  BY DEF ReadUsage, Goto, TypeOK, NoStatement, RunSound, Running
<1>3. ReadSound(UsageRead(View(p)), View(p))
  <2> SUFFICES ASSUME NEW d \in Database, RowsSound(d), UsageSound(d)
               PROVE  ReadSound(UsageRead(d), d)
    BY DEF Sound
  <2>1. \A k \in Keys, b \in Bins :
          UsageRead(d)[k][b] = IF b \in d.cols[FactorTable] /\ k \in d.rows[FactorTable]
                                 THEN d.data[FactorTable][k][b] ELSE NoValue
    BY UsageReadIs
  <2> QED BY <2>1 DEF UsageSound, ReadSound
<1> QED BY <1>1, <1>2, <1>3 DEF RunSound, Migrating

LEMMA MigrateKeeps ==
  ASSUME SchemaHistory, UpgradeInv, NEW p \in Updaters, migrate_job_usage_to_per_assoc(p)
  PROVE  Moves(p) /\ RunSound(p)'
<1> USE RunFacts
<1>1. pc[p] = "migrate" /\ target[p] = installed /\ ReadSound(read[p], View(p)) /\ read[p] \in Usages
  BY DEF migrate_job_usage_to_per_assoc, RunSound, TypeOK
<1>2. /\ pc'[p] = "columns" /\ target'[p] = installed' /\ installed' = installed
      /\ plan'[p] = TablesOf(create_db(installed))
  BY <1>1 DEF migrate_job_usage_to_per_assoc, Goto, TypeOK, Running
<1>3. Moves(p) /\ View(p)' \in Database /\ Sound(View(p)', installed) /\ Migrated(View(p)')
  <2>1. CASE read[p] = NoPeriods
    BY <1>1, <2>1, StepApart, NoStatementMoves, NothingToMigrate
    DEF migrate_job_usage_to_per_assoc, Step
  <2>2. CASE read[p] # NoPeriods
    <3>1. /\ Follows(View(p), WithPeriods(View(p), read[p]), installed)
          /\ Migrated(WithPeriods(View(p), read[p]))
      BY <1>1, WithPeriodsFollows
    <3>2. Insert(p, WithPeriods(View(p), read[p]))
      BY <2>2 DEF migrate_job_usage_to_per_assoc
    <3>3. Moves(p) /\ View(p)' = WithPeriods(View(p), read[p])
      BY <3>1, <3>2, StepApart, StatementMoves DEF Step
    <3> QED BY <3>1, <3>3 DEF Follows
  <2> QED BY <2>1, <2>2
<1>4. ASSUME NEW s \in Tables, s \notin plan'[p]
      PROVE  View(p)'.cols[s] = Schema[installed][s]
  <2>1. Schema[installed][s] = {}
    BY <1>2, <1>4, NewDatabase
  <2>2. \A v \in 1..installed : Schema[v][s] = {}
    BY <2>1, HistoryFacts
  <2>3. View(p)'.cols[s] = {}
    BY <1>3, <2>2 DEF Sound, ColumnsSound
  <2> QED BY <2>1, <2>3
<1> QED BY <1>2, <1>3, <1>4 DEF RunSound, Migrating

LEMMA UpdateColumnsKeeps ==
  ASSUME SchemaHistory, UpgradeInv, NEW p \in Updaters, update_columns(p)
  PROVE  Moves(p) /\ RunSound(p)'
<1> USE RunFacts
<1>1. /\ pc[p] = "columns" /\ target[p] = installed
      /\ Migrated(View(p))
      /\ \A s \in Tables : s \in plan[p] \/ View(p).cols[s] = Schema[installed][s]
  BY DEF update_columns, RunSound, Migrating, Pending
<1>2. Moves(p) /\ View(p)' = View(p)
  BY StepApart, NoStatementMoves DEF update_columns, Step
<1>3. target' = target /\ installed' = installed
  BY DEF update_columns, Running
<1>4. PICK t \in First(plan[p]) :
        /\ plan' = [plan EXCEPT ![p] = @ \ {t}]
        /\ LET old == View(p).cols[t]
               new == Schema[installed][t]
           IN \/ /\ old \ new # {} /\ Goto(p, "tmp")
                 /\ task' = [task EXCEPT ![p] = [table |-> t, columns |-> old \cap new]]
              \/ /\ old \ new = {} /\ new \ old # {} /\ Goto(p, "add")
                 /\ task' = [task EXCEPT ![p] = [table |-> t, columns |-> new \ old]]
              \/ old = new /\ UNCHANGED <<pc, task>>
  BY <1>1, UpdateColumnsIs
<1> DEFINE old == View(p).cols[t]
           new == Schema[installed][t]
<1>5. t \in Tables /\ plan'[p] = plan[p] \ {t}
  BY <1>4 DEF TypeOK
<1>6. ASSUME NEW s \in Tables PROVE s = t \/ s \in plan'[p] \/ View(p).cols[s] = Schema[installed][s]
  BY <1>1, <1>5
<1>7. CASE /\ old \ new # {} /\ Goto(p, "tmp")
           /\ task' = [task EXCEPT ![p] = [table |-> t, columns |-> old \cap new]]
  <2>1. pc'[p] = "tmp" /\ task'[p].table = t /\ task'[p].columns = old \cap new
    BY <1>7 DEF Goto, TypeOK
  <2>2. Always(t, installed) \subseteq old \cap new
    BY <1>5, HistoryFacts DEF Sound, ColumnsSound
  <2>3. Dropped(t, installed)
    <3>1. PICK c \in old : c \notin new
      BY <1>7
    <3>2. PICK v \in 1..installed : c \in Schema[v][t]
      BY <1>5 DEF Sound, ColumnsSound
    <3> QED BY <3>1, <3>2 DEF Dropped
  <2> QED BY <1>1, <1>2, <1>3, <1>6, <2>1, <2>2, <2>3 DEF RunSound, Migrating, Pending
<1>8. CASE /\ old \ new = {} /\ new \ old # {} /\ Goto(p, "add")
           /\ task' = [task EXCEPT ![p] = [table |-> t, columns |-> new \ old]]
  <2>1. pc'[p] = "add" /\ task'[p].table = t /\ task'[p].columns = new \ old
    BY <1>8 DEF Goto, TypeOK
  <2>2. old \cup (new \ old) = new
    BY <1>8
  <2> QED BY <1>1, <1>2, <1>3, <1>6, <2>1, <2>2 DEF RunSound, Migrating, Pending
<1>9. CASE old = new /\ UNCHANGED <<pc, task>>
  <2>1. pc'[p] = "columns"
    BY <1>1, <1>9
  <2>2. \A s \in Tables : s \in plan'[p] \/ View(p).cols[s] = Schema[installed][s]
    BY <1>6, <1>9
  <2> QED BY <1>1, <1>2, <1>3, <2>1, <2>2 DEF RunSound, Migrating, Pending
<1> QED BY <1>4, <1>7, <1>8, <1>9

LEMMA AddTmpTableKeeps ==
  ASSUME SchemaHistory, UpgradeInv, NEW p \in Updaters, add_tmp_table_to_db(p)
  PROVE  Moves(p) /\ RunSound(p)'
<1> USE RunFacts
<1> DEFINE t == task[p].table
           e == CreateTmp(View(p), t, Schema[installed][t])
<1>1. /\ pc[p] = "tmp" /\ target[p] = installed
      /\ Migrated(View(p))
      /\ \A s \in Tables : s \in plan[p] \/ s = t \/ View(p).cols[s] = Schema[installed][s]
      /\ Dropped(t, installed) /\ Always(t, installed) \subseteq task[p].columns
  BY DEF add_tmp_table_to_db, RunSound, Migrating, Pending
<1>2. Alter(p, e)
  BY <1>1 DEF add_tmp_table_to_db
<1> HIDE DEF e
<1>3. Follows(View(p), e, installed)
  BY <1>1, CreateTmpFollows DEF e
<1>4. Moves(p) /\ View(p)' = e
  BY <1>2, <1>3, StepApart, StatementMoves DEF Step
<1>5. /\ Migrated(e)
      /\ \A s \in Tables : View(p).cols[s] = Schema[installed][s] => e.cols[s] = Schema[installed][s]
  BY <1>1, <1>3, KnownStays DEF Follows
<1>6. pc'[p] = "copy" /\ target' = target /\ plan' = plan /\ task' = task /\ installed' = installed
  BY DEF add_tmp_table_to_db, Running, Goto, TypeOK
<1> QED BY <1>1, <1>4, <1>5, <1>6 DEF RunSound, Migrating, Pending

LEMMA MoveExistingRowsKeeps ==
  ASSUME SchemaHistory, UpgradeInv, NEW p \in Updaters, move_existing_rows(p)
  PROVE  Moves(p) /\ RunSound(p)'
<1> USE RunFacts
<1> DEFINE t == task[p].table
           e == Rebuilt(View(p), t, task[p].columns)
<1>1. /\ pc[p] = "copy" /\ target[p] = installed
      /\ Migrated(View(p)) /\ View(p).tmp[t] # {}
      /\ \A s \in Tables : s \in plan[p] \/ s = t \/ View(p).cols[s] = Schema[installed][s]
      /\ Always(t, installed) \subseteq task[p].columns
  BY DEF move_existing_rows, RunSound, Migrating, Pending, CopyWorks
<1>2. Insert(p, e)
  BY DEF move_existing_rows
<1> HIDE DEF e
<1>3. Follows(View(p), e, installed) /\ e.cols[t] = Schema[installed][t]
  BY <1>1, RebuiltFollows DEF e
<1>4. Moves(p) /\ View(p)' = e
  BY <1>2, <1>3, StepApart, StatementMoves DEF Step
<1>5. /\ Migrated(e)
      /\ \A s \in Tables : View(p).cols[s] = Schema[installed][s] => e.cols[s] = Schema[installed][s]
  BY <1>1, <1>3, KnownStays DEF Follows
<1>6. pc'[p] = "columns" /\ target' = target /\ plan' = plan /\ installed' = installed
  BY DEF move_existing_rows, Running, Goto, TypeOK
<1> QED BY <1>1, <1>3, <1>4, <1>5, <1>6 DEF RunSound, Migrating, Pending

LEMMA AddColumnsKeeps ==
  ASSUME SchemaHistory, UpgradeInv, NEW p \in Updaters, add_columns(p)
  PROVE  Moves(p) /\ RunSound(p)'
<1> USE RunFacts
<1> DEFINE t == task[p].table
           new == Schema[installed][t]
<1>1. /\ pc[p] = "add" /\ target[p] = installed
      /\ Migrated(View(p))
      /\ \A s \in Tables : s \in plan[p] \/ s = t \/ View(p).cols[s] = Schema[installed][s]
      /\ task[p].columns \subseteq new /\ View(p).cols[t] \cup task[p].columns = new
  BY DEF add_columns, RunSound, Migrating, Pending
<1>2. PICK c \in task[p].columns :
        /\ c \notin View(p).cols[t]
        /\ Alter(p, WithColumn(View(p), t, c))
        /\ task' = [task EXCEPT ![p].columns = @ \ {c}]
        /\ IF task[p].columns = {c} THEN Goto(p, "columns") ELSE UNCHANGED pc
  BY DEF add_columns, AddWorks
<1> DEFINE e == WithColumn(View(p), t, c)
<1> HIDE DEF e
<1>3. Follows(View(p), e, installed) /\ e.cols[t] = View(p).cols[t] \cup {c}
  BY <1>1, <1>2, WithColumnFollows DEF e
<1>4. Moves(p) /\ View(p)' = e
  BY <1>2, <1>3, StepApart, StatementMoves DEF Step, e
<1>5. /\ Migrated(e)
      /\ \A s \in Tables : View(p).cols[s] = Schema[installed][s] => e.cols[s] = Schema[installed][s]
  BY <1>1, <1>3, KnownStays DEF Follows
<1>6. target' = target /\ plan' = plan /\ installed' = installed
  BY DEF add_columns, Running
<1>7. task'[p].table = t /\ task'[p].columns = task[p].columns \ {c}
  BY <1>2 DEF TypeOK, Task
<1>8. CASE task[p].columns = {c}
  <2>1. pc'[p] = "columns" /\ e.cols[t] = new
    BY <1>1, <1>2, <1>3, <1>8 DEF Goto, TypeOK
  <2> QED BY <1>1, <1>4, <1>5, <1>6, <2>1 DEF RunSound, Migrating, Pending
<1>9. CASE task[p].columns # {c}
  <2>1. pc'[p] = "add" /\ e.cols[t] \cup task'[p].columns = new /\ task'[p].columns \subseteq new
    BY <1>1, <1>2, <1>3, <1>7, <1>9
  <2> QED BY <1>1, <1>4, <1>5, <1>6, <1>7, <2>1 DEF RunSound, Migrating, Pending
<1> QED BY <1>8, <1>9

LEMMA InitTablesKeeps ==
  ASSUME SchemaHistory, UpgradeInv, NEW p \in Updaters, init_tables(p)
  PROVE  Moves(p) /\ RunSound(p)'
<1> USE RunFacts
<1> DEFINE e == Initialized(View(p), installed)
<1>1. /\ target[p] = installed /\ Migrated(View(p))
      /\ \A s \in Tables : View(p).cols[s] = Schema[installed][s]
  BY DEF init_tables, RunSound, Migrating, Pending
<1>2. Insert(p, e)
  BY <1>1 DEF init_tables, Initialized
<1> HIDE DEF e
<1>3. Follows(View(p), e, installed) /\ e.version = installed /\ Complete(e)
  BY <1>1, WithEntriesFollows DEF e
<1>4. Moves(p) /\ View(p)' = e /\ holder' = p /\ work' = e
  BY <1>2, <1>3, StepApart, StatementMoves DEF Step
<1>5. /\ Migrated(e)
      /\ \A s \in Tables : e.cols[s] = Schema[installed][s]
  BY <1>1, <1>3, KnownStays DEF Follows
<1>6. pc'[p] = "commit" /\ target' = target /\ installed' = installed
  BY DEF init_tables, Running, Goto, TypeOK
<1> QED BY <1>1, <1>3, <1>4, <1>5, <1>6 DEF RunSound, Migrating, Pending

(* A run that is over knows nothing. *)
LEMMA LeaveKeeps ==
  ASSUME UpgradeInv, NEW p \in Updaters, Commit(p) \/ GiveUp(p) \/ Abort(p)
  PROVE  Moves(p) /\ RunSound(p)'
<1>1. Leave(p) /\ (Commit(p) \/ RollBack(p)) /\ Apart(p) /\ UNCHANGED <<installed, writes>>
  BY StepApart, RunFacts DEF Commit, GiveUp, Abort, Step
<1>2. Moves(p) /\ holder' # p
  BY <1>1, CommitMoves, RollBackMoves
<1>3. pc'[p] = "idle"
  BY <1>1, RunFacts DEF Leave, Goto, TypeOK
<1> QED BY <1>2, <1>3 DEF RunSound, Migrating

LEMMA RunKeepsInv ==
  ASSUME SchemaHistory, UpgradeInv, NEW p \in Updaters, Begin(p) \/ Step(p) \/ Abort(p)
  PROVE  UpgradeInv' /\ Moves(p)
<1>1. Moves(p) /\ RunSound(p)'
  BY BeginKeeps, UpdateTablesKeeps, ReadUsageKeeps, MigrateKeeps, UpdateColumnsKeeps,
     AddTmpTableKeeps, MoveExistingRowsKeeps, AddColumnsKeeps, InitTablesKeeps, LeaveKeeps
  DEF Step
<1>2. TypeOK /\ TypeOK'
  BY StepKeepsTypes, OthersKeepTypes DEF UpgradeInv
<1>3. ASSUME NEW q \in Updaters \ {p} PROVE RunSound(q)'
  BY <1>1, <1>2, SparedStays DEF UpgradeInv, Moves
<1> QED BY <1>1, <1>2, <1>3 DEF UpgradeInv, Moves

---------------------------------------------------------------------------
LEMMA StoreKeeps ==
  ASSUME UpgradeInv, NEW e \in Database, Store(e), e.version = file.version,
         ColumnsSound(e, installed), RowsSound(e), UsageSound(e), Ahead(file, e, installed)
  PROVE  UpgradeInv'
<1>1. /\ holder = Nobody /\ holder' = Nobody /\ Nobody \notin Updaters
      /\ file' = e /\ work' = e
      /\ UNCHANGED <<pc, plan, task, read, target, installed>>
  BY UpgradeAssumption DEF Store
<1>2. TypeOK /\ TypeOK' /\ file \in Database /\ installed \in Versions
  BY <1>1, UpgradeAssumption DEF UpgradeInv, TypeOK, Store
<1>3. Sound(e, installed)
  <2>1. e.version <= installed
    BY DEF UpgradeInv, Sound
  <2>2. ASSUME e.version = Latest PROVE Complete(e)
    <3>1. Complete(file) /\ file.version = installed
      <4>1. file.version <= installed /\ file.version = Latest /\ installed \in Nat /\ installed <= Latest
        BY <1>2, <2>2, VersionFacts DEF UpgradeInv, Sound
      <4> QED BY <4>1, UpgradeAssumption DEF UpgradeInv, Sound
    <3> QED BY <1>2, <3>1, CompleteStays
  <2> QED BY <2>1, <2>2 DEF Sound
<1>4. ASSUME NEW q \in Updaters PROVE RunSound(q)'
  <2>1. View(q) = file /\ View(q)' = e
    BY <1>1 DEF View
  <2>2. Spared(q) /\ installed' = installed
    BY <1>1, <2>1 DEF Spared
  <2> QED BY <1>2, <2>2, SparedStays DEF UpgradeInv
<1>5. WorkSound'
  BY <1>1, AheadSame DEF WorkSound
<1> QED BY <1>1, <1>2, <1>3, <1>4, <1>5 DEF UpgradeInv

(* What a write of another program does, in terms of what is stored.       *)
CellSet(d, e, x, v) == Content(e) = [Content(d) EXCEPT ![x] = v]
Wrote ==
  /\ \E x \in Cells, v \in Stored : CellSet(file, file', x, v)
  /\ writes' = writes + 1
  /\ file'.version = file.version

LEMMA OneCell ==
  ASSUME NEW d, NEW e, NEW t, NEW k, NEW c, <<t, k, c>> \in Cells, NEW v,
         Value(e, t, k, c) = v,
         \A y \in Cells : y # <<t, k, c>> => Value(e, y[1], y[2], y[3]) = Value(d, y[1], y[2], y[3])
  PROVE  CellSet(d, e, <<t, k, c>>, v)
<1> DEFINE x == <<t, k, c>>
<1>1. x[1] = t /\ x[2] = k /\ x[3] = c
  OBVIOUS
<1> HIDE DEF x
<1>2. Value(e, x[1], x[2], x[3]) = v
  BY <1>1
<1>3. \A y \in Cells : Value(e, y[1], y[2], y[3]) =
        IF y = x THEN v ELSE Value(d, y[1], y[2], y[3])
  BY <1>2 DEF x
<1>4. CellSet(d, e, x, v)
  BY <1>3 DEF Content, CellSet
<1> QED BY <1>4 DEF x

LEMMA ChangeRowKeeps ==
  ASSUME SchemaHistory, UsageLeftAlone, UpgradeInv, ChangeRow
  PROVE  UpgradeInv' /\ Wrote
<1>0. PICK t \in Touched : \E k \in file.rows[t], c \in file.cols[t], v \in Values :
        Store(WithCell(file, t, k, c, v))
  BY DEF ChangeRow, WithCell
<1>1. PICK k \in file.rows[t], c \in file.cols[t], v \in Values :
        Store(WithCell(file, t, k, c, v))
  BY <1>0
<1> DEFINE d == file
           e == WithCell(file, t, k, c, v)
<1> HIDE DEF e
<1>2. /\ d \in Database /\ t \in Tables /\ k \in Keys /\ c \in Columns /\ t # FactorTable
      /\ FactorTable \in Tables /\ Bins \subseteq Columns /\ installed \in Versions
  BY UpgradeAssumption DEF UpgradeInv, TypeOK, Database, UsageLeftAlone
<1>3. /\ e \in Database
      /\ e.version = d.version /\ e.cols = d.cols /\ e.tmp = d.tmp
      /\ e.rows = d.rows /\ e.periods = d.periods
      /\ \A s \in Tables, j \in Keys, x \in Columns :
           e.data[s][j][x] = IF s = t /\ j = k /\ x = c THEN v ELSE d.data[s][j][x]
  BY <1>2, DataStored DEF e
<1>4. \A j \in Keys, x \in Columns : e.data[FactorTable][j][x] = d.data[FactorTable][j][x]
  BY <1>2, <1>3
<1>5. ColumnsSound(e, installed) /\ RowsSound(e) /\ UsageSound(e)
  <2>1. ColumnsSound(d, installed) /\ RowsSound(d) /\ UsageSound(d)
    BY DEF UpgradeInv, Sound
  <2>2. RowsSound(e)
    BY <1>3, <2>1 DEF RowsSound
  <2>3. UsageSound(e)
    BY <1>2, <1>3, <1>4, <2>1 DEF UsageSound
  <2> QED BY <1>3, <2>1, <2>2, <2>3 DEF ColumnsSound
<1>6. Ahead(d, e, installed)
  BY <1>2, <1>3, <1>4 DEF Ahead
<1>7. UpgradeInv'
  BY <1>1, <1>3, <1>5, <1>6, StoreKeeps DEF e
<1>8. file' = e /\ writes' = writes + 1
  BY <1>1 DEF Store, e
<1>9. ASSUME NEW y \in Cells, y # <<t, k, c>>
      PROVE  Value(e, y[1], y[2], y[3]) = Value(d, y[1], y[2], y[3])
  <2>1. ~(y[1] = t /\ y[2] = k /\ y[3] = c) /\ y[1] \in Tables /\ y[2] \in Keys /\ y[3] \in Columns
    BY <1>9, CellFacts
  <2> QED BY <1>3, <2>1 DEF Value
<1>10. \E x \in Cells, w \in Stored : CellSet(d, e, x, w)
  <2>1. CASE <<t, k, c>> \in Cells
    <3>1. c \notin Bins
      BY <1>2, <2>1, CellFacts
    <3>2. Value(e, t, k, c) = v
      BY <1>2, <1>3, <3>1 DEF Value
    <3>3. CellSet(d, e, <<t, k, c>>, v)
      BY <1>9, <2>1, <3>2, OneCell
    <3> QED BY <2>1, <3>3 DEF Stored
  <2>2. CASE <<t, k, c>> \notin Cells
    <3>1. Content(e) = Content(d)
      BY <1>9, <2>2 DEF Content
    <3>2. PICK b \in Bins : <<FactorTable, k, b>> \in Cells
      BY <1>2 DEF Cells, SchemaHistory
    <3>3. Value(d, FactorTable, k, b) \in Stored
      BY <1>2, UpgradeAssumption DEF Value, Database, Stored
    <3>4. CellSet(d, e, <<FactorTable, k, b>>, Value(d, FactorTable, k, b))
      BY <3>1, <3>2 DEF Content, CellSet
    <3> QED BY <3>2, <3>3, <3>4
  <2> QED BY <2>1, <2>2
<1> QED BY <1>3, <1>7, <1>8, <1>10 DEF Wrote

LEMMA RecordUsageKeeps ==
  ASSUME SchemaHistory, UpgradeInv, RecordUsage
  PROVE  UpgradeInv' /\ Wrote
<1>1. PICK k \in Keys, b \in Bins, v \in Values :
        file.periods[k][b] # NoValue /\ Store(WithPeriod(file, k, b, v))
  BY DEF RecordUsage, WithPeriod
<1> DEFINE d == file
           e == WithPeriod(file, k, b, v)
<1> HIDE DEF e
<1>2. /\ d \in Database /\ FactorTable \in Tables /\ Bins \subseteq Columns /\ v # NoValue
      /\ \A x \in Bins : x \notin d.cols[FactorTable]
  BY UpgradeAssumption DEF UpgradeInv, TypeOK, RecordUsage
<1>3. /\ e \in Database
      /\ e.version = d.version /\ e.cols = d.cols /\ e.tmp = d.tmp
      /\ e.rows = d.rows /\ e.data = d.data
      /\ \A j \in Keys, x \in Bins :
           e.periods[j][x] = IF j = k /\ x = b THEN v ELSE d.periods[j][x]
  BY <1>2, PeriodStored DEF e
<1>4. ColumnsSound(e, installed) /\ RowsSound(e) /\ UsageSound(e)
  BY <1>2, <1>3 DEF UpgradeInv, Sound, ColumnsSound, RowsSound, UsageSound
<1>5. Ahead(d, e, installed)
  BY <1>1, <1>2, <1>3 DEF Ahead
<1>6. UpgradeInv'
  BY <1>1, <1>3, <1>4, <1>5, StoreKeeps DEF e
<1>7. file' = e /\ writes' = writes + 1
  BY <1>1 DEF Store, e
<1>8. <<FactorTable, k, b>> \in Cells
  BY <1>2 DEF Cells
<1>9. Value(e, FactorTable, k, b) = v
  BY <1>2, <1>3 DEF Value
<1>10. ASSUME NEW y \in Cells, y # <<FactorTable, k, b>>
       PROVE  Value(e, y[1], y[2], y[3]) = Value(d, y[1], y[2], y[3])
  <2>1. CASE y[3] \in Bins /\ y[1] = FactorTable
    BY <1>2, <1>3, <1>10, <2>1, CellFacts DEF Value
  <2>2. CASE y[3] \notin Bins
    BY <1>3, <2>2 DEF Value
  <2> QED BY <2>1, <2>2, CellFacts
<1>11. CellSet(d, e, <<FactorTable, k, b>>, v)
  BY <1>8, <1>9, <1>10, OneCell
<1> QED BY <1>3, <1>6, <1>7, <1>8, <1>11 DEF Wrote, Stored

(* The next version of the package. *)
LEMMA InstallKeeps ==
  ASSUME SchemaHistory, UpgradeInv, Install
  PROVE  UpgradeInv' /\ UNCHANGED <<file, writes>>
<1> DEFINE i == installed
<1>1. /\ i \in Versions /\ i < Latest /\ installed' = i + 1
      /\ UNCHANGED <<file, work, holder, pc, plan, task, read, target>>
      /\ \A p \in Updaters : pc[p] = "idle"
  BY DEF UpgradeInv, TypeOK, Install
<1>2. i + 1 \in Versions /\ 1..(i + 1) = (1..i) \cup {i + 1} /\ i \in Nat /\ i <= i + 1
  BY <1>1, VersionFacts
<1>3. holder = Nobody /\ work = file
  BY <1>1 DEF UpgradeInv, RunSound, TypeOK, WorkSound
<1>4. Sound(file, i + 1)
  <2>1. Sound(file, i) /\ file \in Database
    BY DEF UpgradeInv, TypeOK
  <2>2. ASSUME NEW t \in Tables
        PROVE  /\ Always(t, i + 1) \subseteq file.cols[t]
               /\ \A c \in file.cols[t] : \E v \in 1..(i + 1) : c \in Schema[v][t]
               /\ file.tmp[t] # {} => file.tmp[t] = Schema[i + 1][t] /\ Dropped(t, i + 1)
    <3>1. /\ Always(t, i) \subseteq file.cols[t]
          /\ \A c \in file.cols[t] : \E v \in 1..i : c \in Schema[v][t]
          /\ file.tmp[t] # {} => file.tmp[t] = Schema[i][t] /\ Dropped(t, i)
      BY <2>1 DEF Sound, ColumnsSound
    <3> QED BY <1>1, <1>2, <3>1, NextVersion
  <2>3. file.version <= i + 1
    BY <1>2, <2>1, VersionFacts DEF Sound, Database, Versions
  <2> QED BY <2>1, <2>2, <2>3 DEF Sound, ColumnsSound
<1>5. TypeOK'
  BY OthersKeepTypes DEF UpgradeInv
<1>6. \A p \in Updaters : RunSound(p)'
  BY <1>1, <1>3, UpgradeAssumption DEF RunSound, Migrating
<1>7. WorkSound'
  BY <1>1, <1>3, AheadSame DEF WorkSound
<1> QED BY <1>1, <1>3, <1>4, <1>5, <1>6, <1>7 DEF UpgradeInv, Install

---------------------------------------------------------------------------
(* The invariant of the upgrade. *)

LEMMA InitInv == SchemaHistory /\ Init => UpgradeInv
<1> SUFFICES ASSUME SchemaHistory, Init PROVE UpgradeInv
  OBVIOUS
<1>1. PICK rows \in OldRows, v \in Values : file = OldDatabase(rows, v)
  BY DEF Init
<1>2. /\ work = file /\ installed = 1 /\ holder = Nobody /\ Nobody \notin Updaters
      /\ \A p \in Updaters : pc[p] = "idle"
      /\ 1 \in Versions /\ Latest # 1 /\ v # NoValue
      /\ FactorTable \in Tables /\ Bins \subseteq Columns /\ Bins \subseteq Schema[1][FactorTable]
      /\ rows \in [Tables -> SUBSET Keys] /\ Schema[1] \in [Tables -> SUBSET Columns]
  BY UpgradeAssumption DEF Init, Versions, SchemaHistory
<1>3. /\ file.version = 1 /\ file.cols = Schema[1] /\ file.rows = rows
      /\ \A t \in Tables : file.tmp[t] = {}
      /\ \A k \in Keys, b \in Bins : file.periods[k][b] = NoValue
      /\ \A t \in Tables, k \in Keys, c \in Columns :
           file.data[t][k][c] = IF k \in rows[t] /\ c \in Schema[1][t] THEN v ELSE NoValue
  BY <1>1 DEF OldDatabase, Filled, NoPeriods
<1>4. ColumnsSound(file, 1)
  BY <1>2, <1>3, VersionFacts DEF ColumnsSound, Always
<1>5. RowsSound(file)
  BY <1>3 DEF RowsSound
<1>6. UsageSound(file)
  BY <1>2, <1>3 DEF UsageSound
<1>7. Sound(file, installed)
  BY <1>2, <1>3, <1>4, <1>5, <1>6 DEF Sound
<1>8. WorkSound
  BY <1>2, AheadSame DEF WorkSound
<1>9. \A p \in Updaters : RunSound(p)
  BY <1>2 DEF RunSound, Migrating
<1> QED BY <1>2, <1>7, <1>8, <1>9, InitTypes DEF UpgradeInv

LEMMA NextKeepsInv ==
  ASSUME SchemaHistory, UsageLeftAlone, UpgradeInv, [Next]_vars
  PROVE  UpgradeInv'
<1>1. CASE UNCHANGED vars
  <2>1. \A p : View(p)' = View(p)
    BY <1>1 DEF vars, View
  <2>2. \A p \in Updaters : RunSound(p)'
    BY <1>1, <2>1 DEF vars, UpgradeInv, RunSound, Pending
  <2>3. TypeOK'
    BY <1>1 DEF vars, UpgradeInv, TypeOK
  <2> QED BY <1>1, <2>2, <2>3 DEF vars, UpgradeInv, WorkSound
<1> QED BY <1>1, RunKeepsInv, ChangeRowKeeps, RecordUsageKeeps, InstallKeeps DEF Next

LEMMA UpgradeInvariant == SchemaHistory /\ UsageLeftAlone /\ Spec => []UpgradeInv
<1> SUFFICES ASSUME SchemaHistory, UsageLeftAlone PROVE Spec => []UpgradeInv
  OBVIOUS
<1>1. Init => UpgradeInv
  BY InitInv
<1>2. UpgradeInv /\ [Next]_vars => UpgradeInv'
  BY NextKeepsInv
<1> QED BY <1>1, <1>2, PTL DEF Spec

(***************************************************************************)
(* Who reads the current version in the file finds the whole schema of it, *)
(* however often the upgrade was started, killed and started anew, and     *)
(* however many run at a time: for every history of schemas in which no    *)
(* table is built anew twice.                                              *)
(***************************************************************************)
THEOREM VersionTellsTheSchema ==
  SchemaHistory /\ UsageLeftAlone /\ Spec => []VersionTellsSchema
<1>1. UpgradeInv => VersionTellsSchema
  BY DEF UpgradeInv, Sound, VersionTellsSchema
<1> QED BY <1>1, UpgradeInvariant, PTL

---------------------------------------------------------------------------
(* The upgrade is one step. *)

LEMMA ContentType ==
  ASSUME NEW d \in Database
  PROVE  Content(d) \in [Cells -> Stored]
<1>1. ASSUME NEW x \in Cells PROVE Value(d, x[1], x[2], x[3]) \in Stored
  <2>1. x[1] \in Tables /\ x[2] \in Keys /\ x[3] \in Columns
    BY CellFacts
  <2> QED BY <2>1, UpgradeAssumption DEF Value, Database, Stored
<1> QED BY <1>1 DEF Content

LEMMA StepIsAtomic ==
  ASSUME SchemaHistory, UsageLeftAlone, UpgradeInv, [Next]_vars
  PROVE  [Atomic!Next]_<<file.version, Content(file), writes>>
<1> USE DEF Atomic!Next
<1>1. CASE UNCHANGED vars
  BY <1>1 DEF vars
<1>2. ASSUME NEW p \in Updaters, Begin(p) \/ Step(p) \/ Abort(p)
      PROVE  [Atomic!Next]_<<file.version, Content(file), writes>>
  <2>1. /\ Content(file)' = Content(file) /\ writes' = writes
        /\ file'.version \in {file.version, installed}
    BY <1>2, RunKeepsInv DEF Moves
  <2>2. installed \in Versions /\ file.version \in Versions /\ file.version <= installed
    BY DEF UpgradeInv, TypeOK, Sound, Database
  <2>3. CASE file'.version = file.version
    BY <2>1, <2>3
  <2>4. CASE file'.version # file.version
    <3>1. file'.version = installed /\ installed > file.version
      BY <2>1, <2>2, <2>4, UpgradeAssumption DEF Versions
    <3> QED BY <2>1, <2>2, <3>1 DEF Atomic!Upgrade
  <2> QED BY <2>3, <2>4
<1>3. CASE Wrote
  BY <1>3 DEF Wrote, CellSet, Atomic!Write
<1>4. CASE Install
  BY <1>4, InstallKeeps
<1> QED BY <1>1, <1>2, <1>3, <1>4, ChangeRowKeeps, RecordUsageKeeps DEF Next

(***************************************************************************)
(* The upgrade implements AtomicUpgrade: interrupted, repeated or run      *)
(* twice at a time, statement by statement, it is one step that raises the *)
(* version and loses no cell and no usage.                                 *)
(***************************************************************************)
THEOREM UpgradeIsAtomic ==
  SchemaHistory /\ UsageLeftAlone /\ Spec => NothingLost
<1> SUFFICES ASSUME SchemaHistory, UsageLeftAlone PROVE Spec => NothingLost
  OBVIOUS
<1>1. Init => Atomic!Init
  <2>1. Init => file \in Database /\ writes = 0
    BY InitTypes DEF TypeOK, Init
  <2>2. file \in Database => file.version \in Versions /\ Content(file) \in [Cells -> Stored]
    BY ContentType DEF Database
  <2> QED BY <2>1, <2>2 DEF Atomic!Init
<1>2. UpgradeInv /\ [Next]_vars => [Atomic!Next]_<<file.version, Content(file), writes>>
  BY StepIsAtomic
<1> QED BY <1>1, <1>2, UpgradeInvariant, PTL DEF Spec, NothingLost, Atomic!Spec
===============================================================================
