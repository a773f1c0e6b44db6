---------------------------- MODULE PluginSyncProofs ----------------------------
(***************************************************************************)
(* Proofs about the plugin and its data, for any users, banks, jobs, runs  *)
(* of the script and numbers of changes, kills and loads: the types, where *)
(* a scheduled job is charged, and what the associations are counted for.  *)
(***************************************************************************)
EXTENDS PluginSync, FiniteSetTheorems, TLAPS

---------------------------------------------------------------------------
(* Types. *)

Places == Banks \cup {DNE, NoBank}
AuxItems == Assocs \cup (Users \X {DNE}) \cup {NULL}

(* What a run of the script holds, where it is, and the maps.              *)
ScriptTypesOK ==
  /\ pc \in [Runs -> {"idle", "read", "send"}]
  /\ next \in [Runs -> 0..Last]
  /\ held \in [Runs -> Database]
MapTypesOK ==
  /\ rows \in [Assocs -> {Absent, On, Off}]
  /\ def_bank \in [Users -> Places]
  /\ waiting \subseteq Users
  /\ more \in [Others -> [Names -> Values \cup {Absent}]]
CountTypesOK == active \in Counts /\ sched \in Counts /\ run \in Counts
JobTypesOK ==
  /\ state \in [Jobs -> States]
  /\ bank \in [Jobs -> Places]
  /\ aux \in [Jobs -> AuxItems]
  /\ info \in [Jobs -> BOOLEAN]
  /\ fresh \subseteq Jobs /\ sweep \subseteq Jobs /\ lost \subseteq Jobs
BoundTypesOK == changes \in 0..MaxChanges /\ kills \in 0..MaxKills /\ loads \in 0..MaxLoads

(* What a run sends is one of the tables.                                  *)
SendsATable == \A p \in Runs : pc[p] = "send" => next[p] <= Len(Tables)

Typed == /\ db \in Database
         /\ ScriptTypesOK /\ SendsATable
         /\ MapTypesOK /\ CountTypesOK /\ JobTypesOK /\ BoundTypesOK

LEMMA TypedIsTypeOK == Typed => TypeOK
BY DEF Typed, TypeOK, ScriptTypesOK, MapTypesOK, CountTypesOK, JobTypesOK, BoundTypesOK,
   Places, AuxItems

---------------------------------------------------------------------------
(* Lookups. *)

LEMMA LookupTypes ==
  ASSUME Typed, NEW u \in Users, NEW b \in Places
  PROVE  LET a == get_association(u, b)
         IN /\ a \in AuxItems
            /\ Real(a) => a = <<u, Key(u, b)>> /\ Key(u, b) \in Banks /\ rows[a] # Absent
            /\ a # NULL => a = <<u, Key(u, b)>>
            /\ a # NULL /\ ~Real(a) => Key(u, b) = DNE
<1>1. Key(u, b) \in Places
  BY DEF Typed, MapTypesOK, Key, Places
<1>2. ASSUME Found(u, b)
      PROVE  /\ Key(u, b) = DNE \/ (Key(u, b) \in Banks /\ rows[<<u, Key(u, b)>>] # Absent)
             /\ get_association(u, b) = <<u, Key(u, b)>>
  BY <1>2 DEF Found, get_association
<1>3. ASSUME ~Found(u, b) PROVE get_association(u, b) = NULL
  BY <1>3 DEF get_association
<1>4. DNE \notin Banks /\ ~Real(NULL)
  BY SyncAssumption DEF Real, Assocs
<1>5. Real(<<u, Key(u, b)>>) <=> Key(u, b) \in Banks
  BY DEF Real, Assocs
<1> HIDE DEF Key, get_association, Found
<1>6. CASE Found(u, b)
  <2>1. get_association(u, b) \in AuxItems
    BY <1>2, <1>6 DEF AuxItems, Assocs
  <2> QED BY <1>2, <1>4, <1>5, <1>6, <2>1
<1> QED BY <1>3, <1>4, <1>6 DEF AuxItems

---------------------------------------------------------------------------
(* The script. *)

LEMMA NoRowsTypes == NoRows \in Database
<1>1. /\ [a \in Assocs |-> Absent] \in [Assocs -> {Absent, On, Off}]
      /\ [u \in Users |-> OwnBank] \in [Users -> Banks]
      /\ Initial \in [Others -> [Names -> Values \cup {Absent}]]
  BY SyncAssumption
<1> QED BY <1>1 DEF NoRows, Database

LEMMA LastType == Len(Tables) \in Nat /\ Last = Len(Tables) + 2
BY SyncAssumption DEF Last

LEMMA TableType == ASSUME NEW n \in 1..Len(Tables) PROVE Tables[n] \in Others
BY SyncAssumption DEF Others

LEMMA ReadTypes ==
  ASSUME Typed, NEW p \in Runs, Read(p)
  PROVE  ScriptTypesOK'
<1> USE DEF Typed, ScriptTypesOK
<1>1. /\ pc' = [pc EXCEPT ![p] = "send"] /\ next' = next
      /\ next[p] \in 0..Len(Tables)
  BY LastType DEF Read
<1>2. CASE next[p] = 0
  <2> DEFINE h == [NoRows EXCEPT !.rows = db.rows, !.def = db.def]
  <2>1. held' = [held EXCEPT ![p] = h]
    BY <1>2 DEF Read
  <2>2. h \in Database
    BY NoRowsTypes DEF Database
  <2> HIDE DEF h
  <2> QED BY <1>1, <2>1, <2>2
<1>3. CASE next[p] # 0
  <2> DEFINE t == Tables[next[p]]
             h == [NoRows EXCEPT !.more[t] = db.more[t]]
  <2>1. held' = [held EXCEPT ![p] = h]
    BY <1>3 DEF Read
  <2>2. t \in Others
    BY <1>1, <1>3, TableType, LastType
  <2> HIDE DEF t
  <2>3. h \in Database
    BY <2>2, NoRowsTypes DEF Database
  <2> HIDE DEF h
  <2> QED BY <1>1, <2>1, <2>3
<1> QED BY <1>2, <1>3

LEMMA AdvanceTypes ==
  ASSUME Typed, NEW p \in Runs, next[p] < Last, Advance(p)
  PROVE  ScriptTypesOK' /\ SendsATable'
<1>1. next[p] + 1 \in 0..Last
  BY LastType DEF Typed, ScriptTypesOK
<1>2. ScriptTypesOK'
  BY <1>1, NoRowsTypes DEF Typed, ScriptTypesOK, Advance
<1>3. ASSUME NEW q \in Runs, pc'[q] = "send" PROVE next'[q] <= Len(Tables)
  BY <1>3 DEF Typed, ScriptTypesOK, SendsATable, Advance
<1> QED BY <1>2, <1>3 DEF SendsATable

LEMMA ScriptTypes ==
  ASSUME Typed, NEW p \in Runs, Update(p)
  PROVE  Typed'
<1> USE DEF mapVars, countVars, jobVars, boundVars, Typed
<1>1. CASE StartRun(p)
  <2>1. ScriptTypesOK' /\ SendsATable'
    BY <1>1, LastType DEF StartRun, ScriptTypesOK, SendsATable
  <2> QED BY <1>1, <2>1 DEF StartRun, MapTypesOK, CountTypesOK, JobTypesOK, BoundTypesOK
<1>2. CASE Read(p)
  <2>1. SendsATable'
    BY <1>2 DEF Read, SendsATable, ScriptTypesOK
  <2> QED BY <1>2, <2>1, ReadTypes DEF Read, MapTypesOK, CountTypesOK, JobTypesOK, BoundTypesOK
<1>3. CASE rec_update_cb(p)
  <2>1. ScriptTypesOK' /\ SendsATable'
    BY <1>3, AdvanceTypes, LastType DEF rec_update_cb, ScriptTypesOK
  <2>2. rows' \in [Assocs -> {Absent, On, Off}]
    <3>1. held[p] \in Database
      BY DEF ScriptTypesOK
    <3>2. held[p].rows \in [Assocs -> {Absent, On, Off}]
      BY <3>1 DEF Database
    <3> QED BY <1>3, <3>2 DEF rec_update_cb, LoadRows, MapTypesOK
  <2>3. def_bank' \in [Users -> Places]
    <3>1. held[p].def \in [Users -> Banks]
      BY DEF ScriptTypesOK, Database
    <3> QED BY <1>3, <3>1 DEF rec_update_cb, LoadDefaults, MapTypesOK, Places
  <2> QED BY <1>3, <2>1, <2>2, <2>3 DEF rec_update_cb, MapTypesOK, CountTypesOK,
             JobTypesOK, BoundTypesOK
<1>4. CASE rec_other_cb(p)
  <2> DEFINE t == Tables[next[p]]
             m == LoadOther(t, more[t], held[p].more[t])
  <2>1. next[p] \in 1..Len(Tables) /\ next[p] < Last
    BY <1>4, LastType DEF rec_other_cb, ScriptTypesOK, SendsATable
  <2>2. t \in Others
    BY <2>1, TableType
  <2>3. ScriptTypesOK' /\ SendsATable'
    BY <1>4, <2>1, AdvanceTypes DEF rec_other_cb
  <2>4. more' = [more EXCEPT ![t] = m]
    BY <1>4 DEF rec_other_cb
  <2> HIDE DEF t
  <2>5. m \in [Names -> Values \cup {Absent}]
    <3>1. /\ held[p].more[t] \in [Names -> Values \cup {Absent}]
          /\ more[t] \in [Names -> Values \cup {Absent}]
      BY <2>2 DEF ScriptTypesOK, MapTypesOK, Database
    <3> QED BY <3>1 DEF LoadOther
  <2> HIDE DEF m
  <2>6. MapTypesOK'
    BY <1>4, <2>2, <2>4, <2>5 DEF rec_other_cb, MapTypesOK
  <2> QED BY <1>4, <2>3, <2>6 DEF rec_other_cb, CountTypesOK, JobTypesOK, BoundTypesOK
<1>5. CASE reprior_cb(p)
  <2>1. ScriptTypesOK' /\ SendsATable'
    BY <1>5, LastType, AdvanceTypes DEF reprior_cb, ScriptTypesOK
  <2> QED BY <1>5, <2>1 DEF reprior_cb, MapTypesOK, CountTypesOK, JobTypesOK, BoundTypesOK
<1>6. CASE send_instance_owner_info(p)
  <2>1. ScriptTypesOK' /\ SendsATable'
    BY <1>6 DEF send_instance_owner_info, SendsATable, ScriptTypesOK
  <2>2. MapTypesOK'
    <3>1. Owner \in Users /\ OwnBank \in Places /\ <<Owner, OwnBank>> \in Assocs
      BY SyncAssumption DEF Assocs, Places
    <3> QED BY <1>6, <3>1 DEF send_instance_owner_info, MapTypesOK
  <2> QED BY <1>6, <2>1, <2>2 DEF send_instance_owner_info, CountTypesOK, JobTypesOK,
             BoundTypesOK
<1>7. CASE Kill(p)
  <2>1. ScriptTypesOK' /\ SendsATable'
    BY <1>7, NoRowsTypes DEF Kill, SendsATable, ScriptTypesOK
  <2> QED BY <1>7, <2>1, SyncAssumption DEF Kill, MapTypesOK, CountTypesOK, JobTypesOK,
             BoundTypesOK
<1> QED BY <1>1, <1>2, <1>3, <1>4, <1>5, <1>6, <1>7 DEF Update, Script

---------------------------------------------------------------------------
(* Jobs: their types. *)

LEMMA DNETypes ==
  ASSUME NEW j \in Jobs
  PROVE  User(j) \in Users /\ <<User(j), DNE>> \in AuxItems /\ DNE \in Places
         /\ NoBank \in Places /\ NULL \in AuxItems /\ Banks \subseteq Places
BY SyncAssumption DEF User, AuxItems, Places

LEMMA BecomesTypes ==
  ASSUME JobTypesOK, NEW j \in Jobs, NEW s \in States, NEW b \in Places,
         NEW a \in AuxItems, NEW i \in BOOLEAN, Becomes(j, s, b, a, i)
  PROVE  /\ state' \in [Jobs -> States] /\ bank' \in [Jobs -> Places]
         /\ aux' \in [Jobs -> AuxItems] /\ info' \in [Jobs -> BOOLEAN]
BY DEF JobTypesOK, Becomes

LEMMA CountTypes ==
  ASSUME NEW c \in Counts, NEW a, NEW d \in Int
  PROVE  Count(c, a, d) \in Counts
BY DEF Counts, Count, Real

LEMMA SpecialTypes ==
  ASSUME MapTypesOK, NEW u \in Users, add_special_association(u)
  PROVE  MapTypesOK'
BY DEF MapTypesOK, add_special_association, Places

LEMMA EventTypes ==
  ASSUME Typed, NEW j \in Jobs, JobEvent(j)
  PROVE  Typed'
<1> USE BecomesTypes, CountTypes, DNETypes DEF Typed
<1>a. /\ state[j] \in States /\ bank[j] \in Places /\ aux[j] \in AuxItems
      /\ info[j] \in BOOLEAN /\ def_bank[User(j)] \in Places
  BY DEF JobTypesOK, MapTypesOK
<1>b. {"DEPEND", "PRIORITY", "RUN", "INACTIVE", "REJECTED", "SCHED"} \subseteq States
  BY DEF States
<1>c. get_association(User(j), NoBank) \in AuxItems
  BY LookupTypes
<1> HIDE DEF AuxItems, Places, States, User
<1>1. CASE Submit(j)
  <2>1. UNCHANGED <<db, pc, next, held, fresh, sweep, lost, changes, kills, loads>>
    BY <1>1 DEF Submit, scriptVars, boundVars
  <2>2. CASE SubmitWithoutData(j)
    <3>1. MapTypesOK' /\ CountTypesOK'
      BY <2>2, SpecialTypes DEF SubmitWithoutData, countVars, CountTypesOK
    <3>2. JobTypesOK'
      BY <1>b, <2>1, <2>2 DEF SubmitWithoutData, JobTypesOK
    <3> QED BY <2>1, <3>1, <3>2 DEF ScriptTypesOK, SendsATable, BoundTypesOK
  <2>3. CASE RejectJob(j)
    <3>1. JobTypesOK'
      BY <1>b, <2>1, <2>3 DEF RejectJob, JobTypesOK
    <3> QED BY <2>1, <2>3, <3>1 DEF RejectJob, mapVars, countVars, MapTypesOK, CountTypesOK,
               ScriptTypesOK, SendsATable, BoundTypesOK
  <2>4. CASE SubmitKnown(j)
    <3>1. JobTypesOK'
      BY <1>a, <1>b, <1>c, <2>1, <2>4 DEF SubmitKnown, JobTypesOK
    <3>2. CountTypesOK'
      BY <2>4 DEF SubmitKnown, CountTypesOK
    <3> QED BY <2>1, <2>4, <3>1, <3>2 DEF SubmitKnown, mapVars, MapTypesOK,
               ScriptTypesOK, SendsATable, BoundTypesOK
  <2> QED BY <1>1, <2>2, <2>3, <2>4 DEF Submit
<1>2. CASE LeaveDepend(j)
  <2>1. JobTypesOK'
    BY <1>2, <1>b DEF LeaveDepend, JobTypesOK
  <2> QED BY <1>2, <2>1 DEF LeaveDepend, scriptVars, mapVars, countVars, boundVars,
             MapTypesOK, CountTypesOK, ScriptTypesOK, SendsATable, BoundTypesOK
<1>3. CASE Alloc(j)
  <2>1. JobTypesOK'
    BY <1>3, <1>a, <1>b DEF Alloc, JobTypesOK
  <2>2. CountTypesOK'
    BY <1>3 DEF Alloc, CountTypesOK
  <2> QED BY <1>3, <2>1, <2>2 DEF Alloc, scriptVars, mapVars, boundVars,
             MapTypesOK, ScriptTypesOK, SendsATable, BoundTypesOK
<1>4. CASE GoInactive(j)
  <2>1. JobTypesOK'
    BY <1>4, <1>a, <1>b DEF GoInactive, JobTypesOK
  <2>2. CountTypesOK'
    BY <1>4 DEF GoInactive, CountTypesOK, countVars
  <2> QED BY <1>4, <2>1, <2>2 DEF GoInactive, scriptVars, mapVars, boundVars,
             MapTypesOK, ScriptTypesOK, SendsATable, BoundTypesOK
<1> QED BY <1>1, <1>2, <1>3, <1>4 DEF JobEvent

LEMMA CallbackTypes ==
  ASSUME Typed, NEW j \in Jobs, Callback(j)
  PROVE  Typed'
<1> USE BecomesTypes, CountTypes, DNETypes DEF Typed
<1>a. /\ state[j] \in States /\ bank[j] \in Places /\ aux[j] \in AuxItems
      /\ info[j] \in BOOLEAN /\ def_bank[User(j)] \in Places
  BY DEF JobTypesOK, MapTypesOK
<1>b. {"INACTIVE", "SCHED"} \subseteq States
  BY DEF States
<1>c. get_association(User(j), bank[j]) \in AuxItems
  BY <1>a, LookupTypes
<1> HIDE DEF AuxItems, Places, States, User
<1>1. CASE Prioritize(j)
  <2>1. /\ UNCHANGED <<db, pc, next, held, fresh, lost, changes, kills, loads>>
        /\ UNCHANGED <<rows, def_bank, waiting, more>> /\ sweep' \subseteq sweep
    BY <1>1 DEF Prioritize, priority_cb, scriptVars, mapVars, boundVars
  <2>2. ASSUME NEW b \in Places, NEW a \in AuxItems, NEW x \in {0, 1}, Grant(j, b, a, x)
        PROVE  JobTypesOK' /\ CountTypesOK'
    <3>1. JobTypesOK'
      BY <1>b, <2>1, <2>2 DEF Grant, JobTypesOK
    <3>2. CountTypesOK'
      BY <2>2 DEF Grant, CountTypesOK
    <3> QED BY <3>1, <3>2
  <2>3. CASE UNCHANGED <<jobVars, countVars>>
    BY <2>1, <2>3 DEF jobVars, countVars, JobTypesOK, CountTypesOK, MapTypesOK,
       ScriptTypesOK, SendsATable, BoundTypesOK
  <2>4. CASE Becomes(j, "INACTIVE", bank[j], aux[j], info[j]) /\ UNCHANGED countVars
    <3>1. JobTypesOK'
      BY <1>a, <1>b, <2>1, <2>4 DEF JobTypesOK
    <3> QED BY <2>1, <2>4, <3>1 DEF countVars, CountTypesOK, MapTypesOK,
               ScriptTypesOK, SendsATable, BoundTypesOK
  <2>5. CASE \E b \in Places, a \in AuxItems, x \in {0, 1} : Grant(j, b, a, x)
    BY <2>1, <2>2, <2>5 DEF MapTypesOK, ScriptTypesOK, SendsATable, BoundTypesOK
  <2> QED BY <1>1, <1>a, <1>c, <2>3, <2>4, <2>5 DEF Prioritize, priority_cb
<1>2. CASE new_cb(j)
  <2>1. /\ UNCHANGED <<db, pc, next, held, sweep, changes, kills, loads>>
        /\ fresh' \subseteq fresh /\ lost' \subseteq lost \cup {j}
    BY <1>2 DEF new_cb, scriptVars, boundVars
  <2>2. CASE NewWithoutData(j)
    <3>1. JobTypesOK'
      BY <1>a, <2>1, <2>2 DEF NewWithoutData, JobTypesOK
    <3>2. MapTypesOK'
      BY <2>2, SpecialTypes DEF NewWithoutData
    <3> QED BY <2>1, <2>2, <3>1, <3>2 DEF NewWithoutData, countVars, CountTypesOK,
               ScriptTypesOK, SendsATable, BoundTypesOK
  <2>3. CASE NewAttached(j, get_association(User(j), bank[j]))
    <3> DEFINE a == get_association(User(j), bank[j])
               b == IF bank[j] = NoBank THEN def_bank[User(j)] ELSE bank[j]
    <3>1. Becomes(j, state[j], b, a, TRUE) /\ b \in Places /\ a \in AuxItems
      BY <1>a, <1>c, <2>3 DEF NewAttached
    <3>2. JobTypesOK'
      <4> HIDE DEF a, b
      <4> QED BY <1>a, <2>1, <3>1 DEF JobTypesOK
    <3>3. CountTypesOK'
      BY <2>3 DEF NewAttached, CountTypesOK
    <3> QED BY <2>1, <2>3, <3>2, <3>3 DEF NewAttached, mapVars, MapTypesOK,
               ScriptTypesOK, SendsATable, BoundTypesOK
  <2> QED BY <1>2, <2>2, <2>3 DEF new_cb
<1> QED BY <1>1, <1>2 DEF Callback

LEMMA LoadTypes ==
  ASSUME Typed, NEW w \in BOOLEAN, Load(w)
  PROVE  Typed'
<1> USE DEF Typed
<1>1. MapTypesOK'
  <2>1. rows' \in [Assocs -> {Absent, On, Off}]
    BY DEF Load, flux_plugin_init, Nothing, Database
  <2>2. def_bank' \in [Users -> Places]
    BY DEF Load, flux_plugin_init, Database, Places
  <2>3. more' \in [Others -> [Names -> Values \cup {Absent}]]
    BY SyncAssumption DEF Load, flux_plugin_init, Database
  <2>4. waiting' = {}
    BY DEF Load, flux_plugin_init
  <2> QED BY <2>1, <2>2, <2>3, <2>4 DEF MapTypesOK
<1>2. JobTypesOK'
  <2>1. aux' \in [Jobs -> AuxItems] /\ info' \in [Jobs -> BOOLEAN] /\ fresh' \subseteq Jobs
    BY DEF Load, AuxItems, Unfinished
  <2> QED BY <2>1 DEF Load, JobTypesOK
<1>3. CountTypesOK'
  BY DEF Load, CountTypesOK, Counts, Zero
<1>4. BoundTypesOK'
  BY SyncAssumption DEF Load, BoundTypesOK
<1> QED BY <1>1, <1>2, <1>3, <1>4 DEF Load, scriptVars, ScriptTypesOK, SendsATable

LEMMA CommandTypes ==
  ASSUME Typed, Command
  PROVE  Typed'
<1> USE DEF Typed
<1>1. /\ UNCHANGED <<pc, next, held, rows, def_bank, waiting, more, active, sched, run>>
      /\ UNCHANGED <<state, bank, aux, info, fresh, sweep, lost, kills, loads>>
      /\ changes < MaxChanges /\ changes' = changes + 1
  BY DEF Command, ChangeAssociation, ChangeDefault, ChangeOther, Commit, scriptVars,
     mapVars, countVars, jobVars
<1>2. db' \in Database
  <2>1. CASE ChangeAssociation
    <3>1. PICK a \in Changed, v \in {Absent, On, Off} : db' = [db EXCEPT !.rows[a] = v]
      BY <2>1 DEF ChangeAssociation, Commit
    <3> QED BY <3>1, SyncAssumption DEF Database
  <2>2. CASE ChangeDefault
    <3>1. PICK a \in Changed : db' = [db EXCEPT !.def[a[1]] = a[2]]
      BY <2>2 DEF ChangeDefault, Commit
    <3>2. a[1] \in Users /\ a[2] \in Banks
      BY SyncAssumption DEF Assocs
    <3> QED BY <3>1, <3>2 DEF Database
  <2>3. CASE ChangeOther
    <3>1. PICK t \in Others, n \in Names, v \in Values \cup {Absent} :
            db' = [db EXCEPT !.more[t][n] = v]
      BY <2>3 DEF ChangeOther, Commit
    <3> QED BY <3>1 DEF Database
  <2> QED BY <2>1, <2>2, <2>3 DEF Command
<1>3. BoundTypesOK'
  BY <1>1, SyncAssumption DEF BoundTypesOK
<1> QED BY <1>1, <1>2, <1>3 DEF ScriptTypesOK, SendsATable, MapTypesOK, CountTypesOK, JobTypesOK

LEMMA InitTypes == Init => Typed
<1> SUFFICES ASSUME NEW d \in Database, InitWith(d) PROVE Typed
  BY DEF Init
<1>1. ScriptTypesOK /\ SendsATable
  BY NoRowsTypes, LastType DEF InitWith, ScriptTypesOK, SendsATable
<1>2. MapTypesOK
  BY SyncAssumption DEF InitWith, MapTypesOK, Nothing, Places
<1>3. CountTypesOK
  BY DEF InitWith, CountTypesOK, Counts, Zero
<1>4. JobTypesOK
  BY DEF InitWith, JobTypesOK, States, Places, AuxItems
<1>5. BoundTypesOK
  BY SyncAssumption DEF InitWith, BoundTypesOK
<1> QED BY <1>1, <1>2, <1>3, <1>4, <1>5 DEF InitWith, Typed

LEMMA NextTypes == Typed /\ [Next]_vars => Typed'
<1> SUFFICES ASSUME Typed, [Next]_vars PROVE Typed'
  OBVIOUS
<1>1. ASSUME NEW p \in Runs, Update(p) PROVE Typed'
  BY <1>1, ScriptTypes
<1>2. ASSUME NEW j \in Jobs, JobEvent(j) \/ Callback(j) PROVE Typed'
  BY <1>2, EventTypes, CallbackTypes
<1>3. ASSUME NEW w \in BOOLEAN, Load(w) PROVE Typed'
  BY <1>3, LoadTypes
<1>4. CASE Command
  BY <1>4, CommandTypes
<1>5. CASE UNCHANGED vars
  BY <1>5 DEF vars, scriptVars, mapVars, countVars, jobVars, boundVars, Typed,
     ScriptTypesOK, SendsATable, MapTypesOK, CountTypesOK, JobTypesOK, BoundTypesOK
<1> QED BY <1>1, <1>2, <1>3, <1>4, <1>5 DEF Next

LEMMA AlwaysTyped == Spec => []Typed
BY InitTypes, NextTypes, PTL DEF Spec

(***************************************************************************)
(* The variables keep their types; a run of the script never goes past the *)
(* last table.                                                             *)
(***************************************************************************)
THEOREM SyncTypesOK == Spec => []TypeOK
BY AlwaysTyped, TypedIsTypeOK, PTL

---------------------------------------------------------------------------
(* What is known of one job.  A job that a loaded plugin has not met yet   *)
(* has nothing; a job attached to a real association is counted; and but   *)
(* for the lost ones a job is attached to the association of its bank, or  *)
(* waits with no bank.                                                     *)
JobOK(j) ==
  /\ aux[j] # NULL => aux[j][1] = User(j)
  /\ j \in fresh => aux[j] = NULL /\ ~info[j] /\ state[j] \in Counted /\ j \notin sweep
  /\ j \in sweep => state[j] \in {"PRIORITY", "SCHED"}
  /\ state[j] \in Counted /\ Real(aux[j]) => info[j]
  /\ j \notin fresh \cup lost /\ state[j] \in Counted =>
       \/ Missing(j) /\ bank[j] \in {NoBank, DNE} /\ state[j] \in {"DEPEND", "PRIORITY"}
       \/ ~Missing(j) /\ rows[aux[j]] # Absent /\ bank[j] = aux[j][2]
JobsOK == \A j \in Jobs : JobOK(j)

(* A step on one job leaves what is known of the others.                   *)
LEMMA OtherJobsKept ==
  ASSUME JobsOK, NEW j \in Jobs, NEW s, NEW b, NEW a, NEW i, Typed,
         Becomes(j, s, b, a, i), UNCHANGED rows,
         fresh' \ {j} = fresh \ {j}, lost' \ {j} = lost \ {j}, sweep' \ {j} \subseteq sweep \ {j},
         JobOK(j)'
  PROVE  JobsOK'
<1> SUFFICES ASSUME NEW k \in Jobs, k # j PROVE JobOK(k)'
  BY DEF JobsOK
<1>1. /\ state'[k] = state[k] /\ bank'[k] = bank[k] /\ aux'[k] = aux[k] /\ info'[k] = info[k]
  BY DEF Becomes, Typed, JobTypesOK
<1>2. (k \in fresh' <=> k \in fresh) /\ (k \in lost' <=> k \in lost) /\ (k \in sweep' => k \in sweep)
  OBVIOUS
<1>3. JobOK(k)
  BY DEF JobsOK
<1> QED BY <1>1, <1>2, <1>3 DEF JobOK, Missing

LEMMA EventJobs ==
  ASSUME Typed, JobsOK, NEW j \in Jobs, JobEvent(j)
  PROVE  JobsOK'
<1> USE DNETypes
<1>a. /\ state[j] \in States /\ bank[j] \in Places /\ aux[j] \in AuxItems
      /\ def_bank[User(j)] \in Places /\ JobOK(j)
  BY DEF Typed, JobTypesOK, MapTypesOK, JobsOK
<1>b. UNCHANGED lost /\ fresh = {} /\ sweep = {} /\ fresh' = {} /\ UNCHANGED rows
  BY DEF JobEvent, Submit, SubmitWithoutData, add_special_association, RejectJob,
     SubmitKnown, mapVars, LeaveDepend, Alloc, GoInactive, Idle
<1>1. CASE Submit(j)
  <2>1. sweep' = {}
    BY <1>1, <1>b DEF Submit
  <2>2. CASE SubmitWithoutData(j)
    <3>1. Becomes(j, "DEPEND", NoBank, <<User(j), DNE>>, TRUE)
      BY <2>2 DEF SubmitWithoutData
    <3>2. state'[j] = "DEPEND" /\ bank'[j] = NoBank /\ aux'[j] = <<User(j), DNE>> /\ info'[j]
      BY <3>1 DEF Becomes, Typed, JobTypesOK
    <3>3. ~Real(<<User(j), DNE>>)
      BY SyncAssumption DEF Real, Assocs
    <3>4. JobOK(j)'
      BY <1>b, <2>1, <3>2, <3>3 DEF JobOK, Missing, Real
    <3> QED BY <1>b, <2>1, <3>1, <3>4, OtherJobsKept
  <2>3. CASE RejectJob(j)
    <3>1. Becomes(j, "REJECTED", NoBank, NULL, FALSE)
      BY <2>3 DEF RejectJob
    <3>2. state'[j] = "REJECTED" /\ aux'[j] = NULL
      BY <3>1 DEF Becomes, Typed, JobTypesOK
    <3>3. JobOK(j)'
      BY <1>b, <2>1, <3>2 DEF JobOK, Counted
    <3> QED BY <1>b, <2>1, <3>1, <3>3, OtherJobsKept
  <2>4. CASE SubmitKnown(j)
    <3> DEFINE a == get_association(User(j), NoBank)
    <3>1. Becomes(j, "DEPEND", def_bank[User(j)], a, TRUE) /\ a # NULL
      BY <2>4 DEF SubmitKnown
    <3>2. /\ a = <<User(j), Key(User(j), NoBank)>>
          /\ Key(User(j), NoBank) = def_bank[User(j)]
          /\ Real(a) => rows[a] # Absent
          /\ ~Real(a) => def_bank[User(j)] = DNE
      BY <3>1, LookupTypes DEF Key
    <3> HIDE DEF a
    <3>3. state'[j] = "DEPEND" /\ bank'[j] = def_bank[User(j)] /\ aux'[j] = a /\ info'[j]
      BY <3>1 DEF Becomes, Typed, JobTypesOK
    <3>4. JobOK(j)'
      BY <1>b, <2>1, <3>2, <3>3 DEF JobOK, Missing, Real
    <3> QED BY <1>b, <2>1, <3>1, <3>4, OtherJobsKept
  <2> QED BY <1>1, <2>2, <2>3, <2>4 DEF Submit
<1>2. CASE LeaveDepend(j)
  <2>1. Becomes(j, "PRIORITY", bank[j], aux[j], info[j]) /\ sweep' = {j}
    BY <1>2 DEF LeaveDepend, Becomes, Typed, JobTypesOK
  <2>2. /\ state'[j] = "PRIORITY" /\ bank'[j] = bank[j] /\ aux'[j] = aux[j] /\ info'[j] = info[j]
        /\ state[j] = "DEPEND"
    BY <1>2, <2>1 DEF LeaveDepend, Becomes, Typed, JobTypesOK
  <2>3. JobOK(j)'
    BY <1>a, <1>b, <2>1, <2>2 DEF JobOK, Missing, Counted
  <2> QED BY <1>b, <2>1, <2>3, OtherJobsKept
<1>3. CASE Alloc(j)
  <2> DEFINE s == IF info[j] THEN "RUN" ELSE "INACTIVE"
  <2>1. Becomes(j, s, bank[j], aux[j], info[j]) /\ sweep' = {} /\ state[j] = "SCHED"
    BY <1>3, <1>b DEF Alloc
  <2>2. state'[j] = s /\ bank'[j] = bank[j] /\ aux'[j] = aux[j] /\ info'[j] = info[j]
    BY <2>1 DEF Becomes, Typed, JobTypesOK
  <2>3. JobOK(j)'
    BY <1>a, <1>b, <2>1, <2>2 DEF JobOK, Missing, Counted
  <2> QED BY <1>b, <2>1, <2>3, OtherJobsKept
<1>4. CASE GoInactive(j)
  <2>1. Becomes(j, "INACTIVE", bank[j], aux[j], info[j]) /\ sweep' = {}
    BY <1>4, <1>b DEF GoInactive
  <2>2. state'[j] = "INACTIVE" /\ aux'[j] = aux[j]
    BY <2>1 DEF Becomes, Typed, JobTypesOK
  <2>3. JobOK(j)'
    BY <1>a, <1>b, <2>1, <2>2 DEF JobOK, Counted
  <2> QED BY <1>b, <2>1, <2>3, OtherJobsKept
<1> QED BY <1>1, <1>2, <1>3, <1>4 DEF JobEvent

LEMMA CallbackJobs ==
  ASSUME Typed, JobsOK, NEW j \in Jobs, Callback(j)
  PROVE  JobsOK'
<1> USE DNETypes
<1>a. /\ state[j] \in States /\ bank[j] \in Places /\ aux[j] \in AuxItems
      /\ def_bank[User(j)] \in Places /\ JobOK(j)
  BY DEF Typed, JobTypesOK, MapTypesOK, JobsOK
<1> DEFINE a == get_association(User(j), bank[j])
<1>b. /\ Real(a) => a = <<User(j), Key(User(j), bank[j])>> /\ rows[a] # Absent
      /\ Real(a) => Key(User(j), bank[j]) \in Banks
      /\ a # NULL => a = <<User(j), Key(User(j), bank[j])>>
  BY <1>a, LookupTypes
<1>c. Key(User(j), bank[j]) = IF bank[j] = NoBank THEN def_bank[User(j)] ELSE bank[j]
  BY DEF Key
<1> HIDE DEF a
<1>1. CASE Prioritize(j)
  <2>1. /\ UNCHANGED <<rows, fresh, lost>> /\ j \in sweep /\ sweep' = sweep \ {j} /\ j \notin fresh
        /\ state[j] \in {"PRIORITY", "SCHED"}
    BY <1>1, <1>a DEF Prioritize, priority_cb, mapVars, JobOK
  <2>2. CASE ~Missing(j) /\ Grant(j, bank[j], aux[j], 0)
    <3>1. Becomes(j, "SCHED", bank[j], aux[j], TRUE)
      BY <2>2 DEF Grant
    <3>2. state'[j] = "SCHED" /\ bank'[j] = bank[j] /\ aux'[j] = aux[j] /\ info'[j]
      BY <3>1 DEF Becomes, Typed, JobTypesOK
    <3>3. JobOK(j)'
      BY <1>a, <2>1, <2>2, <3>2 DEF JobOK, Missing, Counted
    <3> QED BY <2>1, <3>1, <3>3, OtherJobsKept
  <2>3. CASE Missing(j) /\ Real(a) /\ Grant(j, def_bank[User(j)], a, 1)
    <3>1. Becomes(j, "SCHED", def_bank[User(j)], a, TRUE)
      BY <2>3 DEF Grant
    <3>2. state'[j] = "SCHED" /\ bank'[j] = def_bank[User(j)] /\ aux'[j] = a /\ info'[j]
      BY <3>1 DEF Becomes, Typed, JobTypesOK
    <3>3. j \notin lost => bank[j] \in {NoBank, DNE}
      BY <1>a, <2>1, <2>3 DEF JobOK, Counted
    <3>4. j \notin lost => def_bank[User(j)] = Key(User(j), bank[j])
      BY <1>b, <1>c, <2>3, <3>3, SyncAssumption
    <3>5. JobOK(j)'
      BY <1>b, <2>1, <2>3, <3>2, <3>4 DEF JobOK, Missing, Real
    <3> QED BY <2>1, <3>1, <3>5, OtherJobsKept
  <2>4. CASE UNCHANGED <<jobVars, countVars>>
    <3>1. Becomes(j, state[j], bank[j], aux[j], info[j])
      BY <2>4 DEF Becomes, jobVars, Typed, JobTypesOK
    <3>2. JobOK(j)'
      BY <1>a, <2>1, <2>4 DEF JobOK, Missing, jobVars
    <3> QED BY <2>1, <3>1, <3>2, OtherJobsKept
  <2>5. CASE Becomes(j, "INACTIVE", bank[j], aux[j], info[j])
    <3>1. state'[j] = "INACTIVE" /\ aux'[j] = aux[j]
      BY <2>5 DEF Becomes, Typed, JobTypesOK
    <3>2. JobOK(j)'
      BY <1>a, <2>1, <3>1 DEF JobOK, Counted
    <3> QED BY <2>1, <2>5, <3>2, OtherJobsKept
  <2> QED BY <1>1, <2>2, <2>3, <2>4, <2>5 DEF Prioritize, priority_cb, a
<1>2. CASE new_cb(j)
  <2>1. /\ UNCHANGED sweep /\ fresh' = fresh \ {j} /\ j \in fresh /\ j \notin sweep
        /\ lost' = IF Real(a) THEN lost ELSE lost \cup {j}
        /\ UNCHANGED rows
    BY <1>2, <1>a DEF new_cb, a, NewWithoutData, NewAttached, add_special_association,
       mapVars, JobOK
  <2>2. CASE a = NULL /\ NewWithoutData(j)
    <3>1. Becomes(j, state[j], bank[j], <<User(j), DNE>>, FALSE)
      BY <2>2 DEF NewWithoutData
    <3>2. state'[j] = state[j] /\ aux'[j] = <<User(j), DNE>>
      BY <3>1 DEF Becomes, Typed, JobTypesOK
    <3>3. ~Real(<<User(j), DNE>>) /\ ~Real(NULL)
      BY SyncAssumption DEF Real, Assocs
    <3>4. JobOK(j)'
      BY <2>1, <2>2, <3>2, <3>3 DEF JobOK, Missing, Real
    <3> QED BY <2>1, <3>1, <3>4, OtherJobsKept
  <2>3. CASE a # NULL /\ NewAttached(j, a)
    <3>1. Becomes(j, state[j], Key(User(j), bank[j]), a, TRUE)
      BY <1>c, <2>3 DEF NewAttached
    <3>2. /\ state'[j] = state[j] /\ bank'[j] = Key(User(j), bank[j]) /\ aux'[j] = a /\ info'[j]
      BY <3>1 DEF Becomes, Typed, JobTypesOK
    <3>3. JobOK(j)'
      BY <1>b, <2>1, <2>3, <3>2 DEF JobOK, Missing, Real
    <3> QED BY <2>1, <3>1, <3>3, OtherJobsKept
  <2> QED BY <1>2, <2>2, <2>3 DEF new_cb, a
<1> QED BY <1>1, <1>2 DEF Callback

LEMMA UpdateJobs ==
  ASSUME Typed, JobsOK, NEW p \in Runs, Update(p)
  PROVE  JobsOK'
<1>1. UNCHANGED <<state, bank, aux, info, lost>>
  BY DEF Update, StartRun, Script, Read, rec_update_cb, rec_other_cb, reprior_cb,
     send_instance_owner_info, Kill, jobVars
<1>2. UNCHANGED fresh
  BY DEF Update, StartRun, Script, Read, rec_update_cb, rec_other_cb, reprior_cb,
     send_instance_owner_info, Kill
<1>3. \A a \in Assocs : rows[a] # Absent => rows'[a] # Absent
  <2>1. CASE rec_update_cb(p)
    BY <2>1 DEF rec_update_cb, LoadRows
  <2>2. CASE send_instance_owner_info(p)
    <3>1. <<Owner, OwnBank>> \in Assocs /\ On # Absent
      BY SyncAssumption DEF Assocs
    <3> QED BY <2>2, <3>1 DEF send_instance_owner_info, Typed, MapTypesOK
  <2>3. UNCHANGED rows \/ rec_update_cb(p) \/ send_instance_owner_info(p)
    BY DEF Update, StartRun, Script, Read, rec_other_cb, reprior_cb, Kill, mapVars
  <2> QED BY <2>1, <2>2, <2>3
<1>4. \/ UNCHANGED sweep
      \/ fresh = {} /\ sweep' = {j \in Jobs : state[j] \in {"PRIORITY", "SCHED"}}
  BY DEF Update, StartRun, Script, Read, rec_update_cb, rec_other_cb, reprior_cb,
     send_instance_owner_info, Kill, Idle
<1> SUFFICES ASSUME NEW j \in Jobs PROVE JobOK(j)'
  BY DEF JobsOK
<1>5. JobOK(j)
  BY DEF JobsOK
<1> QED BY <1>1, <1>2, <1>3, <1>4, <1>5 DEF JobOK, Missing, Real

LEMMA LoadJobs ==
  ASSUME Typed, JobsOK, NEW w \in BOOLEAN, Load(w)
  PROVE  JobsOK'
<1> SUFFICES ASSUME NEW j \in Jobs PROVE JobOK(j)'
  BY DEF JobsOK
<1>1. aux'[j] = NULL /\ ~info'[j] /\ state'[j] = state[j] /\ sweep' = {}
  BY DEF Load, Idle
<1>2. j \in fresh' <=> state[j] \in Counted
  BY DEF Load, Unfinished, Counted
<1>3. ~Real(NULL)
  BY SyncAssumption DEF Real, Assocs
<1> QED BY <1>1, <1>2, <1>3 DEF JobOK, Missing, Real

LEMMA InitJobs == Init => JobsOK
<1> SUFFICES ASSUME NEW d \in Database, InitWith(d), NEW j \in Jobs PROVE JobOK(j)
  BY DEF Init, JobsOK
<1>1. aux[j] = NULL /\ state[j] = "NEW" /\ fresh = {} /\ sweep = {}
  BY DEF InitWith
<1> QED BY <1>1 DEF JobOK, Counted

LEMMA NextJobs == Typed /\ JobsOK /\ [Next]_vars => JobsOK'
<1> SUFFICES ASSUME Typed, JobsOK, [Next]_vars PROVE JobsOK'
  OBVIOUS
<1>1. ASSUME NEW p \in Runs, Update(p) PROVE JobsOK'
  BY <1>1, UpdateJobs
<1>2. ASSUME NEW j \in Jobs, JobEvent(j) \/ Callback(j) PROVE JobsOK'
  BY <1>2, EventJobs, CallbackJobs
<1>3. ASSUME NEW w \in BOOLEAN, Load(w) PROVE JobsOK'
  BY <1>3, LoadJobs
<1>4. CASE Command \/ UNCHANGED vars
  <2>1. UNCHANGED <<state, bank, aux, info, rows, fresh, sweep, lost>>
    BY <1>4 DEF Command, ChangeAssociation, ChangeDefault, ChangeOther, Commit, vars,
       jobVars, mapVars
  <2> QED BY <2>1 DEF JobsOK, JobOK, Missing, Real
<1> QED BY <1>1, <1>2, <1>3, <1>4 DEF Next

(***************************************************************************)
(* No job reaches the scheduler without an association the plugin was told *)
(* of, or with a jobspec that names another bank than the association it   *)
(* is counted for, whenever the data come; the jobs a loaded plugin met    *)
(* without their association excepted.                                     *)
(***************************************************************************)
THEOREM JobsRunUnderTheirBank == Spec => []ScheduledUnderItsBank
<1>1. JobsOK => ScheduledUnderItsBank
  BY DEF JobsOK, JobOK, ScheduledUnderItsBank, Missing, Counted
<1> QED BY <1>1, InitJobs, NextJobs, AlwaysTyped, PTL DEF Spec

---------------------------------------------------------------------------
(* The counts of the associations. *)

LEMMA AttachedIsFinite ==
  ASSUME NEW x, NEW S
  PROVE  /\ IsFiniteSet(Attached(x, S)) /\ Cardinality(Attached(x, S)) \in Nat
<1>1. Attached(x, S) \subseteq Jobs
  BY DEF Attached
<1>2. IsFiniteSet(Attached(x, S))
  BY <1>1, SyncAssumption, FS_Subset
<1> QED BY <1>2, FS_CardinalityType

Is(j, x, S) == aux[j] = x /\ state[j] \in S
One(e) == IF e THEN 1 ELSE 0

(* A step on one job changes the size of a set of jobs by that job.        *)
LEMMA AttachedChanges ==
  ASSUME Typed, NEW j \in Jobs, NEW s, NEW b, NEW a, NEW i, Becomes(j, s, b, a, i),
         NEW x, NEW S
  PROVE  Cardinality(Attached(x, S)') =
           Cardinality(Attached(x, S)) + One(a = x /\ s \in S) - One(Is(j, x, S))
<1> DEFINE A == Attached(x, S)
           B == Attached(x, S)'
<1>1. /\ state'[j] = s /\ aux'[j] = a
      /\ \A k \in Jobs : k # j => state'[k] = state[k] /\ aux'[k] = aux[k]
  BY DEF Becomes, Typed, JobTypesOK
<1>2. B = IF a = x /\ s \in S THEN A \cup {j} ELSE A \ {j}
  BY <1>1 DEF Attached
<1>3. j \in A <=> Is(j, x, S)
  BY DEF Attached, Is
<1>4. IsFiniteSet(A) /\ Cardinality(A) \in Nat
  BY AttachedIsFinite
<1> HIDE DEF A, B
<1>5. CASE a = x /\ s \in S
  <2>1. Cardinality(A \cup {j}) = IF j \in A THEN Cardinality(A) ELSE Cardinality(A) + 1
    BY <1>4, FS_AddElement
  <2> QED BY <1>2, <1>3, <1>4, <1>5, <2>1 DEF A, B, One
<1>6. CASE ~(a = x /\ s \in S)
  <2>1. Cardinality(A \ {j}) = IF j \in A THEN Cardinality(A) - 1 ELSE Cardinality(A)
    BY <1>4, FS_RemoveElement
  <2> QED BY <1>2, <1>3, <1>4, <1>6, <2>1 DEF A, B, One
<1> QED BY <1>5, <1>6

LEMMA CountAt ==
  ASSUME NEW c \in Counts, NEW a, NEW d \in Int, NEW x \in Assocs
  PROVE  Count(c, a, d)[x] = c[x] + (IF a = x THEN d ELSE 0) /\ c[x] \in Int
BY DEF Count, Counts, Real

(* The counts follow a step on one job when they change by that job.       *)
Follows(j, a, s) ==
  \A x \in Assocs :
    /\ active'[x] = active[x] + One(a = x /\ s \in Counted) - One(Is(j, x, Counted))
    /\ run'[x] = run[x] + One(a = x /\ s \in {"RUN"}) - One(Is(j, x, {"RUN"}))
    /\ \/ \E k \in lost' : User(k) = x[1]
       \/ sched'[x] = sched[x] + One(a = x /\ s \in {"SCHED"}) - One(Is(j, x, {"SCHED"}))

LEMMA FollowingKeepsCounts ==
  ASSUME Typed, CountsRecovered, NEW j \in Jobs, NEW s, NEW b, NEW a, NEW i,
         Becomes(j, s, b, a, i), Follows(j, a, s), lost \subseteq lost'
  PROVE  CountsRecovered'
<1> SUFFICES ASSUME NEW x \in Assocs
             PROVE  /\ active'[x] = Cardinality(Attached(x, Counted)')
                    /\ run'[x] = Cardinality(Attached(x, {"RUN"})')
                    /\ \/ \E k \in lost' : User(k) = x[1]
                       \/ sched'[x] = Cardinality(Attached(x, {"SCHED"})')
  BY DEF CountsRecovered, Attached, Counted
<1>1. \A S : Cardinality(Attached(x, S)') =
               Cardinality(Attached(x, S)) + One(a = x /\ s \in S) - One(Is(j, x, S))
  BY AttachedChanges
<1>2. /\ active[x] = Cardinality(Attached(x, Counted))
      /\ run[x] = Cardinality(Attached(x, {"RUN"}))
      /\ \/ \E k \in lost : User(k) = x[1]
         \/ sched[x] = Cardinality(Attached(x, {"SCHED"}))
  BY DEF CountsRecovered
<1> QED BY <1>1, <1>2 DEF Follows

(* A job that is attached to no association does not count.                *)
LEMMA UnattachedFollows ==
  ASSUME Typed, NEW j \in Jobs, NEW a, NEW s, UNCHANGED countVars,
         ~Real(aux[j]) \/ state[j] \notin Counted, ~Real(a) \/ s \notin Counted
  PROVE  Follows(j, a, s)
BY DEF Follows, Real, Counted, One, Is, countVars, Typed, CountTypesOK, Counts

LEMMA EventCounts ==
  ASSUME Typed, JobsOK, CountsRecovered, NEW j \in Jobs, JobEvent(j)
  PROVE  CountsRecovered'
<1> USE CountAt DEF Typed, CountTypesOK
<1>a. UNCHANGED lost /\ JobOK(j)
  BY DEF JobEvent, Submit, LeaveDepend, Alloc, GoInactive, JobsOK
<1>1. CASE Submit(j)
  <2>1. state[j] = "NEW"
    BY <1>1 DEF Submit
  <2>2. CASE SubmitWithoutData(j)
    <3>1. Becomes(j, "DEPEND", NoBank, <<User(j), DNE>>, TRUE) /\ UNCHANGED countVars
      BY <2>2 DEF SubmitWithoutData
    <3>2. ~Real(<<User(j), DNE>>)
      BY SyncAssumption DEF Real, Assocs
    <3>3. Follows(j, <<User(j), DNE>>, "DEPEND")
      BY <2>1, <3>1, <3>2, UnattachedFollows DEF Counted
    <3> QED BY <1>a, <3>1, <3>3, FollowingKeepsCounts
  <2>3. CASE RejectJob(j)
    <3>1. Becomes(j, "REJECTED", NoBank, NULL, FALSE) /\ UNCHANGED countVars
      BY <2>3 DEF RejectJob
    <3>2. Follows(j, NULL, "REJECTED")
      BY <2>1, <3>1, UnattachedFollows DEF Counted
    <3> QED BY <1>a, <3>1, <3>2, FollowingKeepsCounts
  <2>4. CASE SubmitKnown(j)
    <3> DEFINE a == get_association(User(j), NoBank)
    <3>1. /\ Becomes(j, "DEPEND", def_bank[User(j)], a, TRUE)
          /\ active' = Count(active, a, 1) /\ UNCHANGED <<sched, run>>
      BY <2>4 DEF SubmitKnown
    <3> HIDE DEF a
    <3>2. Follows(j, a, "DEPEND")
      BY <2>1, <3>1 DEF Follows, One, Is, Counted, Counts
    <3> QED BY <1>a, <3>1, <3>2, FollowingKeepsCounts
  <2> QED BY <1>1, <2>2, <2>3, <2>4 DEF Submit
<1>2. CASE LeaveDepend(j)
  <2>1. Becomes(j, "PRIORITY", bank[j], aux[j], info[j]) /\ state[j] = "DEPEND"
    BY <1>2 DEF LeaveDepend, Becomes, JobTypesOK
  <2>2. Follows(j, aux[j], "PRIORITY")
    BY <1>2, <2>1 DEF LeaveDepend, countVars, Follows, One, Is, Counted, Counts
  <2> QED BY <1>a, <2>1, <2>2, FollowingKeepsCounts
<1>3. CASE Alloc(j)
  <2>1. state[j] = "SCHED" /\ UNCHANGED active
    BY <1>3 DEF Alloc
  <2>2. CASE info[j]
    <3>1. /\ Becomes(j, "RUN", bank[j], aux[j], info[j])
          /\ run' = Count(run, aux[j], 1) /\ sched' = Count(sched, aux[j], -1)
      BY <1>3, <2>2 DEF Alloc
    <3>2. Follows(j, aux[j], "RUN")
      BY <2>1, <3>1 DEF Follows, One, Is, Counted, Counts
    <3> QED BY <1>a, <3>1, <3>2, FollowingKeepsCounts
  <2>3. CASE ~info[j]
    <3>1. Becomes(j, "INACTIVE", bank[j], aux[j], info[j]) /\ UNCHANGED countVars
      BY <1>3, <2>1, <2>3 DEF Alloc, countVars
    <3>2. ~Real(aux[j])
      BY <1>a, <2>1, <2>3 DEF JobOK, Counted
    <3>3. Follows(j, aux[j], "INACTIVE")
      BY <3>1, <3>2, UnattachedFollows
    <3> QED BY <1>a, <3>1, <3>3, FollowingKeepsCounts
  <2> QED BY <2>2, <2>3
<1>4. CASE GoInactive(j)
  <2>1. /\ Becomes(j, "INACTIVE", bank[j], aux[j], info[j])
        /\ state[j] \in {"DEPEND", "PRIORITY", "SCHED", "RUN"}
    BY <1>4 DEF GoInactive
  <2>2. CASE info[j]
    <3>1. /\ active' = Count(active, aux[j], -1)
          /\ sched' = IF state[j] = "SCHED" THEN Count(sched, aux[j], -1) ELSE sched
          /\ run' = IF state[j] = "RUN" THEN Count(run, aux[j], -1) ELSE run
      BY <1>4, <2>2 DEF GoInactive
    <3>2. Follows(j, aux[j], "INACTIVE")
      BY <2>1, <3>1 DEF Follows, One, Is, Counted, Counts
    <3> QED BY <1>a, <2>1, <3>2, FollowingKeepsCounts
  <2>3. CASE ~info[j]
    <3>1. UNCHANGED countVars
      BY <1>4, <2>3 DEF GoInactive
    <3>2. ~Real(aux[j])
      BY <1>a, <2>1, <2>3 DEF JobOK, Counted
    <3>3. Follows(j, aux[j], "INACTIVE")
      BY <3>1, <3>2, UnattachedFollows
    <3> QED BY <1>a, <2>1, <3>3, FollowingKeepsCounts
  <2> QED BY <2>2, <2>3
<1> QED BY <1>1, <1>2, <1>3, <1>4 DEF JobEvent

LEMMA CallbackCounts ==
  ASSUME Typed, JobsOK, CountsRecovered, NEW j \in Jobs, Callback(j)
  PROVE  CountsRecovered'
<1> USE CountAt DEF Typed, CountTypesOK
<1>a. JobOK(j)
  BY DEF JobsOK
<1> DEFINE a == get_association(User(j), bank[j])
<1>b. bank[j] \in Places /\ User(j) \in Users
  BY DNETypes DEF JobTypesOK
<1>c. Real(a) => a = <<User(j), Key(User(j), bank[j])>>
  BY <1>b, LookupTypes
<1> HIDE DEF a
<1>1. CASE Prioritize(j)
  <2>1. UNCHANGED lost /\ j \notin fresh /\ state[j] \in {"PRIORITY", "SCHED"}
    BY <1>1, <1>a DEF Prioritize, JobOK
  <2>2. CASE ~Missing(j) /\ Grant(j, bank[j], aux[j], 0)
    <3>1. /\ Becomes(j, "SCHED", bank[j], aux[j], TRUE)
          /\ active' = Count(active, aux[j], 0) /\ UNCHANGED run
          /\ sched' = Count(sched, aux[j], IF state[j] = "PRIORITY" THEN 1 ELSE 0)
      BY <2>2 DEF Grant
    <3>2. Follows(j, aux[j], "SCHED")
      BY <2>1, <3>1 DEF Follows, One, Is, Counted, Counts
    <3> QED BY <2>1, <3>1, <3>2, FollowingKeepsCounts
  <2>3. CASE Missing(j) /\ Real(a) /\ Grant(j, def_bank[User(j)], a, 1)
    <3>1. /\ Becomes(j, "SCHED", def_bank[User(j)], a, TRUE)
          /\ active' = Count(active, a, 1) /\ UNCHANGED run
          /\ sched' = Count(sched, a, IF state[j] = "PRIORITY" THEN 1 ELSE 0)
      BY <2>3 DEF Grant
    <3>2. state[j] = "SCHED" => j \in lost /\ User(j) = a[1]
      BY <1>a, <1>c, <2>1, <2>3 DEF JobOK, Counted
    <3>3. \A x \in Assocs : aux[j] # x
      BY <2>3 DEF Missing, Real
    <3>4. Follows(j, a, "SCHED")
      BY <2>1, <3>1, <3>2, <3>3 DEF Follows, One, Is, Counted, Counts
    <3> QED BY <2>1, <3>1, <3>4, FollowingKeepsCounts
  <2>4. CASE Missing(j) /\ UNCHANGED <<jobVars, countVars>>
    <3>1. Becomes(j, state[j], bank[j], aux[j], info[j]) /\ UNCHANGED countVars
      BY <2>4 DEF Becomes, jobVars, JobTypesOK
    <3>2. Follows(j, aux[j], state[j])
      BY <2>4, <3>1, UnattachedFollows DEF Missing
    <3> QED BY <2>1, <3>1, <3>2, FollowingKeepsCounts
  <2>5. CASE /\ Missing(j) /\ Becomes(j, "INACTIVE", bank[j], aux[j], info[j])
             /\ UNCHANGED countVars
    <3>1. Follows(j, aux[j], "INACTIVE")
      BY <2>5, UnattachedFollows DEF Missing
    <3> QED BY <2>1, <2>5, <3>1, FollowingKeepsCounts
  <2> QED BY <1>1, <2>2, <2>3, <2>4, <2>5 DEF Prioritize, priority_cb, a
<1>2. CASE new_cb(j)
  <2>1. /\ lost \subseteq lost' /\ aux[j] = NULL /\ ~Real(NULL)
        /\ state[j] \in Counted
    BY <1>2, <1>a, SyncAssumption DEF new_cb, JobOK, Real, Assocs
  <2>2. CASE NewWithoutData(j)
    <3>1. /\ Becomes(j, state[j], bank[j], <<User(j), DNE>>, FALSE)
          /\ UNCHANGED countVars
      BY <2>2 DEF NewWithoutData
    <3>2. ~Real(<<User(j), DNE>>)
      BY SyncAssumption DEF Real, Assocs
    <3>3. Follows(j, <<User(j), DNE>>, state[j])
      BY <2>1, <3>1, <3>2, UnattachedFollows
    <3> QED BY <2>1, <3>1, <3>3, FollowingKeepsCounts
  <2>3. CASE NewAttached(j, a)
    <3> DEFINE b == IF bank[j] = NoBank THEN def_bank[User(j)] ELSE bank[j]
    <3>1. /\ Becomes(j, state[j], b, a, TRUE)
          /\ active' = Count(active, a, 1)
          /\ sched' = IF state[j] = "SCHED" THEN Count(sched, a, 1) ELSE sched
          /\ run' = IF state[j] = "RUN" THEN Count(run, a, 1) ELSE run
      BY <2>3 DEF NewAttached
    <3> HIDE DEF b
    <3>2. \A x \in Assocs : aux[j] # x
      BY <2>1 DEF Real
    <3>3. Follows(j, a, state[j])
      BY <2>1, <3>1, <3>2 DEF Follows, One, Is, Counted, Counts
    <3> QED BY <2>1, <3>1, <3>3, FollowingKeepsCounts
  <2> QED BY <1>2, <2>2, <2>3 DEF new_cb, a
<1> QED BY <1>1, <1>2 DEF Callback

LEMMA LoadCounts ==
  ASSUME NEW w \in BOOLEAN, Load(w)
  PROVE  CountsRecovered'
<1> SUFFICES ASSUME NEW x \in Assocs
             PROVE  /\ active'[x] = 0 /\ run'[x] = 0 /\ sched'[x] = 0
                    /\ \A S : Attached(x, S)' = {}
  BY FS_EmptySet DEF CountsRecovered
<1>1. NULL # x
  BY SyncAssumption DEF Assocs
<1> QED BY <1>1 DEF Load, Zero, Attached

LEMMA NextCounts == Typed /\ JobsOK /\ CountsRecovered /\ [Next]_vars => CountsRecovered'
<1> SUFFICES ASSUME Typed, JobsOK, CountsRecovered, [Next]_vars PROVE CountsRecovered'
  OBVIOUS
<1>1. ASSUME NEW p \in Runs, Update(p) PROVE CountsRecovered'
  <2>1. UNCHANGED <<state, aux, active, sched, run, lost>>
    BY <1>1 DEF Update, StartRun, Script, Read, rec_update_cb, rec_other_cb, reprior_cb,
       send_instance_owner_info, Kill, jobVars, countVars
  <2> QED BY <2>1 DEF CountsRecovered, Attached
<1>2. ASSUME NEW j \in Jobs, JobEvent(j) \/ Callback(j) PROVE CountsRecovered'
  BY <1>2, EventCounts, CallbackCounts
<1>3. ASSUME NEW w \in BOOLEAN, Load(w) PROVE CountsRecovered'
  BY <1>3, LoadCounts
<1>4. CASE Command \/ UNCHANGED vars
  <2>1. UNCHANGED <<state, aux, active, sched, run, lost>>
    BY <1>4 DEF Command, ChangeAssociation, ChangeDefault, ChangeOther, Commit, vars,
       jobVars, countVars
  <2> QED BY <2>1 DEF CountsRecovered, Attached
<1> QED BY <1>1, <1>2, <1>3, <1>4 DEF Next

(***************************************************************************)
(* The counts of every association are those of the jobs attached to it,   *)
(* when data come late, when the plugin is loaded again in the middle of   *)
(* everything, and when it takes in the jobs it finds; the count of        *)
(* scheduled jobs only for users no job of whom was lost.                  *)
(***************************************************************************)
THEOREM CountsAreRecovered == Spec => []CountsRecovered
<1>1. Init => CountsRecovered
  <2> SUFFICES ASSUME NEW d \in Database, InitWith(d), NEW x \in Assocs
               PROVE  /\ active[x] = 0 /\ run[x] = 0 /\ sched[x] = 0
                      /\ \A S : Attached(x, S) = {}
    BY FS_EmptySet DEF Init, CountsRecovered
  <2>1. NULL # x
    BY SyncAssumption DEF Assocs
  <2> QED BY <2>1 DEF InitWith, Zero, Attached
<1> QED BY <1>1, InitJobs, NextJobs, AlwaysTyped, NextCounts, PTL DEF Spec
=============================================================================
