------------------------------- MODULE PluginSync -------------------------------
(***************************************************************************)
(* How the accounting data get from the database into the priority plugin, *)
(* and what happens to jobs that are there before the data: the cron       *)
(* script "flux account-priority-update", which reads one table after the  *)
(* other and sends each to the plugin, the plugin's maps, and the plugin's *)
(* load, with the JSON of "flux account export-json" or without data.      *)
(*                                                                         *)
(*   db                    the committed tables; commands change them      *)
(*   pc, next, held        each run of the script: whether it has read,    *)
(*                         the step it is at, and the rows it has read     *)
(*   rows, def_bank, waiting, more                                         *)
(*                         the plugin: users map, users_def_bank, users    *)
(*                         with an entry under "DNE", and the other maps   *)
(*   active, sched, run    the counts of each association                  *)
(*   state, bank, aux, info                                                *)
(*                         the job manager's jobs, the bank in the jobspec *)
(*                         and the plugin's aux items                      *)
(*   fresh, sweep          the jobs that job.new and job.priority.get have *)
(*                         still to be called for                          *)
(*   lost                  history: the jobs that a loaded plugin has met  *)
(*                         again without knowing their association         *)
(*   changes, kills, loads bounded counters                                *)
(*                                                                         *)
(* Limits and held jobs are in MFPriority; here no job is held.  Jobs name *)
(* neither a bank nor a project nor a queue when they are submitted.       *)
(***************************************************************************)
EXTENDS Integers, Sequences, FiniteSets

CONSTANTS
  Users, Banks, Jobs, JobUser,
  Owner, OwnBank,   \* the owner of the Flux instance, and its bank
  DNE,              \* the bank of an association without data
  NoBank,
  Absent, On, Off,  \* a row that is not there, an active and a disabled one
  Tables,           \* the other tables, in the order they are sent
  Merged,           \* those whose rows the plugin adds to what it has
  Names, Values,    \* keys and contents of their rows
  Initial,          \* what the plugin starts with
  Changed,          \* the associations that commands touch
  Runs,             \* concurrent runs of the script
  NULL,
  MaxChanges, MaxKills, MaxLoads

Assocs == Users \X Banks
Others == {Tables[i] : i \in DOMAIN Tables}

ASSUME SyncAssumption ==
  /\ JobUser \in [Jobs -> Users]
  /\ Owner \in Users /\ OwnBank \in Banks
  /\ {DNE, NoBank} \cap Banks = {} /\ DNE # NoBank
  /\ NULL \notin Users \X (Banks \cup {DNE})
  /\ IsFiniteSet(Jobs)
  /\ Tables \in Seq(Others)
  /\ Absent \notin {On, Off} \cup Values /\ On # Off
  /\ Merged \subseteq Others
  /\ Initial \in [Others -> [Names -> Values \cup {Absent}]]
  /\ Changed \subseteq Assocs
  /\ MaxChanges \in Nat /\ MaxKills \in Nat /\ MaxLoads \in Nat

Database == [rows: [Assocs -> {Absent, On, Off}], def: [Users -> Banks],
             more: [Others -> [Names -> Values \cup {Absent}]]]

VARIABLES db, pc, next, held, rows, def_bank, waiting, more, active, sched, run,
          state, bank, aux, info, fresh, sweep, lost, changes, kills, loads

scriptVars == <<pc, next, held>>
mapVars == <<rows, def_bank, waiting, more>>
countVars == <<active, sched, run>>
jobVars == <<state, bank, aux, info>>
boundVars == <<changes, kills, loads>>
vars == <<db, scriptVars, mapVars, countVars, jobVars, fresh, sweep, lost,
          boundVars>>

(* The reactor of the job manager is not in the middle of a callback.      *)
Idle == fresh = {} /\ sweep = {}

---------------------------------------------------------------------------
(* Lookups in the plugin's maps. *)

Present(u) == u \in waiting \/ \E b \in Banks : rows[<<u, b>>] # Absent
check_map_for_dne_only == \A u \in Users : Present(u) => def_bank[u] \in {DNE, NoBank}

Key(u, b) == IF b = NoBank THEN def_bank[u] ELSE b
Found(u, b) == \/ Key(u, b) = DNE /\ u \in waiting
               \/ Key(u, b) \in Banks /\ rows[<<u, Key(u, b)>>] # Absent
get_association(u, b) == IF Found(u, b) THEN <<u, Key(u, b)>> ELSE NULL

Real(a) == a \in Assocs
Missing(j) == ~Real(aux[j])
User(j) == JobUser[j]

---------------------------------------------------------------------------
(* What the plugin makes of the rows it is sent. *)

LoadRows(have, sent) == [a \in Assocs |-> IF sent.rows[a] = Absent THEN have[a]
                                          ELSE sent.rows[a]]
HasRow(sent, u) == \E b \in Banks : sent.rows[<<u, b>>] # Absent
LoadDefaults(have, sent) == [u \in Users |-> IF HasRow(sent, u) THEN sent.def[u]
                                             ELSE have[u]]
\* Variant: a row is added only when it is new.
LoadNewOnly(t, have, sent) ==
  [n \in Names |-> IF have[n] = Absent THEN sent[n] ELSE have[n]]
\* load_queues, load_projects and load_banks clear; load_priority_factors does not.
LoadOther(t, have, sent) ==
  IF t \in Merged THEN [n \in Names |-> IF sent[n] = Absent THEN have[n] ELSE sent[n]]
  ELSE sent

---------------------------------------------------------------------------
(* The script.  Step 0 is association_table, then come the other tables,   *)
(* the request to reprioritize, and the owner of the instance.             *)

Last == Len(Tables) + 2
NoRows == [rows |-> [a \in Assocs |-> Absent], def |-> [u \in Users |-> OwnBank],
           more |-> Initial]

StartRun(p) ==
  /\ pc[p] = "idle"
  /\ pc' = [pc EXCEPT ![p] = "read"]
  /\ next' = [next EXCEPT ![p] = 0]
  /\ UNCHANGED <<db, held, mapVars, countVars, jobVars, fresh, sweep, lost,
                 boundVars>>

(* SELECT: each table as it is at that time. *)
Read(p) ==
  /\ pc[p] = "read"
  /\ next[p] <= Len(Tables)
  /\ held' = [held EXCEPT ![p] =
                IF next[p] = 0 THEN [NoRows EXCEPT !.rows = db.rows, !.def = db.def]
                ELSE [NoRows EXCEPT !.more[Tables[next[p]]] = db.more[Tables[next[p]]]]]
  /\ pc' = [pc EXCEPT ![p] = "send"]
  /\ UNCHANGED <<db, next, mapVars, countVars, jobVars, fresh, sweep, lost,
                 boundVars>>

Advance(p) == /\ next' = [next EXCEPT ![p] = @ + 1]
              /\ pc' = [pc EXCEPT ![p] = "read"]
              /\ held' = [held EXCEPT ![p] = NoRows]

rec_update_cb(p) ==
  /\ Idle
  /\ pc[p] = "send"
  /\ next[p] = 0
  /\ rows' = LoadRows(rows, held[p])
  /\ def_bank' = LoadDefaults(def_bank, held[p])
  /\ Advance(p)
  /\ UNCHANGED <<db, waiting, more, countVars, jobVars, fresh, sweep, lost,
                 boundVars>>

(* rec_q_cb, rec_proj_cb, rec_bank_cb, rec_factor_cb, rec_config_cb.       *)
rec_other_cb(p) ==
  /\ Idle
  /\ pc[p] = "send"
  /\ next[p] > 0
  /\ LET t == Tables[next[p]]
     IN more' = [more EXCEPT ![t] = LoadOther(t, @, held[p].more[t])]
  /\ Advance(p)
  /\ UNCHANGED <<db, rows, def_bank, waiting, countVars, jobVars, fresh, sweep, lost,
                 boundVars>>

\* Variant: jobs without a priority are left out.
reprior_scheduled_cb(p) ==
  /\ Idle
  /\ pc[p] = "read"
  /\ next[p] = Len(Tables) + 1
  /\ sweep' = {j \in Jobs : state[j] = "SCHED"}
  /\ Advance(p)
  /\ UNCHANGED <<db, mapVars, countVars, jobVars, fresh, lost, boundVars>>

reprior_cb(p) ==
  /\ Idle
  /\ pc[p] = "read"
  /\ next[p] = Len(Tables) + 1
  /\ sweep' = {j \in Jobs : state[j] \in {"PRIORITY", "SCHED"}}
  /\ Advance(p)
  /\ UNCHANGED <<db, mapVars, countVars, jobVars, fresh, lost, boundVars>>

send_instance_owner_info(p) ==
  /\ Idle
  /\ pc[p] = "read"
  /\ next[p] = Last
  /\ rows' = [rows EXCEPT ![<<Owner, OwnBank>>] = On]
  /\ def_bank' = [def_bank EXCEPT ![Owner] = OwnBank]
  /\ pc' = [pc EXCEPT ![p] = "idle"]
  /\ UNCHANGED <<db, next, held, waiting, more, countVars, jobVars, fresh, sweep,
                 lost, boundVars>>

(* The script is killed, or cannot reach the plugin. *)
Kill(p) ==
  /\ pc[p] # "idle"
  /\ kills < MaxKills
  /\ kills' = kills + 1
  /\ pc' = [pc EXCEPT ![p] = "idle"]
  /\ held' = [held EXCEPT ![p] = NoRows]
  /\ UNCHANGED <<db, next, mapVars, countVars, jobVars, fresh, sweep, lost, changes,
                 loads>>

Script(p) == \/ Read(p) \/ rec_update_cb(p) \/ rec_other_cb(p) \/ reprior_cb(p)
             \/ send_instance_owner_info(p)

---------------------------------------------------------------------------
(* Jobs. *)

add_special_association(u) ==
  /\ waiting' = waiting \cup {u}
  /\ def_bank' = [def_bank EXCEPT ![u] = DNE]
  /\ UNCHANGED <<rows, more>>

Count(counts, a, d) == IF Real(a) THEN [counts EXCEPT ![a] = @ + d] ELSE counts

Becomes(j, s, b, a, i) ==
  /\ state' = [state EXCEPT ![j] = s]
  /\ bank' = [bank EXCEPT ![j] = b]
  /\ aux' = [aux EXCEPT ![j] = a]
  /\ info' = [info EXCEPT ![j] = i]

(* job.validate has added a special association and attached it to the     *)
(* job, so that job.new finds it there and leaves the jobspec alone.       *)
SubmitWithoutData(j) ==
  /\ get_association(User(j), NoBank) = NULL
  /\ check_map_for_dne_only
  /\ add_special_association(User(j))
  /\ Becomes(j, "DEPEND", NoBank, <<User(j), DNE>>, TRUE)
  /\ UNCHANGED countVars

Rejected(j) ==
  LET a == get_association(User(j), NoBank)
  IN \/ a = NULL /\ ~check_map_for_dne_only
     \/ Real(a) /\ rows[a] = Off

RejectJob(j) ==
  /\ Rejected(j)
  /\ Becomes(j, "REJECTED", NoBank, NULL, FALSE)
  /\ UNCHANGED <<mapVars, countVars>>

(* update_jobspec_bank writes users_def_bank, whatever it is. *)
SubmitKnown(j) ==
  LET a == get_association(User(j), NoBank)
  IN /\ a # NULL
     /\ ~Rejected(j)
     /\ Becomes(j, "DEPEND", def_bank[User(j)], a, TRUE)
     /\ active' = Count(active, a, 1)
     /\ UNCHANGED <<mapVars, sched, run>>

Submit(j) ==
  /\ Idle
  /\ state[j] = "NEW"
  /\ SubmitWithoutData(j) \/ RejectJob(j) \/ SubmitKnown(j)
  /\ UNCHANGED <<db, scriptVars, fresh, sweep, lost, boundVars>>

(* Whatever else the job depends on is done. *)
LeaveDepend(j) ==
  /\ Idle
  /\ state[j] = "DEPEND"
  /\ state' = [state EXCEPT ![j] = "PRIORITY"]
  /\ sweep' = {j}
  /\ UNCHANGED <<db, scriptVars, mapVars, countVars, bank, aux, info, fresh, lost,
                 boundVars>>

\* Variant: the count of active jobs is left as it was.
GrantUncounted(j, b, a, extra) ==
  /\ Becomes(j, "SCHED", b, a, TRUE)
  /\ sched' = Count(sched, a, IF state[j] = "PRIORITY" THEN 1 ELSE 0)
  /\ UNCHANGED <<active, run>>

\* Variant: the bank in the jobspec is left as it was.
GrantUnnamed(j, b, a, extra) ==
  /\ Becomes(j, "SCHED", bank[j], a, TRUE)
  /\ active' = Count(active, a, extra)
  /\ sched' = Count(sched, a, IF state[j] = "PRIORITY" THEN 1 ELSE 0)
  /\ UNCHANGED run

(* priority_cb: the job gets a priority and goes on to job.state.sched, or *)
(* stays where it is, or gets an exception.                                *)
Grant(j, b, a, extra) ==
  /\ Becomes(j, "SCHED", b, a, TRUE)
  /\ active' = Count(active, a, extra)
  /\ sched' = Count(sched, a, IF state[j] = "PRIORITY" THEN 1 ELSE 0)
  /\ UNCHANGED run

priority_cb(j) ==
  LET a == get_association(User(j), bank[j])
  IN /\ \/ ~Missing(j) /\ Grant(j, bank[j], aux[j], 0)
        \/ Missing(j) /\ Real(a) /\ Grant(j, def_bank[User(j)], a, 1)
        \/ /\ Missing(j)
           /\ ~Real(a)
           /\ a = NULL => check_map_for_dne_only
           /\ UNCHANGED <<jobVars, countVars>>
        \/ /\ Missing(j)
           /\ a = NULL /\ ~check_map_for_dne_only
           /\ Becomes(j, "INACTIVE", bank[j], aux[j], info[j])
           /\ UNCHANGED countVars
     /\ UNCHANGED mapVars

Prioritize(j) ==
  /\ j \in sweep
  /\ priority_cb(j)
  /\ sweep' = sweep \ {j}
  /\ UNCHANGED <<db, scriptVars, fresh, lost, boundVars>>

(* run_cb ends a job without its aux item. *)
Alloc(j) ==
  /\ Idle
  /\ state[j] = "SCHED"
  /\ Becomes(j, IF info[j] THEN "RUN" ELSE "INACTIVE", bank[j], aux[j], info[j])
  /\ run' = IF info[j] THEN Count(run, aux[j], 1) ELSE run
  /\ sched' = IF info[j] THEN Count(sched, aux[j], -1) ELSE sched
  /\ UNCHANGED <<db, scriptVars, mapVars, active, fresh, sweep, lost, boundVars>>

(* inactive_cb gives up on a job without its aux item. *)
GoInactive(j) ==
  /\ Idle
  /\ state[j] \in {"DEPEND", "PRIORITY", "SCHED", "RUN"}
  /\ Becomes(j, "INACTIVE", bank[j], aux[j], info[j])
  /\ IF info[j]
       THEN /\ active' = Count(active, aux[j], -1)
            /\ sched' = IF state[j] = "SCHED" THEN Count(sched, aux[j], -1) ELSE sched
            /\ run' = IF state[j] = "RUN" THEN Count(run, aux[j], -1) ELSE run
       ELSE UNCHANGED countVars
  /\ UNCHANGED <<db, scriptVars, mapVars, fresh, sweep, lost, boundVars>>

---------------------------------------------------------------------------
(* The plugin is loaded, alone or in a restart of the job manager.         *)

Unfinished == {j \in Jobs : state[j] \in {"DEPEND", "PRIORITY", "SCHED", "RUN"}}
Nothing == [a \in Assocs |-> Absent]
Zero == [a \in Assocs |-> 0]

(* flux_plugin_init sets the default weights after the data are loaded.    *)
flux_plugin_init(with_data) ==
  /\ rows' = IF with_data THEN db.rows ELSE Nothing
  /\ def_bank' = [u \in Users |-> IF with_data /\ HasRow(db, u) THEN db.def[u] ELSE NoBank]
  /\ more' = [t \in Others |-> IF with_data /\ t \notin Merged THEN db.more[t]
                               ELSE Initial[t]]
  /\ waiting' = {}

Load(with_data) ==
  /\ Idle
  /\ loads < MaxLoads
  /\ loads' = loads + 1
  /\ flux_plugin_init(with_data)
  /\ active' = Zero /\ sched' = Zero /\ run' = Zero
  /\ aux' = [j \in Jobs |-> NULL]
  /\ info' = [j \in Jobs |-> FALSE]
  /\ fresh' = Unfinished
  /\ UNCHANGED <<db, scriptVars, state, bank, sweep, lost, changes, kills>>

(* The job manager calls job.new for the jobs it has, the ones in later    *)
(* states first.                                                           *)
Rank(j) == CASE state[j] = "RUN" -> 4 [] state[j] = "SCHED" -> 3
             [] state[j] = "PRIORITY" -> 2 [] OTHER -> 1

NewAttached(j, a) ==
  /\ Becomes(j, state[j], IF bank[j] = NoBank THEN def_bank[User(j)] ELSE bank[j], a, TRUE)
  /\ active' = Count(active, a, 1)
  /\ sched' = IF state[j] = "SCHED" THEN Count(sched, a, 1) ELSE sched
  /\ run' = IF state[j] = "RUN" THEN Count(run, a, 1) ELSE run
  /\ UNCHANGED mapVars

NewWithoutData(j) ==
  /\ add_special_association(User(j))
  /\ Becomes(j, state[j], bank[j], <<User(j), DNE>>, FALSE)
  /\ UNCHANGED countVars

new_cb(j) ==
  /\ j \in fresh
  /\ \A k \in fresh : Rank(k) <= Rank(j)
  /\ LET a == get_association(User(j), bank[j])
     IN /\ IF a = NULL THEN NewWithoutData(j) ELSE NewAttached(j, a)
        /\ lost' = IF Real(a) THEN lost ELSE lost \cup {j}
  /\ fresh' = fresh \ {j}
  /\ UNCHANGED <<db, scriptVars, sweep, boundVars>>

---------------------------------------------------------------------------
(* Commands, each of one transaction. *)

Commit(d) ==
  /\ changes < MaxChanges
  /\ changes' = changes + 1
  /\ db' = d
  /\ UNCHANGED <<scriptVars, mapVars, countVars, jobVars, fresh, sweep, lost, kills,
                 loads>>

ChangeAssociation ==
  \E a \in Changed, v \in {Absent, On, Off} : Commit([db EXCEPT !.rows[a] = v])
ChangeDefault ==
  \E a \in Changed : db.rows[a] # Absent /\ Commit([db EXCEPT !.def[a[1]] = a[2]])
ChangeOther ==
  \E t \in Others, n \in Names, v \in Values \cup {Absent} :
    /\ t \in Merged => v # Absent
    /\ Commit([db EXCEPT !.more[t][n] = v])

---------------------------------------------------------------------------
InitWith(d) ==
  /\ db = d
  /\ pc = [p \in Runs |-> "idle"]
  /\ next = [p \in Runs |-> 0]
  /\ held = [p \in Runs |-> NoRows]
  /\ rows = Nothing
  /\ def_bank = [u \in Users |-> NoBank]
  /\ waiting = {}
  /\ more = Initial
  /\ active = Zero /\ sched = Zero /\ run = Zero
  /\ state = [j \in Jobs |-> "NEW"]
  /\ bank = [j \in Jobs |-> NoBank]
  /\ aux = [j \in Jobs |-> NULL]
  /\ info = [j \in Jobs |-> FALSE]
  /\ fresh = {} /\ sweep = {} /\ lost = {}
  /\ changes = 0 /\ kills = 0 /\ loads = 0

Init == \E d \in Database : InitWith(d)

Update(p) == StartRun(p) \/ Script(p) \/ Kill(p)
JobEvent(j) == Submit(j) \/ LeaveDepend(j) \/ Alloc(j) \/ GoInactive(j)
Callback(j) == Prioritize(j) \/ new_cb(j)
Command == ChangeAssociation \/ ChangeDefault \/ ChangeOther

Next ==
  \/ \E p \in Runs : Update(p)
  \/ \E j \in Jobs : JobEvent(j) \/ Callback(j)
  \/ \E with_data \in BOOLEAN : Load(with_data)
  \/ Command

Spec == Init /\ [][Next]_vars

(* cron starts the script again and again, a started one goes on, and the  *)
(* job manager ends what it is doing.                                      *)
Fairness ==
  /\ \A p \in Runs : WF_vars(Script(p)) /\ WF_vars(StartRun(p))
  /\ WF_vars(\E j \in Jobs : Callback(j))

---------------------------------------------------------------------------
(* Properties *)

States == {"NEW", "REJECTED", "DEPEND", "PRIORITY", "SCHED", "RUN", "INACTIVE"}
Counts == [Assocs -> Int]

(* The types of the variables. *)
TypeOK ==
  /\ db \in Database
  /\ pc \in [Runs -> {"idle", "read", "send"}]
  /\ next \in [Runs -> 0..Last]
  /\ held \in [Runs -> Database]
  /\ rows \in [Assocs -> {Absent, On, Off}]
  /\ def_bank \in [Users -> Banks \cup {DNE, NoBank}]
  /\ waiting \subseteq Users
  /\ more \in [Others -> [Names -> Values \cup {Absent}]]
  /\ active \in Counts /\ sched \in Counts /\ run \in Counts
  /\ state \in [Jobs -> States]
  /\ bank \in [Jobs -> Banks \cup {DNE, NoBank}]
  /\ aux \in [Jobs -> Assocs \cup (Users \X {DNE}) \cup {NULL}]
  /\ info \in [Jobs -> BOOLEAN]
  /\ fresh \subseteq Jobs /\ sweep \subseteq Jobs /\ lost \subseteq Jobs
  /\ changes \in 0..MaxChanges /\ kills \in 0..MaxKills /\ loads \in 0..MaxLoads

(* What an association is counted for are the jobs attached to it, also    *)
(* after data came late and after the plugin was loaded again; jobs in     *)
(* SCHED only where no job of the user was lost, for priority_cb does not  *)
(* count such a job in SCHED when its association is known at last.        *)
Attached(a, states) == {j \in Jobs : aux[j] = a /\ state[j] \in states}
Counted == {"DEPEND", "PRIORITY", "SCHED", "RUN"}
CountsRecovered ==
  \A a \in Assocs :
    /\ active[a] = Cardinality(Attached(a, Counted))
    /\ run[a] = Cardinality(Attached(a, {"RUN"}))
    /\ \/ \E j \in lost : User(j) = a[1]
       \/ sched[a] = Cardinality(Attached(a, {"SCHED"}))

(* No job gets past PRIORITY without an association the plugin was told    *)
(* of, and its jobspec names that association's bank, by which its usage   *)
(* is charged; a lost job excepted, which is taken in under the default    *)
(* bank whatever bank it has.                                              *)
ScheduledUnderItsBank ==
  \A j \in Jobs \ (lost \cup fresh) :
    state[j] \in {"SCHED", "RUN"} =>
      Real(aux[j]) /\ rows[aux[j]] # Absent /\ bank[j] = aux[j][2]

(* The plugin catches up with the tables once they rest: every row of an   *)
(* association is there as it is in the table, with the user's default     *)
(* bank, and the other maps say what their tables say.  (The plugin makes  *)
(* a bank of its own the owner's default.)                                 *)
InStep ==
  /\ \A a \in Assocs : db.rows[a] # Absent => rows[a] = db.rows[a]
  /\ \A u \in Users \ {Owner} : HasRow(db, u) => def_bank[u] = db.def[u]
  /\ \A t \in Others, n \in Names :
       \/ t \in Merged /\ db.more[t][n] = Absent
       \/ more[t][n] = db.more[t][n]
PluginCatchesUp == <>[]InStep

(* A job that waits in PRIORITY gets out of it once the tables hold an     *)
(* association it can run under.                                           *)
Expected(j) == LET b == IF bank[j] \in Banks THEN bank[j] ELSE db.def[User(j)]
               IN db.rows[<<User(j), b>>] # Absent
WaitersGetIn == \A j \in Jobs : ~<>[](state[j] = "PRIORITY" /\ Expected(j))
=============================================================================
