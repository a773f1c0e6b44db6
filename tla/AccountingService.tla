-------------------------- MODULE AccountingService --------------------------
(***************************************************************************)
(* The accounting service: clients call it through flux-core, it runs one  *)
(* request after the other on its connection to the database, and it can   *)
(* be shut down or killed and started again.                               *)
(*                                                                         *)
(*   up       the service is running and registered                        *)
(*   calling  the request each client waits for                            *)
(*   inbox    the clients in the order their requests arrived; the first   *)
(*            is the one being served                                      *)
(*   answer   what each client was told last                               *)
(*   shown    whether the rows the last view showed are committed          *)
(*   calls    the number of calls made so far (bounded by MaxCalls)        *)
(*                                                                         *)
(* A client is "flux account": it sends one request and waits.             *)
(***************************************************************************)
EXTENDS AccountingDB

CONSTANTS
  Owner,      \* the user who owns the Flux instance
  Guests,     \* every other user
  Sent,       \* the requests clients send
  MaxCalls

Shutdown == [op |-> "shutdown_service"]
NoCall == [op |-> "none"]

ASSUME ServiceAssumption ==
  /\ Owner \notin Guests
  /\ Sent \subseteq Edits \cup Views \cup {Shutdown}
  /\ Requests = Sent \cap Edits
  /\ MaxCalls \in Nat

Clients == Guests \cup {Owner}

VARIABLES up, calling, inbox, answer, shown, calls
service_vars == <<up, calling, inbox, answer, shown, calls>>
all_vars == <<vars, service_vars>>

---------------------------------------------------------------------------
(* Who may call what: the endpoints a guest's message is let through to.   *)
General ==
  {"view_user", "view_bank", "list_banks", "view_queue", "view_project",
   "list_projects", "list_queues", "list_users", "view_factor", "list_factors",
   "view_config", "list_configs", "bank_info", "view_job_records", "jobs",
   "show_usage", "view_usage_report"}

Allowed(c, r) == c = Owner \/ r.op \in General

---------------------------------------------------------------------------
(* Views.  They read what the service's connection sees.                   *)

Show(seen, stored) == /\ Idle
                      /\ shown' = IF seen = stored THEN "committed" ELSE "uncommitted"
                      /\ NoWrite
                      /\ Answer("ok")
                      /\ UNCHANGED now

(* A view of one row: not finding it is an error. *)
ShowFound(seen, stored) == \/ seen # {} /\ Show(seen, stored)
                           \/ seen = {} /\ Idle /\ Raise /\ UNCHANGED <<now, shown>>

ViewUser(r) == /\ r.op = "view_user"
               /\ LET Rows(d) == RowsOf(d, r.user) IN ShowFound(Rows(work), Rows(disk))
ListUsers(r) == /\ r.op = "list_users"
                /\ LET Rows(d) == {x \in d.assocs : r.bank \in {Keep, x.bank}}
                   IN Show(Rows(work), Rows(disk))
ViewBank(r) == /\ r.op = "view_bank"
               /\ LET Rows(d) == {x \in d.banks : x.bank = r.bank}
                  IN ShowFound(Rows(work), Rows(disk))
ListBanks(r) == /\ r.op = "list_banks"
                /\ LET Rows(d) == {x \in d.banks : r.inactive \/ x.active}
                   IN Show(Rows(work), Rows(disk))

(* The user's places in the tree that hangs on the root; a tree that does  *)
(* not end is an error too.                                                *)
RootNames(d) == {x.bank : x \in {y \in d.banks : y.parent = NoBank}}
BankInfo(r) ==
  /\ r.op = "bank_info"
  /\ LET Rows(d) == IF \E b \in RootNames(d) : EndlessBelow(d, b) THEN {}
                    ELSE {x \in RowsOf(d, r.user) : x.bank \in Below(d, RootNames(d))}
     IN ShowFound(Rows(work), Rows(disk))

ViewQueue(r) == /\ r.op = "view_queue"
                /\ LET Rows(d) == {x \in d.queues : x.queue = r.queue}
                   IN ShowFound(Rows(work), Rows(disk))
ListQueues(r) == r.op = "list_queues" /\ Show(work.queues, disk.queues)
ViewProject(r) == /\ r.op = "view_project"
                  /\ LET Rows(d) == d.projects \cap {r.project}
                     IN ShowFound(Rows(work), Rows(disk))
ListProjects(r) == r.op = "list_projects" /\ Show(work.projects, disk.projects)
ViewFactor(r) == /\ r.op = "view_factor"
                 /\ LET Rows(d) == {<<f, d.weights[f]>> : f \in Factors \cap {r.factor}}
                    IN ShowFound(Rows(work), Rows(disk))
ListFactors(r) == r.op = "list_factors" /\ Show(work.weights, disk.weights)
ViewConfig(r) == /\ r.op = "view_config"
                 /\ LET Rows(d) == {x \in d.config : x[1] = r.key}
                    IN ShowFound(Rows(work), Rows(disk))
ListConfigs(r) == r.op = "list_configs" /\ Show(work.config, disk.config)

(* The priorities of a user's jobs: what the tables say about them.        *)
Jobs(r) ==
  /\ r.op = "jobs"
  /\ LET Rows(d) == {<<x, d.queues, d.weights>> :
                        x \in {z \in RowsOf(d, r.user) : r.bank \in {Keep, z.bank}}
                             \X {z \in d.banks : r.bank \in {Keep, z.bank}}}
     IN ShowFound(Rows(work), Rows(disk))
ShowUsage(r) ==
  /\ r.op = "show_usage"
  /\ LET Rows(d) == IF r.table = "associations" THEN {<<x.user, x.bank>> : x \in d.assocs}
                    ELSE {<<x.bank, x.parent>> : x \in {y \in d.banks : y.parent # NoBank}}
     IN Show(Rows(work), Rows(disk))

(* The records of jobs, which are not here, unless a filter is refused.    *)
ViewRecords(r, name) ==
  /\ r.op = name
  /\ \/ r.filter = Bad /\ Idle /\ Raise /\ UNCHANGED <<now, shown>>
     \/ r.filter # Bad /\ Show({}, {})

(* The tables as files, or the tree for the emulator, which has a root.    *)
ExportDb(r) ==
  /\ r.op = "export_db"
  /\ LET Rows(d) == IF r.emulate /\ ~HasRoot(d) THEN {} ELSE {d}
     IN ShowFound(Rows(work), Rows(disk))

(* Everything the plugin is to know, of one state of the tables.           *)
ExportJson(r) == r.op = "export_json" /\ Show(work, disk)

---------------------------------------------------------------------------
(* The handlers: a request runs its function.                              *)

UserHandlers(r) == \/ ViewUser(r) \/ ListUsers(r)
                   \/ (AddUser(r) \/ DeleteUser(r) \/ EditUser(r)) /\ UNCHANGED shown
BankHandlers(r) == \/ ViewBank(r) \/ ListBanks(r)
                   \/ (AddBank(r) \/ DeleteBank(r) \/ EditBank(r)) /\ UNCHANGED shown
RecordHandlers(r) == ViewRecords(r, "view_job_records")
QueueHandlers(r) == \/ ViewQueue(r) \/ ListQueues(r)
                    \/ (AddQueue(r) \/ DeleteQueue(r) \/ EditQueue(r)) /\ UNCHANGED shown
ProjectHandlers(r) == \/ ViewProject(r) \/ ListProjects(r)
                      \/ (AddProject(r) \/ DeleteProject(r)) /\ UNCHANGED shown
DatabaseHandlers(r) == \/ ExportDb(r)
                       \/ (ScrubOldJobs(r) \/ PopulateDb(r)) /\ UNCHANGED shown
FactorHandlers(r) == \/ ViewFactor(r) \/ ListFactors(r)
                     \/ (EditFactor(r) \/ ResetFactors(r)) /\ UNCHANGED shown
JobHandlers(r) == Jobs(r) \/ ShowUsage(r)
TableHandlers(r) == \/ ExportJson(r)
                    \/ (EditAllUsers(r) \/ SyncUserids(r)) /\ UNCHANGED shown
UsageHandlers(r) == \/ ViewRecords(r, "view_usage_report")
                    \/ ClearUsage(r) /\ UNCHANGED shown
ConfigHandlers(r) == \/ ViewConfig(r) \/ ListConfigs(r) \/ BankInfo(r)
                     \/ (AddConfig(r) \/ EditConfig(r) \/ DeleteConfig(r)) /\ UNCHANGED shown

Handle(r) ==
  \/ UserHandlers(r) \/ BankHandlers(r) \/ RecordHandlers(r) \/ QueueHandlers(r)
  \/ ProjectHandlers(r) \/ DatabaseHandlers(r) \/ FactorHandlers(r) \/ JobHandlers(r)
  \/ TableHandlers(r) \/ UsageHandlers(r) \/ ConfigHandlers(r)
  \/ r.op \notin General \cup {"export_json", "export_db"} /\ TurnedAway(r) /\ UNCHANGED shown

---------------------------------------------------------------------------
(* Calls and answers. *)

Call(c, r) ==
  /\ calling[c] = NoCall
  /\ calls < MaxCalls
  /\ calls' = calls + 1
  /\ IF up
       THEN /\ calling' = [calling EXCEPT ![c] = r]
            /\ inbox' = Append(inbox, c)
            /\ answer' = [answer EXCEPT ![c] = "none"]
       ELSE answer' = [answer EXCEPT ![c] = "error"] /\ UNCHANGED <<calling, inbox>>
  /\ UNCHANGED <<vars, up, shown>>

Client == Head(inbox)

(* The command is over, or it is not. *)
Respond ==
  IF todo' = <<>>
    THEN /\ calling' = [calling EXCEPT ![Client] = NoCall]
         /\ answer' = [answer EXCEPT ![Client] = reply']
         /\ inbox' = Tail(inbox)
    ELSE UNCHANGED <<calling, answer, inbox>>

Serve ==
  /\ up
  /\ Idle
  /\ inbox # <<>>
  /\ LET r == calling[Client]
     IN IF Allowed(Client, r) THEN Handle(r)
        ELSE Raise /\ UNCHANGED <<now, shown>>
  /\ Respond
  /\ UNCHANGED <<up, calls>>

Proceed ==
  /\ Continue \/ LockedOut
  /\ Respond
  /\ UNCHANGED <<up, shown, calls>>

\* Variant: a request that was not served is still there after the start.
StopAndKeep(answered) ==
  /\ Restart
  /\ up' = FALSE
  /\ calling' = [c \in Clients |-> NoCall]
  /\ answer' = [c \in Clients |-> IF c \in answered THEN "ok"
                                  ELSE IF calling[c] = NoCall THEN answer[c] ELSE "lost"]
  /\ UNCHANGED <<inbox, shown, calls>>
(* The connection is closed, whoever waits is not answered; the request to *)
(* shut down is.                                                           *)
Stop(answered) ==
  /\ Restart
  /\ up' = FALSE
  /\ inbox' = <<>>
  /\ calling' = [c \in Clients |-> NoCall]
  /\ answer' = [c \in Clients |-> IF c \in answered THEN "ok"
                                  ELSE IF calling[c] = NoCall THEN answer[c] ELSE "lost"]
  /\ UNCHANGED <<shown, calls>>

ShutdownService ==
  /\ up
  /\ Idle
  /\ inbox # <<>>
  /\ calling[Client] = Shutdown
  /\ Allowed(Client, Shutdown)
  /\ Stop({Client})

(* Killed at any point; a SIGTERM takes effect between two requests.       *)
Killed == up /\ Stop({})

Start == /\ ~up
         /\ up' = TRUE
         /\ UNCHANGED <<vars, calling, inbox, answer, shown, calls>>

ServiceInitWith(tables) ==
  /\ InitWith(tables)
  /\ up = TRUE
  /\ calling = [c \in Clients |-> NoCall]
  /\ inbox = <<>>
  /\ answer = [c \in Clients |-> "none"]
  /\ shown = "nothing"
  /\ calls = 0
ServiceInit == ServiceInitWith(NewTables)

ServiceNext ==
  \/ \E c \in Clients, r \in Sent : Call(c, r)
  \/ Serve \/ Proceed \/ ShutdownService \/ Killed \/ Start
  \/ (OtherLocks \/ OtherUnlocks \/ Tick) /\ UNCHANGED service_vars

(* The service's reactor runs on; a script commits in the end, and systemd *)
(* starts the service again.                                               *)
Fairness == /\ WF_all_vars(Serve) /\ WF_all_vars(Proceed) /\ WF_all_vars(ShutdownService)
            /\ WF_all_vars(Start) /\ WF_all_vars(OtherUnlocks /\ UNCHANGED service_vars)

ServiceSpec == ServiceInit /\ [][ServiceNext]_all_vars /\ Fairness

---------------------------------------------------------------------------
(* Properties *)

ServiceTypeOK ==
  /\ TypeOK
  /\ up \in BOOLEAN
  /\ calling \in [Clients -> Sent \cup {NoCall}]
  /\ inbox \in Seq(Clients)
  /\ answer \in [Clients -> {"none", "ok", "error", "lost"}]
  /\ shown \in {"nothing", "committed", "uncommitted"}
  /\ calls \in 0..MaxCalls

(* The clients that wait are those in the inbox, each once, and a command  *)
(* is running only for the first of them.                                  *)
EachCallOnce ==
  /\ {c \in Clients : calling[c] # NoCall} = {inbox[i] : i \in DOMAIN inbox}
  /\ \A i, j \in DOMAIN inbox : inbox[i] = inbox[j] => i = j
  /\ ~Idle => up /\ inbox # <<>> /\ calling[Client] = cmd

(* A view shows rows that no other process sees, and that a restart takes  *)
(* back, only after a request that left its transaction open.              *)
ViewsShowCommitted ==
  [][lock # Service => shown' # "uncommitted" \/ shown = "uncommitted"]_all_vars

(* An edit that fails commits nothing, of its own or of what was left      *)
(* open: what it has written so far stays in the transaction.  Five        *)
(* commands commit on the way, and may fail after that: delete_bank and    *)
(* delete_user (each association), edit_queue (each limit), clear_usage    *)
(* (each bank above), and edit_user when it empties the queues or the      *)
(* projects.  It says so of the commands of one step too.                  *)
CommitsOnTheWay(r) == \/ r.op \in {"delete_bank", "delete_user", "edit_queue", "clear_usage"}
                      \/ r.op = "edit_user" /\ Reset \in {r.queues, r.projects}
FailedEditsCommitNothing ==
  [][inbox # <<>> /\ reply' = "error" /\ ~CommitsOnTheWay(calling[Client])
       => disk' = before]_all_vars

(* Every call ends: no command runs for ever, on a tree with a cycle       *)
(* either, none waits for ever for the file, and nobody is passed over.    *)
CallsEnd == \A c \in Clients : calling[c] # NoCall ~> calling[c] = NoCall
=============================================================================
