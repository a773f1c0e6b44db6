-------------------------- MODULE AccountingRequests --------------------------
(***************************************************************************)
(* The requests that "flux account" sends to the accounting service: one   *)
(* set per subcommand, with the options that matter here.  An option that  *)
(* was not given is Keep; the parser gives every request all its keys.     *)
(* Values the function of the command will refuse are requests too (Bad):  *)
(* the parser only looks at their type.                                    *)
(***************************************************************************)
EXTENDS AccountingTables

Given(values) == values \cup {Keep}

---------------------------------------------------------------------------
(* Commands that change the tables. *)

AddUserRequests == [op: {"add_user"}, user: Users, bank: Banks,
                    queues: SUBSET Queues, projects: SUBSET Projects]
DeleteUserRequests == [op: {"delete_user"}, user: Users, bank: Banks, force: BOOLEAN]
EditUserRequests ==
  [op: {"edit_user"}, user: Users, bank: Given(Banks),
   add: Given(Queues), del: Given(Queues),
   def: Given(Banks \cup {Reset}), shares: Given(Shares),
   queues: Given((SUBSET Queues \ {{}}) \cup {Reset}),
   projects: Given((SUBSET Projects \ {{}}) \cup {Reset})]
EditAllUsersRequests == [op: {"edit_all_users"}, bank: Given(Banks),
                         def: Given(Banks \cup {Reset}), queues: Given(SUBSET Queues)]

AddBankRequests == [op: {"add_bank"}, bank: Banks, parent: Banks \cup {NoBank}]
DeleteBankRequests == [op: {"delete_bank"}, bank: Banks, force: BOOLEAN]
EditBankRequests == [op: {"edit_bank"}, bank: Banks, shares: Given(Shares \cup {Bad}),
                     parent: Given(Banks)]

AddQueueRequests == [op: {"add_queue"}, queue: Queues]
EditQueueRequests == [op: {"edit_queue"}, queue: Queues,
                      running: Given(Shares \cup {Bad}), nodes: Given(Shares \cup {Bad})]
DeleteQueueRequests == [op: {"delete_queue"}, queue: Queues]

AddProjectRequests == [op: {"add_project"}, project: Projects]
DeleteProjectRequests == [op: {"delete_project"}, project: Projects]

EditFactorRequests == [op: {"edit_factor"}, factor: Factors \cup {Bad}, weight: Shares]
ResetFactorsRequests == [op: {"reset_factors"}]

AddConfigRequests == [op: {"add_config"}, key: Keys, value: Shares]
EditConfigRequests == [op: {"edit_config"}, key: Keys, value: Shares \cup {Bad},
                       key2: Given(Keys), value2: Shares \cup {Bad}]
DeleteConfigRequests == [op: {"delete_config"}, key: Keys]

SyncUseridsRequests == [op: {"sync_userids"}]
ScrubRequests == [op: {"scrub_old_jobs"}]
ClearUsageRequests == [op: {"clear_usage"}, bank: Banks, time: Given({Bad})]

(* pop-db with a file of two rows of association_table. *)
PopDbRequests == [op: {"pop_db"}, row: AssocRow, row2: AssocRow]

Edits ==
  AddUserRequests \cup DeleteUserRequests \cup EditUserRequests \cup EditAllUsersRequests
  \cup AddBankRequests \cup DeleteBankRequests \cup EditBankRequests
  \cup AddQueueRequests \cup EditQueueRequests \cup DeleteQueueRequests
  \cup AddProjectRequests \cup DeleteProjectRequests
  \cup EditFactorRequests \cup ResetFactorsRequests
  \cup AddConfigRequests \cup EditConfigRequests \cup DeleteConfigRequests
  \cup PopDbRequests \cup SyncUseridsRequests \cup ScrubRequests \cup ClearUsageRequests

---------------------------------------------------------------------------
(* Commands that read them. *)

ViewUserRequests == [op: {"view_user"}, user: Users]
ListUsersRequests == [op: {"list_users"}, bank: Given(Banks)]
ViewBankRequests == [op: {"view_bank"}, bank: Banks]
ListBanksRequests == [op: {"list_banks"}, inactive: BOOLEAN]
BankInfoRequests == [op: {"bank_info"}, user: Users]
ViewQueueRequests == [op: {"view_queue"}, queue: Queues]
ListQueuesRequests == [op: {"list_queues"}]
ViewProjectRequests == [op: {"view_project"}, project: Projects]
ListProjectsRequests == [op: {"list_projects"}]
ViewFactorRequests == [op: {"view_factor"}, factor: Factors \cup {Bad}]
ListFactorsRequests == [op: {"list_factors"}]
ViewConfigRequests == [op: {"view_config"}, key: Keys]
ListConfigsRequests == [op: {"list_configs"}]
ExportJsonRequests == [op: {"export_json"}]
ExportDbRequests == [op: {"export_db"}, emulate: BOOLEAN]
JobsRequests == [op: {"jobs"}, user: Users, bank: Given(Banks)]
ShowUsageRequests == [op: {"show_usage"}, table: {"associations", "banks"}]
ViewJobRecordsRequests == [op: {"view_job_records"}, filter: Given({Bad})]
UsageReportRequests == [op: {"view_usage_report"}, filter: Given({Bad})]

Views ==
  ViewUserRequests \cup ListUsersRequests \cup ViewBankRequests \cup ListBanksRequests
  \cup BankInfoRequests \cup ViewQueueRequests \cup ListQueuesRequests
  \cup ViewProjectRequests \cup ListProjectsRequests
  \cup ViewFactorRequests \cup ListFactorsRequests
  \cup ViewConfigRequests \cup ListConfigsRequests \cup ExportJsonRequests
  \cup ExportDbRequests \cup JobsRequests \cup ShowUsageRequests
  \cup ViewJobRecordsRequests \cup UsageReportRequests
=============================================================================
