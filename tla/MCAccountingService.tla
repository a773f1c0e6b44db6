-------------------------- MODULE MCAccountingService --------------------------
(***************************************************************************)
(* An instance of AccountingService for TLC: the owner sends commands,     *)
(* among them those that fail half-way, and a guest looks and meddles.     *)
(* Each stage is the tables the service finds and the requests sent.       *)
(***************************************************************************)
EXTENDS AccountingService, TLC

CONSTANTS root, A, B, ghost, u1, q1, q2, p1, f1, life, mine, two, admin, guest
VARIABLE stage

NoEdit(b) == [op |-> "edit_user", user |-> u1, bank |-> b, add |-> Keep, del |-> Keep,
              def |-> Keep, shares |-> Keep, queues |-> Keep, projects |-> Keep]
BankOf(b, p, i) == [id |-> i, bank |-> b, parent |-> p, active |-> TRUE, shares |-> Default]
Member(b) == [user |-> u1, bank |-> b, active |-> TRUE, def |-> A, shares |-> Default,
              queues |-> {q1}, projects |-> {p1}, created |-> 0]

Staffed == [NewTables EXCEPT
  !.banks = {BankOf(root, NoBank, 1), BankOf(A, root, 2), BankOf(B, root, 3)},
  !.assocs = {Member(A), Member(B)},
  !.factors = {<<u1, A>>, <<u1, B>>},
  !.queues = {[queue |-> q1, running |-> Default, nodes |-> Default]},
  !.projects = {p1}]

TreeRequests ==
  {[op |-> "edit_bank", bank |-> A, shares |-> two, parent |-> ghost],
   [op |-> "edit_bank", bank |-> A, shares |-> Keep, parent |-> B],
   [op |-> "edit_bank", bank |-> B, shares |-> Keep, parent |-> A],
   [op |-> "edit_bank", bank |-> A, shares |-> Bad, parent |-> Keep],
   [op |-> "delete_bank", bank |-> A, force |-> FALSE],
   [op |-> "delete_bank", bank |-> root, force |-> TRUE],
   [op |-> "add_bank", bank |-> A, parent |-> root],
   [op |-> "bank_info", user |-> u1], [op |-> "view_bank", bank |-> A],
   [op |-> "view_bank", bank |-> ghost], [op |-> "list_banks", inactive |-> FALSE]}

UserRequests ==
  {[NoEdit(Keep) EXCEPT !.shares = two, !.queues = Reset],
   [NoEdit(A) EXCEPT !.shares = two, !.projects = Reset],
   [NoEdit(A) EXCEPT !.shares = two, !.queues = {q2}],
   [NoEdit(A) EXCEPT !.add = q1, !.del = q1], [NoEdit(B) EXCEPT !.add = q2],
   [NoEdit(Keep) EXCEPT !.def = Reset], [NoEdit(Keep) EXCEPT !.projects = {p1}],
   [op |-> "delete_user", user |-> u1, bank |-> A, force |-> FALSE],
   [op |-> "add_user", user |-> u1, bank |-> ghost, queues |-> {q1}, projects |-> {p1}],
   [op |-> "edit_all_users", bank |-> A, def |-> Keep, queues |-> Keep],
   [op |-> "edit_all_users", bank |-> Keep, def |-> Reset, queues |-> Keep],
   [op |-> "pop_db", row |-> [Member(B) EXCEPT !.bank = root], row2 |-> Member(A)],
   [op |-> "view_user", user |-> u1], [op |-> "list_users", bank |-> A]}

OtherRequests ==
  {[op |-> "add_queue", queue |-> q1], [op |-> "delete_queue", queue |-> q1],
   [op |-> "edit_queue", queue |-> q1, running |-> two, nodes |-> Bad],
   [op |-> "add_project", project |-> p1], [op |-> "delete_project", project |-> p1],
   [op |-> "view_queue", queue |-> q1], [op |-> "list_queues"],
   [op |-> "view_project", project |-> p1], [op |-> "list_projects"],
   [op |-> "edit_factor", factor |-> f1, weight |-> two],
   [op |-> "edit_factor", factor |-> Bad, weight |-> two], [op |-> "reset_factors"],
   [op |-> "view_factor", factor |-> f1], [op |-> "list_factors"]}

ConfigRequests ==
  {[op |-> "add_config", key |-> mine, value |-> two],
   [op |-> "delete_config", key |-> life], [op |-> "delete_config", key |-> mine],
   [op |-> "edit_config", key |-> life, value |-> two, key2 |-> mine, value2 |-> two],
   [op |-> "edit_config", key |-> mine, value |-> two, key2 |-> life, value2 |-> Bad],
   [op |-> "view_config", key |-> mine], [op |-> "list_configs"], [op |-> "export_json"],
   Shutdown}

UsageRequests ==
  {[op |-> "edit_bank", bank |-> A, shares |-> Keep, parent |-> A],
   [op |-> "edit_bank", bank |-> B, shares |-> two, parent |-> ghost],
   [op |-> "delete_bank", bank |-> root, force |-> TRUE],
   [op |-> "clear_usage", bank |-> A, time |-> Keep],
   [op |-> "clear_usage", bank |-> B, time |-> Bad],
   [op |-> "clear_usage", bank |-> root, time |-> Bad],
   [op |-> "sync_userids"], [op |-> "scrub_old_jobs"],
   [op |-> "jobs", user |-> u1, bank |-> B], [op |-> "show_usage", table |-> "associations"],
   [op |-> "show_usage", table |-> "banks"], [op |-> "view_job_records", filter |-> Bad],
   [op |-> "view_usage_report", filter |-> Keep],
   [op |-> "export_db", emulate |-> FALSE], [op |-> "export_db", emulate |-> TRUE]}

Stages == {TreeRequests, UserRequests, OtherRequests, ConfigRequests, UsageRequests}
AllSent == UNION Stages
AllEdits == AllSent \cap Edits

StagedInit == ServiceInitWith(Staffed) /\ stage \in Stages
StagedNext ==
  /\ \/ \E r \in stage : Call(admin, r)
     \/ \E r \in (stage \cap Views) \cup {[op |-> "reset_factors"]} : Call(guest, r)
     \/ Serve \/ Proceed \/ ShutdownService \/ Killed \/ Start
     \/ (OtherLocks \/ OtherUnlocks \/ Tick) /\ UNCHANGED service_vars
  /\ UNCHANGED stage
StagedSpec == StagedInit /\ [][StagedNext]_<<all_vars, stage>> /\ Fairness
=============================================================================
