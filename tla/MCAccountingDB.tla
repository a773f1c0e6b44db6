---------------------------- MODULE MCAccountingDB ----------------------------
(***************************************************************************)
(* Instances of AccountingDB for TLC.  A stage is the tables an            *)
(* administrator starts from and the commands sent from there on, none     *)
(* with an argument that is refused half-way.                              *)
(***************************************************************************)
EXTENDS AccountingDB, TLC

CONSTANTS root, A, B, C, ghost, u1, u2, q1, q2, p1, f1, life, mine, two
VARIABLE stage

AddBanks(names, parents) == [op: {"add_bank"}, bank: names, parent: parents]
DeleteBanks(names, how) == [op: {"delete_bank"}, bank: names, force: how]
AddUsers(us, bs) == [op: {"add_user"}, user: us, bank: bs, queues: {{}}, projects: {{}}]
DeleteUsers(us, bs, how) == [op: {"delete_user"}, user: us, bank: bs, force: how]

(* edit_user with no option given. *)
NoEdit(u, b) == [op |-> "edit_user", user |-> u, bank |-> b, add |-> Keep, del |-> Keep,
                 def |-> Keep, shares |-> Keep, queues |-> Keep, projects |-> Keep]

BankOf(b, p, i) == [id |-> i, bank |-> b, parent |-> p, active |-> TRUE, shares |-> Default]
Member(u, b, def) == [user |-> u, bank |-> b, active |-> TRUE, def |-> def, shares |-> Default,
                      queues |-> {}, projects |-> {}, created |-> 0]

TwoBanks == [NewTables EXCEPT
  !.banks = {BankOf(root, NoBank, 1), BankOf(A, root, 2), BankOf(B, root, 3)}]

(* Two banks; banks and associations come, go and come back. *)
TreeRequests ==
  AddBanks({C}, {A}) \cup AddBanks({root, B}, {NoBank}) \cup AddBanks({A}, {root})
  \cup DeleteBanks({A}, BOOLEAN) \cup DeleteBanks({root}, {FALSE})
  \cup AddUsers({u1}, {A, B}) \cup AddUsers({u2}, {A})
  \cup DeleteUsers({u1}, {A, B}, BOOLEAN)

(* A user in both banks, a third bank, two queues and a project. *)
Staffed == [TwoBanks EXCEPT
  !.banks = @ \cup {BankOf(C, root, 4)},
  !.assocs = {Member(u1, A, A), Member(u1, B, A)},
  !.factors = {<<u1, A>>, <<u1, B>>},
  !.queues = [queue: {q1, q2}, running: {Default}, nodes: {Default}],
  !.projects = {p1}]
EditRequests ==
  {[op |-> "edit_bank", bank |-> A, shares |-> two, parent |-> C],
   [NoEdit(u1, Keep) EXCEPT !.def = B, !.shares = two, !.queues = {q1}],
   [NoEdit(u1, A) EXCEPT !.add = q1, !.projects = {p1}],
   [NoEdit(u1, A) EXCEPT !.del = q1, !.projects = Reset],
   [op |-> "edit_queue", queue |-> q1, running |-> two, nodes |-> two],
   [op |-> "edit_config", key |-> life, value |-> two, key2 |-> Keep, value2 |-> two]}
OtherRequests ==
  {[op |-> "edit_all_users", bank |-> Keep, def |-> B, queues |-> {q1}],
   [op |-> "delete_queue", queue |-> q2],
   [op |-> "add_project", project |-> p1], [op |-> "delete_project", project |-> p1],
   [op |-> "edit_factor", factor |-> f1, weight |-> two], [op |-> "reset_factors"],
   [op |-> "add_user", user |-> u2, bank |-> B, queues |-> {q2}, projects |-> {p1}],
   [op |-> "delete_config", key |-> life]}

(* A bank below another that goes, with two users, one of them in B too.   *)
Deep == [TwoBanks EXCEPT
  !.banks = @ \cup {BankOf(C, A, 4)},
  !.assocs = {Member(u1, B, C), Member(u1, C, C), Member(u2, C, C)},
  !.factors = {<<u1, B>>, <<u1, C>>, <<u2, C>>}]
DeepRequests ==
  DeleteBanks({A}, BOOLEAN) \cup DeleteBanks({C}, {FALSE}) \cup AddBanks({C}, {A})
  \cup AddUsers({u1}, {B}) \cup DeleteUsers({u1}, {B}, {FALSE})

Stages == {[tables |-> TwoBanks, requests |-> TreeRequests],
           [tables |-> Deep, requests |-> DeepRequests],
           [tables |-> Staffed, requests |-> EditRequests],
           [tables |-> Staffed, requests |-> OtherRequests]}
WholeRequests == UNION {s.requests : s \in Stages}

\* None of these commands takes part.
ASSUME CarefulCommands ==
  /\ AllRowsStay /\ ParentsStayEmpty /\ DefaultsGoTogether /\ ResetsComeLast
  /\ LET moves == TreeRequests \cup DeepRequests
     IN RefusedAtOnce(moves) /\ TreeStays(moves)

StagedInit == \E s \in Stages : InitWith(s.tables) /\ stage = s.requests
StagedNext ==
  /\ \/ \E r \in stage : Receive(r)
     \/ Continue \/ LockedOut \/ OtherLocks \/ OtherUnlocks \/ Tick \/ Restart
  /\ UNCHANGED stage
StagedSpec == StagedInit /\ [][StagedNext]_<<vars, stage>>

(* A key is added to the configuration, and nothing else is done. *)
ConfigRequests == {[op |-> "add_config", key |-> mine, value |-> two]}
ConfigInit == InitWith(TwoBanks) /\ stage = ConfigRequests
ConfigSpec == ConfigInit /\ [][StagedNext]_<<vars, stage>>
=============================================================================
