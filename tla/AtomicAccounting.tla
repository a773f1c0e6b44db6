--------------------------- MODULE AtomicAccounting ---------------------------
(***************************************************************************)
(* What the commands of the accounting service promise to whoever reads    *)
(* the database from another process: each change of the committed tables  *)
(* is one whole command, or one whole removal of delete_user and           *)
(* delete_bank, or nothing.  There is no connection here, no lock, no      *)
(* steps of a command, and no restart.                                     *)
(***************************************************************************)
EXTENDS AccountingTables

CONSTANTS Requests, MaxBankRows
VARIABLE tables

(* A bank comes back with its old row, or as a new last row. *)
BankAdded(r) ==
  /\ r.op = "add_bank"
  /\ r.parent = NoBank \/ KnownBank(tables, r.parent)
  /\ MembersOf(tables, r.parent) = {}
  /\ \/ tables' = ReactivateBank(tables, r.bank, r.parent)
     \/ \E i \in 1..MaxBankRows :
          NextId(tables, i) /\ tables' = InsertBank(tables, i, r.bank, r.parent, Default)

(* All the columns that were given, or none. *)
BankEdited(r) ==
  /\ r.op = "edit_bank"
  /\ r.shares # Bad
  /\ r.parent # Keep => KnownBank(tables, r.parent)
  /\ LET d == IF r.shares = Keep THEN tables ELSE SetBankShares(tables, r.bank, r.shares)
     IN tables' = IF r.parent = Keep THEN d ELSE SetBankParent(d, r.bank, r.parent)

UserAdded(r) ==
  /\ r.op = "add_user"
  /\ SubBanks(tables, r.bank) = {}
  /\ \/ tables' = ReactivateAssociation(tables, r.user, r.bank)
     \/ /\ RowsAt(tables, r.user, r.bank) = {}
        /\ KnownBank(tables, r.bank)
        /\ \A q \in r.queues : KnownQueue(tables, q)
        /\ r.projects \subseteq tables.projects
        /\ \E row \in tables'.assocs :
             /\ row.user = r.user /\ row.bank = r.bank /\ row.active
             /\ row.queues = r.queues /\ row.projects = r.projects
             /\ row.def \in {r.bank} \cup {x.def : x \in RowsOf(tables, r.user)}
             /\ tables' = InsertAssociation(tables, row)

(* All the columns that were given, or none. *)
UserEdited(r) ==
  /\ r.op = "edit_user"
  /\ r.def # Reset
  /\ LET u == r.user
         b == r.bank
         d1 == IF {r.add, r.del} = {Keep} THEN tables
               ELSE ModifyQueues(tables, u, b, r.add, r.del)
         d2 == IF r.def = Keep THEN d1 ELSE SetDefaultBank(d1, u, b, r.def)
         d3 == IF r.shares = Keep THEN d2 ELSE SetShares(d2, u, b, r.shares)
         d4 == IF r.queues = Keep THEN d3
               ELSE SetQueues(d3, u, b, IF r.queues = Reset THEN {} ELSE r.queues)
     IN tables' = IF r.projects = Keep THEN d4
                  ELSE SetProjects(d4, u, b, IF r.projects = Reset THEN {} ELSE r.projects)

AllUsersEdited(r) ==
  /\ r.op = "edit_all_users"
  /\ tables' = SetAllUsers(tables, r.bank, r.def, r.queues)

(* One association goes. *)
UserRemoved(r) ==
  /\ r.op = "delete_user"
  /\ tables' = RemoveAssociation(tables, r.user, r.bank, r.force)

(* A delete_bank is about the banks from the named one down.  Those that it *)
(* has removed for good leave banks without a parent, and associations     *)
(* without a bank.                                                         *)
Orphans(d) == {x.bank : x \in {y \in d.banks : y.parent # NoBank /\ ~KnownBank(d, y.parent)}}
Doomed(d, r) ==
  Below(d, {r.bank} \cup (IF r.force THEN Orphans(d) ELSE {}))
    \cup (IF r.force THEN {b \in Banks : ~KnownBank(d, b)} ELSE {})

(* A user whose default bank a removal took away gets another that is      *)
(* active, on all rows.                                                    *)
DefaultMoved(r) ==
  /\ r.op \in {"delete_user", "delete_bank"}
  /\ \E x \in tables.assocs :
       /\ r.op = "delete_user" => x.user = r.user /\ x.def = r.bank
       /\ r.op = "delete_bank" => x.def \in Doomed(tables, r)
       /\ \E y \in RowsOf(tables, x.user) :
            /\ y.active
            /\ tables' = SetDefaultBank(tables, x.user, Keep, y.bank)

(* Both rows of a file, or none. *)
RowsPopulated(r) ==
  /\ r.op = "pop_db"
  /\ tables' = [tables EXCEPT !.assocs = @ \cup {r.row, r.row2}]

(* A part of a delete_bank: some banks from the named one down and at most *)
(* one of the associations in them, and nothing else.                      *)
BankRemoved(r) ==
  /\ r.op = "delete_bank"
  /\ LET doomed == Doomed(tables, r)
     IN \E gone \in SUBSET {b \in doomed : KnownBank(tables, b)} :
          \E left \in {tables.assocs} \cup
                      {RemoveAssociation(tables, x.user, x.bank, r.force).assocs :
                         x \in {y \in tables.assocs : y.bank \in doomed}} :
            tables' = [tables EXCEPT
              !.assocs = left,
              !.banks = IF r.force THEN {x \in @ : x.bank \notin gone}
                        ELSE {IF x.bank \in gone THEN [x EXCEPT !.active = FALSE] ELSE x :
                                x \in @}]

QueueOrProjectChanged(r) ==
  \/ /\ r.op = "add_queue"
     /\ ~KnownQueue(tables, r.queue)
     /\ tables' = InsertQueue(tables, r.queue, Default, Default)
  \/ r.op = "delete_queue" /\ tables' = RemoveQueue(tables, r.queue)
  \/ r.op = "add_project" /\ tables' = InsertProject(tables, r.project)
  \/ r.op = "delete_project" /\ tables' = RemoveProject(tables, r.project)

(* edit_queue promises only one field at a time. *)
QueueEdited(r) ==
  /\ r.op = "edit_queue"
  /\ \/ r.running \in Shares /\ tables' = SetQueueLimit(tables, r.queue, "running", r.running)
     \/ r.nodes \in Shares /\ tables' = SetQueueLimit(tables, r.queue, "nodes", r.nodes)

WeightsChanged(r) ==
  \/ r.op = "edit_factor" /\ r.factor \in Factors
     /\ tables' = SetWeight(tables, r.factor, r.weight)
  \/ r.op = "reset_factors" /\ tables' = ResetWeights(tables)

(* Both keys, or none. *)
ConfigEdited(r) ==
  /\ r.op = "edit_config"
  /\ KnownKey(tables, r.key)
  /\ LET d == SetKey(tables, r.key, r.value)
     IN tables' = IF r.key2 = Keep THEN d ELSE SetKey(d, r.key2, r.value2)

Committed(r) ==
  \/ BankAdded(r) \/ BankEdited(r) \/ BankRemoved(r)
  \/ UserAdded(r) \/ UserEdited(r) \/ AllUsersEdited(r) \/ UserRemoved(r)
  \/ DefaultMoved(r) \/ RowsPopulated(r) \/ QueueOrProjectChanged(r) \/ QueueEdited(r)
  \/ WeightsChanged(r) \/ ConfigEdited(r)

Init == tables \in Tables
Next == \E r \in Requests : Committed(r)
Spec == Init /\ [][Next]_tables
=============================================================================
