--------------------------- MODULE AccountingTables ---------------------------
(***************************************************************************)
(* The tables of the accounting database that the administrator's          *)
(* commands edit, and what one SQL statement of a command does to them.    *)
(* Nothing here is about time, transactions or processes: the operators    *)
(* take the tables and return the tables.  AccountingDB runs them one at a *)
(* time under the transaction of the service's connection, and             *)
(* AtomicAccounting states what a whole command should come to.            *)
(*                                                                         *)
(* A table is a set of rows.  Left out are the columns that no command     *)
(* reads back (the job limits, fairshare, priorities, usage): one column,  *)
(* shares, stands for those that are only ever overwritten.                *)
(***************************************************************************)
EXTENDS Integers, FiniteSets

CONSTANTS
  Users, Banks,     \* names; Banks holds names that may never be in the table
  Queues, Projects, Keys,
  Factors,          \* the rows of priority_factor_weight_table
  BinKeys,          \* the keys of config_table that shape the usage periods
  LockedKeys,       \* the keys delete_config refuses to remove
  NoBank,           \* the empty parent of the root bank
  Keep,             \* an option that was not given
  Reset,            \* "-1" or "unlimited"
  Bad,              \* a value the command refuses
  Shares,           \* the accepted values of shares, limits, weights and keys
  Default           \* the one a new row gets

ASSUME NamesAssumption ==
  /\ NoBank \notin Banks
  /\ Keep \notin Banks \cup Shares \cup Factors \cup {Reset, Bad}
  /\ {Reset, Bad} \cap (Banks \cup Shares \cup Factors) = {} /\ Default \in Shares
  /\ BinKeys \subseteq LockedKeys /\ LockedKeys \subseteq Keys
  /\ IsFiniteSet(Banks)

(* bank_table.  Its key is bank_id, so a name may occur in several rows. *)
BankRow == [id: Nat, bank: Banks, parent: Banks \cup {NoBank},
            active: BOOLEAN, shares: Shares]

(* association_table, keyed by (username, bank). *)
AssocRow == [user: Users, bank: Banks, active: BOOLEAN, def: Banks,
             shares: Shares, queues: SUBSET Queues, projects: SUBSET Projects,
             created: Nat]

QueueRow == [queue: Queues, running: Shares, nodes: Shares]

(* The tables.  factors are the keys of job_usage_factor_table, which      *)
(* add_user fills together with the rows of the usage periods.             *)
Tables == [banks: SUBSET BankRow, assocs: SUBSET AssocRow,
           factors: SUBSET (Users \X Banks), queues: SUBSET QueueRow,
           projects: SUBSET Projects, config: SUBSET (Keys \X Shares),
           weights: [Factors -> Shares]]

---------------------------------------------------------------------------
(* What the commands read. *)

KnownBank(d, b) == \E x \in d.banks : x.bank = b
SubBanks(d, b) == {x.bank : x \in {y \in d.banks : y.parent = b}}
SameBank(d, b, p) == {x \in d.banks : x.bank = b /\ x.parent = p}
RowsOf(d, u) == {x \in d.assocs : x.user = u}
RowsAt(d, u, b) == {x \in d.assocs : x.user = u /\ x.bank = b}
MembersOf(d, b) == {x \in d.assocs : x.bank = b}
KnownQueue(d, q) == \E x \in d.queues : x.queue = q
KnownKey(d, k) == \E x \in d.config : x[1] = k
HasRoot(d) == \E x \in d.banks : x.parent = NoBank

(* fetchall()[0]: the row that entered the table first. *)
BankIsActive(d, b, p) ==
  \E x \in SameBank(d, b, p) :
    x.active /\ \A y \in SameBank(d, b, p) : x.id <= y.id

AssociationIsActive(d, u, b) == \E x \in RowsAt(d, u, b) : x.active

(* The names reached from a set of banks by going down parent_bank. *)
Below(d, names) ==
  LET reach[n \in 0..Cardinality(Banks)] ==
        IF n = 0 THEN names
        ELSE reach[n - 1] \cup UNION {SubBanks(d, b) : b \in reach[n - 1]}
  IN reach[Cardinality(Banks)]

(* A walk down the tree from b never ends: it meets a bank again below     *)
(* itself.                                                                 *)
EndlessBelow(d, b) ==
  \E x \in Below(d, {b}) : x \in Below(d, SubBanks(d, x))

(* A walk up from b never ends. *)
EndlessAbove(d, b) ==
  \E x \in Banks : x \in Below(d, SubBanks(d, x)) /\ b \in Below(d, {x})

---------------------------------------------------------------------------
(* Banks. *)

(* bank_id counts up from the last row.                                    *)
NextId(d, i) == /\ \A x \in d.banks : x.id < i
                /\ i = 1 \/ \E x \in d.banks : x.id = i - 1

InsertBank(d, i, b, p, s) ==
  [d EXCEPT !.banks = @ \cup {[id |-> i, bank |-> b, parent |-> p,
                                active |-> TRUE, shares |-> s]}]

ReactivateBank(d, b, p) ==
  [d EXCEPT !.banks = {IF x.bank = b /\ x.parent = p
                         THEN [x EXCEPT !.active = TRUE] ELSE x : x \in @}]

(* DELETE with --force, UPDATE active=0 without. *)
RemoveBank(d, b, force) ==
  [d EXCEPT !.banks = IF force THEN {x \in @ : x.bank # b}
                      ELSE {IF x.bank = b THEN [x EXCEPT !.active = FALSE] ELSE x : x \in @}]

SetBankShares(d, b, s) ==
  [d EXCEPT !.banks = {IF x.bank = b THEN [x EXCEPT !.shares = s] ELSE x : x \in @}]

SetBankParent(d, b, p) ==
  [d EXCEPT !.banks = {IF x.bank = b THEN [x EXCEPT !.parent = p] ELSE x : x \in @}]

---------------------------------------------------------------------------
(* Associations. *)

\* Variant: the rows of the usage tables are forgotten.
InsertOnlyAssociation(d, row) == [d EXCEPT !.assocs = @ \cup {row}]
(* A new row with its usage rows, in one transaction. *)
InsertAssociation(d, row) ==
  [d EXCEPT !.assocs = @ \cup {row}, !.factors = @ \cup {<<row.user, row.bank>>}]

ReactivateAssociation(d, u, b) ==
  [d EXCEPT !.assocs = {IF x.user = u /\ x.bank = b
                          THEN [x EXCEPT !.active = TRUE] ELSE x : x \in @}]

RemoveAssociation(d, u, b, force) ==
  [d EXCEPT !.assocs = IF force THEN {x \in @ : ~(x.user = u /\ x.bank = b)}
                       ELSE {IF x.user = u /\ x.bank = b
                               THEN [x EXCEPT !.active = FALSE] ELSE x : x \in @}]

(* Which rows edit_user changes: those of one bank, or all of the user's. *)
Chosen(x, u, b) == x.user = u /\ (b = Keep \/ x.bank = b)

SetDefaultBank(d, u, b, new) ==
  [d EXCEPT !.assocs = {IF Chosen(x, u, b) THEN [x EXCEPT !.def = new] ELSE x : x \in @}]

SetShares(d, u, b, s) ==
  [d EXCEPT !.assocs = {IF Chosen(x, u, b) THEN [x EXCEPT !.shares = s] ELSE x : x \in @}]

SetQueues(d, u, b, qs) ==
  [d EXCEPT !.assocs = {IF Chosen(x, u, b) THEN [x EXCEPT !.queues = qs] ELSE x : x \in @}]

SetProjects(d, u, b, ps) ==
  [d EXCEPT !.assocs = {IF Chosen(x, u, b) THEN [x EXCEPT !.projects = ps] ELSE x : x \in @}]

(* --add-queue and --delete-queue on each chosen row; Keep: not given. *)
ModifyQueues(d, u, b, add, del) ==
  [d EXCEPT !.assocs = {IF Chosen(x, u, b)
                          THEN [x EXCEPT !.queues = (@ \cup ({add} \ {Keep})) \ {del}]
                          ELSE x : x \in @}]

\* Variant: the oldest association, active or not.
OldestDefaults(d, u) ==
  {x.bank : x \in {y \in RowsOf(d, u) : \A z \in RowsOf(d, u) : y.created <= z.created}}
(* The bank of an active row of the user that was created first. *)
NextDefaults(d, u) ==
  LET active == {x \in RowsOf(d, u) : x.active}
  IN {x.bank : x \in {y \in active : \A z \in active : y.created <= z.created}}

(* One UPDATE over every row: the columns that were given. *)
SetAllUsers(d, bank, def, qs) ==
  [d EXCEPT !.assocs =
     {[x EXCEPT !.bank = IF bank = Keep THEN @ ELSE bank,
                !.def = IF def = Keep THEN @ ELSE def,
                !.queues = IF qs = Keep THEN @ ELSE qs] : x \in @}]

---------------------------------------------------------------------------
(* Queues, projects, the configuration and the weights of the factors. *)

InsertQueue(d, q, n, m) ==
  [d EXCEPT !.queues = @ \cup {[queue |-> q, running |-> n, nodes |-> m]}]
RemoveQueue(d, q) == [d EXCEPT !.queues = {x \in @ : x.queue # q}]
SetQueueLimit(d, q, field, v) ==
  [d EXCEPT !.queues = {IF x.queue # q THEN x
                        ELSE IF field = "running" THEN [x EXCEPT !.running = v]
                        ELSE [x EXCEPT !.nodes = v] : x \in @}]
InsertProject(d, p) == [d EXCEPT !.projects = @ \cup {p}]
RemoveProject(d, p) == [d EXCEPT !.projects = @ \ {p}]
InsertKey(d, k, v) == [d EXCEPT !.config = @ \cup {<<k, v>>}]
RemoveKey(d, k) == [d EXCEPT !.config = {x \in @ : x[1] # k}]
SetKey(d, k, v) == [d EXCEPT !.config = {IF x[1] = k THEN <<k, v>> ELSE x : x \in @}]
SetWeight(d, f, w) == [d EXCEPT !.weights[f] = w]
ResetWeights(d) == [d EXCEPT !.weights = [f \in Factors |-> Default]]
=============================================================================
