------------------------------- MODULE Fairshare -------------------------------
(***************************************************************************)
(* flux account-update-fshare: it reads the tree, ranks the associations,  *)
(* and writes their fair-share values in a transaction of its own          *)
(* (flux_account_update_fshare.cpp, data_reader_db.cpp, data_writer_db.cpp)*)
(* while the service and other scripts change the tables.                  *)
(*                                                                         *)
(*   banks, assoc  bank_table and association_table, as far as fair-share  *)
(*                 values depend on them; a fair-share value is the        *)
(*                 fraction <<rank, number of associations>>               *)
(*   locked        another process holds the write lock of the file        *)
(*   run           what each run of the script has read and worked out     *)
(*   changes       the number of changes, locks and kills (bounded)        *)
(***************************************************************************)
EXTENDS FairshareTree

CONSTANTS
  Runs,          \* runs of the script that may overlap
  Shares,        \* shares administrators give to banks and associations
  MaxUsage,      \* bound of the usage of an association
  Tables,        \* tables to start from: records of banks and assoc
  Orders,        \* orders in which std::sort may leave equals: node -> Nat
  MaxChanges     \* bound of the number of changes, locks and kills

VARIABLES banks, assoc, locked, run, changes
vars == <<banks, assoc, locked, run, changes>>

Bank == [shares: Nat, active: BOOLEAN]
Association == [shares: Nat, usage: Nat, active: BOOLEAN, fshare: Nat \X Nat]

ASSUME FairshareAssumption ==
  /\ MaxUsage \in Nat /\ MaxChanges \in Nat /\ Shares \subseteq Nat
  /\ Orders # {}
  /\ \A order \in Orders : order \in [Nodes \ {Root} -> Int] /\ IsInjective(order)
  /\ \A t \in Tables : t.banks \in [Banks -> Bank] /\ DOMAIN t.assoc \subseteq Assocs
                       /\ t.assoc \in [DOMAIN t.assoc -> Association]

\* A run that has not read anything.
Idle == [tree |-> <<>>, ranks |-> <<>>]

\* The fair-share value of an association that was just added.
DefaultFshare == <<1, 2>>

Init == /\ \E t \in Tables : banks = t.banks /\ assoc = t.assoc
        /\ locked = FALSE
        /\ run = [r \in Runs |-> Idle]
        /\ changes = 0

---------------------------------------------------------------------------
(* A run of the script *)

\* load_accounting_db (), then weighted_walk_t::run () on what was read.  The
\* statement that finds the root stays open, so that everything is read as it
\* was at one moment.
Load(r) ==
  /\ run[r] = Idle
  /\ \E tree \in {Tree(banks, assoc)}, order \in Orders :
       run' = [run EXCEPT ![r] = [tree |-> tree, ranks |-> Walk(tree, order)]]
  /\ UNCHANGED <<banks, assoc, locked, changes>>

\* Variant: the number of associations is that of the table.
SizeOfTable(rows, ranks) ==
  [a \in DOMAIN rows |-> IF a \notin DOMAIN ranks THEN rows[a]
     ELSE [rows[a] EXCEPT !.fshare = <<ranks[a], Cardinality(DOMAIN rows)>>]]
\* update_fairshare_values (): an UPDATE for every association of the tree,
\* which finds the row or does nothing.
WithFshares(rows, ranks) ==
  [a \in DOMAIN rows |-> IF a \notin DOMAIN ranks THEN rows[a]
     ELSE [rows[a] EXCEPT !.fshare = <<ranks[a], Cardinality(DOMAIN ranks)>>]]

\* write_acct_info (): all rows between BEGIN IMMEDIATE and COMMIT.
Write(r) ==
  /\ run[r] # Idle /\ ~locked
  /\ run' = [run EXCEPT ![r] = Idle]
  /\ assoc' = WithFshares(assoc, run[r].ranks)
  /\ UNCHANGED <<banks, locked, changes>>

\* The lock is not free for thirty seconds: nothing is written, and the exit
\* status is 0 all the same (SQLITE_BUSY is not negative).
GiveUp(r) ==
  /\ run[r] # Idle /\ locked
  /\ run' = [run EXCEPT ![r] = Idle]
  /\ UNCHANGED <<banks, assoc, locked, changes>>

---------------------------------------------------------------------------
(* Everybody else *)

Change == changes < MaxChanges /\ changes' = changes + 1

Kill(r) == /\ Change /\ run[r] # Idle
           /\ run' = [run EXCEPT ![r] = Idle]
           /\ UNCHANGED <<banks, assoc, locked>>

OtherLocks == /\ Change /\ ~locked
              /\ locked' = TRUE
              /\ UNCHANGED <<banks, assoc, run>>
OtherUnlocks == /\ locked
                /\ locked' = FALSE
                /\ UNCHANGED <<banks, assoc, run, changes>>

Commit(b, a) == /\ Change /\ ~locked
                /\ <<banks, assoc>> # <<b, a>>
                /\ banks' = b /\ assoc' = a
                /\ UNCHANGED <<locked, run>>

\* update-usage has counted jobs of an association, or its usage has decayed.
\* (What becomes of others is further steps.)
UpdateUsage(a, usage) ==
  a \in DOMAIN assoc /\ Commit(banks, [assoc EXCEPT ![a].usage = usage])

\* clear_usage () of a leaf: usage and fair-share value of its associations.
ClearUsage(b) ==
  Commit(banks, [a \in DOMAIN assoc |->
    IF BankOf[a] = b THEN [assoc[a] EXCEPT !.usage = 0, !.fshare = DefaultFshare]
    ELSE assoc[a]])

\* edit_user (), and edit_bank (), which takes no bank its last share.
EditShares(a, shares) ==
  a \in DOMAIN assoc /\ Commit(banks, [assoc EXCEPT ![a].shares = shares])
EditBankShares(b, shares) ==
  shares > 0 /\ Commit([banks EXCEPT ![b].shares = shares], assoc)

\* add_user () of a new association, or of one that was deleted.
AddUser(a, shares) ==
  \/ /\ a \notin DOMAIN assoc
     /\ LET row == [shares |-> shares, usage |-> 0, active |-> TRUE, fshare |-> DefaultFshare]
        IN Commit(banks, [c \in DOMAIN assoc \cup {a} |-> IF c = a THEN row ELSE assoc[c]])
  \/ a \in DOMAIN assoc /\ Commit(banks, [assoc EXCEPT ![a].active = TRUE])

\* delete_user (), with and without --force
DeleteUser(a) ==
  /\ a \in DOMAIN assoc
  /\ \/ Commit(banks, [c \in DOMAIN assoc \ {a} |-> assoc[c]])
     \/ Commit(banks, [assoc EXCEPT ![a].active = FALSE])

\* add_bank () of a bank that was deleted.
AddBank(b) == Commit([banks EXCEPT ![b].active = TRUE], assoc)

\* delete_bank () of the bank and what is below.  It commits with each
\* association; but the bank goes first, and nothing below it is read.
DeleteBank(b) ==
  Commit([c \in Banks |-> [banks[c] EXCEPT !.active = @ /\ ~IsBelow(c, b)]],
         [a \in DOMAIN assoc |-> [assoc[a] EXCEPT !.active = @ /\ ~IsBelow(a, b)]])

---------------------------------------------------------------------------
Script(r) == Load(r) \/ Write(r) \/ GiveUp(r)

EditUsers == \E a \in Assocs :
  \/ \E u \in 0..MaxUsage : UpdateUsage(a, u)
  \/ \E s \in Shares : EditShares(a, s) \/ AddUser(a, s)
  \/ DeleteUser(a)
EditBanks == \E b \in Banks \ {Root} :
  \/ \E s \in Shares : EditBankShares(b, s)
  \/ AddBank(b) \/ DeleteBank(b)
  \/ b \in Leaves /\ ClearUsage(b)

Next == \/ \E r \in Runs : Script(r) \/ Kill(r)
        \/ EditUsers \/ EditBanks
        \/ OtherLocks \/ OtherUnlocks

Spec == Init /\ [][Next]_vars

\* cron runs the script for ever, and nobody keeps the lock for ever.
FairSpec == /\ Spec
            /\ \A r \in Runs : []<>(run[r] # Idle) /\ WF_vars(Write(r))
            /\ WF_vars(OtherUnlocks)

---------------------------------------------------------------------------
(* Properties *)

\* What a run finds does not depend on the order in which equals were
\* visited: an association gets the rank that its banks and then itself have
\* among their likes, those of equal standing get the same, and no rank is 0
\* (handle_leaf, build_tie_aware_children).
RankedByStanding == \A r \in Runs : run[r].ranks = Standing(run[r].tree)

\* Of siblings that have used something one has used a second, so that their
\* usage together is not 0 for the program (calc_set_children_weight).
SecondsCounted(b, a) ==
  \A read \in {Read(b, a)} : \A n \in read :
    UsageOf(read, a, n) # 0 =>
      \E m \in read : ParentOf(m) = ParentOf(n) /\ UsageOf(read, a, m) >= Unit

\* Banks tie that have no shares, and so no weight whatever they use.
SharelessTie(tree) ==
  \E b, c \in DOMAIN tree \cap Banks :
    b # c /\ ParentOf(b) = ParentOf(c) /\ banks[b].shares = 0 /\ banks[c].shares = 0

\* Whoever has used less than before does not lose by it, whatever becomes of
\* the weights of its bank, of the banks that tied with it, and of its siblings
\* (calc_set_weight, merge_grand_children), and though the sum of the siblings'
\* usage drops fractions: as long as something of that sum is left, and banks
\* without shares do not tie.
AnyOrder == CHOOSE order \in Orders : TRUE
UsesLess(a) == /\ UNCHANGED banks /\ DOMAIN assoc' = DOMAIN assoc
               /\ assoc'[a].usage < assoc[a].usage
               /\ assoc' = [assoc EXCEPT ![a].usage = assoc'[a].usage]
UsingLessNeverHurts ==
  [][\A a \in DOMAIN assoc : UsesLess(a) /\ SecondsCounted(banks', assoc') =>
       \A before \in {Tree(banks, assoc)}, after \in {Tree(banks', assoc')} :
         a \in DOMAIN before /\ ~SharelessTie(before) =>
           Walk(after, AnyOrder)[a] >= Walk(before, AnyOrder)[a]]_vars

\* The emulator finds what the program finds, though it has weights of its own,
\* unless banks tie that have sub-banks (_build_tie_aware_children, _traverse),
\* or banks whose associations have used fractions of a second: the program
\* drops them from the sums, which then no longer compare across the two banks
\* (calculate_children_weights, calc_set_children_weight).
SubBanksTie(tree) ==
  \E b, c \in DOMAIN tree \cap Banks :
    b # c /\ ParentOf(b) = ParentOf(c) /\ TieIn(tree, b, c) /\ {b, c} \cap Leaves # {b, c}
FractionsTie(tree) ==
  \E b, c \in DOMAIN tree \cap Banks :
    /\ b # c /\ ParentOf(b) = ParentOf(c) /\ TieIn(tree, b, c)
    /\ \E a \in Users(tree) : BankOf[a] = b /\ Whole(assoc[a].usage, Unit) # assoc[a].usage
EmulatorAgrees ==
  \A tree \in {Tree(banks, assoc)}, own \in {EmulatorTree(banks, assoc)} :
    \/ ~SecondsCounted(banks, assoc) \/ SubBanksTie(tree) \/ FractionsTie(tree)
    \/ \A order \in Orders : Emulate(own, order) = Walk(tree, order)

\* When nothing is changed any more, the values in the table become those of
\* the tree and stay so, whatever older runs still had to write.
Settled ==
  \A tree \in {Tree(banks, assoc)} : \A ranks \in {Standing(tree)} :
    \A a \in Users(tree) : assoc[a].fshare = <<ranks[a], Cardinality(Users(tree))>>
FairshareSettles == <>[]Settled

=============================================================================
