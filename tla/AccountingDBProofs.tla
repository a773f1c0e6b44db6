-------------------------- MODULE AccountingDBProofs --------------------------
(***************************************************************************)
(* The accounting database, for any names, requests and tables, under      *)
(* kills, timeouts and other writers.  First: a transaction of the service *)
(* is seen by nobody else before its commit, and there is never a second   *)
(* root bank; the types of the rows, and what the commands keep of the     *)
(* associations: their usage rows, one default bank for each user, no bank *)
(* with both associations and sub-banks.  Then what the commands come to   *)
(* when all their steps are taken together:                                *)
(*                                                                         *)
(*   ChangesAreWhole   AccountingDB implements AtomicAccounting            *)
(*   DefaultsFollow    a removal leaves no user with a default bank that   *)
(*                     is not active                                       *)
(*   SubtreesAreTaken  delete_bank removes everything below the bank       *)
(*   NothingStaysOpen  no command leaves its transaction to the next       *)
(*                                                                         *)
(* The first three of these ask for the fourth, []NothingLeftOpen: what a  *)
(* command that is refused half-way leaves behind is committed by          *)
(* whichever command comes next.  The fourth says for which requests it    *)
(* holds.                                                                  *)
(***************************************************************************)
EXTENDS AccountingDB, SequenceTheorems, SumProofs

(***************************************************************************)
(* What a step may do to the file, whatever it does to the tables.         *)
(***************************************************************************)
Transaction ==
  \/ NoWrite
  \/ lock' = Service /\ UNCHANGED disk
  \/ work' = disk' /\ lock' = Free

LEMMA ReceiveIsTransaction ==
  ASSUME NEW r, Receive(r)
  PROVE  Transaction
<1> USE DEF Transaction, Write, Save, Raise, Begin
<1>1. CASE AddBank(r)
  BY <1>1 DEF AddBank
<1>2. CASE DeleteBank(r)
  BY <1>2 DEF DeleteBank
<1>3. CASE EditBank(r)
  BY <1>3 DEF EditBank
<1>4. CASE AddUser(r)
  BY <1>4 DEF AddUser
<1>5. CASE DeleteUser(r)
  BY <1>5 DEF DeleteUser
<1>6. CASE EditUser(r)
  BY <1>6 DEF EditUser
<1>7. CASE EditAllUsers(r)
  BY <1>7 DEF EditAllUsers
<1>8. CASE AddQueue(r)
  BY <1>8 DEF AddQueue
<1>9. CASE DeleteQueue(r)
  BY <1>9 DEF DeleteQueue
<1>10. CASE EditQueue(r)
  BY <1>10 DEF EditQueue
<1>11. CASE AddProject(r) \/ DeleteProject(r)
  BY <1>11 DEF AddProject, DeleteProject
<1>12. CASE EditFactor(r) \/ ResetFactors(r)
  BY <1>12 DEF EditFactor, ResetFactors
<1>13. CASE AddConfig(r) \/ DeleteConfig(r)
  BY <1>13 DEF AddConfig, DeleteConfig
<1>14. CASE EditConfig(r) \/ PopulateDb(r)
  BY <1>14 DEF EditConfig, PopulateDb
<1>15. CASE SyncUserids(r) \/ ScrubOldJobs(r) \/ ClearUsage(r)
  BY <1>15 DEF SyncUserids, ScrubOldJobs, ClearUsage
<1>16. CASE TurnedAway(r)
  BY <1>16 DEF TurnedAway
<1> QED
  BY <1>1, <1>2, <1>3, <1>4, <1>5, <1>6, <1>7, <1>8, <1>9, <1>10, <1>11, <1>12,
     <1>13, <1>14, <1>15, <1>16 DEF Receive

LEMMA ContinueIsTransaction ==
  ASSUME Continue \/ LockedOut
  PROVE  Transaction
<1> USE DEF Transaction, Write, Save, Raise
<1>1. CASE VisitBank
  BY <1>1 DEF VisitBank
<1>2. CASE RecalculateUsage
  BY <1>2 DEF RecalculateUsage
<1>3. CASE SaveAll
  BY <1>3 DEF SaveAll
<1>4. CASE EditBankShares \/ EditBankParent
  BY <1>4 DEF EditBankShares, EditBankParent
<1>5. CASE DisableUser
  BY <1>5 DEF DisableUser
<1>6. CASE UpdateDefaultBank
  BY <1>6 DEF UpdateDefaultBank
<1>7. CASE EditModifyQueues \/ EditDefaultBank \/ EditShares
  BY <1>7 DEF EditModifyQueues, EditDefaultBank, EditShares
<1>8. CASE EditQueues \/ EditProjects
  BY <1>8 DEF EditQueues, EditProjects
<1>9. CASE EditQueueLimit \/ EditConfigKey
  BY <1>9 DEF EditQueueLimit, EditConfigKey
<1>10. CASE ReconfigureBins \/ PopulateRow
  BY <1>10 DEF ReconfigureBins, PopulateRow
<1>11. CASE LockedOut
  BY <1>11 DEF LockedOut
<1> QED
  BY <1>1, <1>2, <1>3, <1>4, <1>5, <1>6, <1>7, <1>8, <1>9, <1>10, <1>11 DEF Continue

LEMMA TransactionKeepsClean ==
  ASSUME CleanUnlessLocked, Transaction
  PROVE  CleanUnlessLocked'
BY DEF CleanUnlessLocked, Transaction, NoWrite, Service, Free

LEMMA OthersKeepClean ==
  ASSUME CleanUnlessLocked, OtherLocks \/ OtherUnlocks \/ Tick \/ Restart
  PROVE  CleanUnlessLocked'
BY DEF CleanUnlessLocked, OtherLocks, OtherUnlocks, Tick, Restart, Service, Free, Other

(***************************************************************************)
(* Whatever the service sees and other processes do not is held under the  *)
(* lock, however commands interleave with scripts, fail, wait in vain for  *)
(* the lock or are killed.                                                 *)
(***************************************************************************)
THEOREM OpenTransactionsAreLocked == Spec => []CleanUnlessLocked
<1>1. Init => CleanUnlessLocked
  BY DEF Init, InitWith, CleanUnlessLocked
<1>2. CleanUnlessLocked /\ [Next]_vars => CleanUnlessLocked'
  <2> SUFFICES ASSUME CleanUnlessLocked, [Next]_vars PROVE CleanUnlessLocked'
    OBVIOUS
  <2>1. ASSUME NEW r \in Requests, Receive(r) PROVE CleanUnlessLocked'
    BY <2>1, ReceiveIsTransaction, TransactionKeepsClean
  <2>2. CASE Continue \/ LockedOut
    BY <2>2, ContinueIsTransaction, TransactionKeepsClean
  <2>3. CASE OtherLocks \/ OtherUnlocks \/ Tick \/ Restart
    BY <2>3, OthersKeepClean
  <2>4. CASE UNCHANGED vars
    BY <2>4 DEF vars, CleanUnlessLocked
  <2> QED BY <2>1, <2>2, <2>3, <2>4 DEF Next
<1> QED BY <1>1, <1>2, PTL DEF Spec

---------------------------------------------------------------------------
(* The root bank.                                                          *)

(* What the statements need to know of the tables to leave other columns   *)
(* and other tables alone.                                                 *)
Shaped(d) ==
  /\ "banks" \in DOMAIN d
  /\ \A x \in d.banks : {"bank", "parent"} \subseteq DOMAIN x /\ x.bank # NoBank
Rooted(d) == Shaped(d) /\ OneRoot(d)

LEMMA InsertBankRooted ==
  ASSUME NEW d, Rooted(d), NEW i, NEW b, b # NoBank, NEW p, NEW s,
         p = NoBank => ~HasRoot(d)
  PROVE  Rooted(InsertBank(d, i, b, p, s))
<1> DEFINE new == [id |-> i, bank |-> b, parent |-> p, active |-> TRUE, shares |-> s]
           after == InsertBank(d, i, b, p, s)
<1>1. after.banks = d.banks \cup {new} /\ "banks" \in DOMAIN after
  BY DEF InsertBank, Rooted, Shaped
<1>2. {"bank", "parent"} \subseteq DOMAIN new /\ new.bank = b /\ new.parent = p
  OBVIOUS
<1> HIDE DEF new, after
<1>3. Shaped(after)
  BY <1>1, <1>2 DEF Rooted, Shaped
<1>4. OneRoot(after)
  BY <1>1, <1>2 DEF OneRoot, Rooted, HasRoot
<1> QED BY <1>3, <1>4 DEF Rooted, after

LEMMA ReactivateBankRooted ==
  ASSUME NEW d, Rooted(d), NEW b, NEW p
  PROVE  Rooted(ReactivateBank(d, b, p))
<1> DEFINE new(x) == IF x.bank = b /\ x.parent = p THEN [x EXCEPT !.active = TRUE] ELSE x
           after == ReactivateBank(d, b, p)
<1>1. after.banks = {new(x) : x \in d.banks} /\ "banks" \in DOMAIN after
  BY DEF ReactivateBank, Rooted, Shaped
<1>2. ASSUME NEW x \in d.banks
      PROVE  {"bank", "parent"} \subseteq DOMAIN new(x) /\ new(x).bank = x.bank /\ new(x).parent = x.parent
  BY DEF Rooted, Shaped
<1> HIDE DEF new, after
<1>3. Shaped(after)
  BY <1>1, <1>2 DEF Rooted, Shaped
<1>4. OneRoot(after)
  BY <1>1, <1>2 DEF OneRoot, Rooted
<1> QED BY <1>3, <1>4 DEF Rooted, after

LEMMA RemoveBankRooted ==
  ASSUME NEW d, Rooted(d), NEW b, NEW force
  PROVE  Rooted(RemoveBank(d, b, force))
<1> DEFINE new(x) == IF x.bank = b THEN [x EXCEPT !.active = FALSE] ELSE x
           after == RemoveBank(d, b, force)
<1>1. /\ "banks" \in DOMAIN after
      /\ \/ after.banks \subseteq d.banks
         \/ after.banks = {new(x) : x \in d.banks}
  BY DEF RemoveBank, Rooted, Shaped
<1>2. ASSUME NEW x \in d.banks
      PROVE  {"bank", "parent"} \subseteq DOMAIN new(x) /\ new(x).bank = x.bank
             /\ new(x).parent = x.parent
  BY DEF Rooted, Shaped
<1> HIDE DEF new, after
<1>3. Shaped(after)
  BY <1>1, <1>2 DEF Rooted, Shaped
<1>4. OneRoot(after)
  BY <1>1, <1>2 DEF OneRoot, Rooted
<1> QED BY <1>3, <1>4 DEF Rooted, after

LEMMA SetBankSharesRooted ==
  ASSUME NEW d, Rooted(d), NEW b, NEW s
  PROVE  Rooted(SetBankShares(d, b, s))
<1> DEFINE new(x) == IF x.bank = b THEN [x EXCEPT !.shares = s] ELSE x
           after == SetBankShares(d, b, s)
<1>1. after.banks = {new(x) : x \in d.banks} /\ "banks" \in DOMAIN after
  BY DEF SetBankShares, Rooted, Shaped
<1>2. ASSUME NEW x \in d.banks
      PROVE  {"bank", "parent"} \subseteq DOMAIN new(x) /\ new(x).bank = x.bank
             /\ new(x).parent = x.parent
  BY DEF Rooted, Shaped
<1> HIDE DEF new, after
<1>3. Shaped(after)
  BY <1>1, <1>2 DEF Rooted, Shaped
<1>4. OneRoot(after)
  BY <1>1, <1>2 DEF OneRoot, Rooted
<1> QED BY <1>3, <1>4 DEF Rooted, after

(* A bank gets a parent that is in the table: no row becomes a root.       *)
LEMMA SetBankParentRooted ==
  ASSUME NEW d, Rooted(d), NEW b, NEW p, p # NoBank
  PROVE  Rooted(SetBankParent(d, b, p))
<1> DEFINE new(x) == IF x.bank = b THEN [x EXCEPT !.parent = p] ELSE x
           after == SetBankParent(d, b, p)
<1>1. after.banks = {new(x) : x \in d.banks} /\ "banks" \in DOMAIN after
  BY DEF SetBankParent, Rooted, Shaped
<1>2. ASSUME NEW x \in d.banks
      PROVE  {"bank", "parent"} \subseteq DOMAIN new(x) /\ new(x).bank = x.bank
             /\ (new(x).parent = NoBank => new(x) = x)
  BY DEF Rooted, Shaped
<1> HIDE DEF new, after
<1>3. Shaped(after)
  BY <1>1, <1>2 DEF Rooted, Shaped
<1>4. OneRoot(after)
  BY <1>1, <1>2 DEF OneRoot, Rooted
<1> QED BY <1>3, <1>4 DEF Rooted, after

(* The statements on the other tables. *)
SameBanks(e, d) == e.banks = d.banks /\ "banks" \in DOMAIN e
LEMMA SameBanksRooted ==
  ASSUME NEW d, Rooted(d), NEW e, SameBanks(e, d)
  PROVE  Rooted(e)
BY DEF Rooted, Shaped, OneRoot, SameBanks

LEMMA AssociationsKeepBanks ==
  ASSUME NEW d, Rooted(d), NEW u, NEW b, NEW v
  PROVE  /\ \A row : SameBanks(InsertAssociation(d, row), d)
         /\ SameBanks(ReactivateAssociation(d, u, b), d)
         /\ SameBanks(RemoveAssociation(d, u, b, v), d)
         /\ SameBanks(SetDefaultBank(d, u, b, v), d)
         /\ SameBanks(SetShares(d, u, b, v), d)
         /\ SameBanks(SetQueues(d, u, b, v), d)
         /\ SameBanks(SetProjects(d, u, b, v), d)
         /\ \A w : SameBanks(ModifyQueues(d, u, b, v, w), d)
         /\ SameBanks(SetAllUsers(d, b, u, v), d)
<1> USE DEF Rooted, Shaped, SameBanks
<1>1. \A row : SameBanks(InsertAssociation(d, row), d)
  BY DEF InsertAssociation
<1>2. SameBanks(ReactivateAssociation(d, u, b), d) /\ SameBanks(RemoveAssociation(d, u, b, v), d)
  BY DEF ReactivateAssociation, RemoveAssociation
<1>3. SameBanks(SetDefaultBank(d, u, b, v), d) /\ SameBanks(SetShares(d, u, b, v), d)
  BY DEF SetDefaultBank, SetShares
<1>4. SameBanks(SetQueues(d, u, b, v), d) /\ SameBanks(SetProjects(d, u, b, v), d)
  BY DEF SetQueues, SetProjects
<1>5. \A w : SameBanks(ModifyQueues(d, u, b, v, w), d)
  BY DEF ModifyQueues
<1>6. SameBanks(SetAllUsers(d, b, u, v), d)
  BY DEF SetAllUsers
<1> HIDE DEF Rooted, Shaped, SameBanks
<1> QED BY <1>1, <1>2, <1>3, <1>4, <1>5, <1>6

LEMMA OthersKeepBanks ==
  ASSUME NEW d, Rooted(d), NEW k, NEW v, NEW w
  PROVE  /\ SameBanks(InsertQueue(d, k, v, w), d)
         /\ SameBanks(RemoveQueue(d, k), d)
         /\ SameBanks(SetQueueLimit(d, k, v, w), d)
         /\ SameBanks(InsertProject(d, k), d)
         /\ SameBanks(RemoveProject(d, k), d)
         /\ SameBanks(InsertKey(d, k, v), d)
         /\ SameBanks(RemoveKey(d, k), d)
         /\ SameBanks(SetKey(d, k, v), d)
         /\ SameBanks(SetWeight(d, k, v), d)
         /\ SameBanks(ResetWeights(d), d)
<1> USE DEF Rooted, Shaped, SameBanks
<1>1. SameBanks(InsertQueue(d, k, v, w), d) /\ SameBanks(RemoveQueue(d, k), d)
  BY DEF InsertQueue, RemoveQueue
<1>2. SameBanks(SetQueueLimit(d, k, v, w), d)
  BY DEF SetQueueLimit
<1>3. SameBanks(InsertProject(d, k), d) /\ SameBanks(RemoveProject(d, k), d)
  BY DEF InsertProject, RemoveProject
<1>4. SameBanks(InsertKey(d, k, v), d) /\ SameBanks(RemoveKey(d, k), d) /\ SameBanks(SetKey(d, k, v), d)
  BY DEF InsertKey, RemoveKey, SetKey
<1>5. SameBanks(SetWeight(d, k, v), d) /\ SameBanks(ResetWeights(d), d)
  BY DEF SetWeight, ResetWeights
<1> HIDE DEF Rooted, Shaped, SameBanks
<1> QED BY <1>1, <1>2, <1>3, <1>4, <1>5

LEMMA AddBankNamesABank ==
  ASSUME NEW r \in Requests, r.op = "add_bank"
  PROVE  r.bank # NoBank
<1>1. r \in Edits
  BY BoundsAssumption
<1>2. r \in AddBankRequests
  BY <1>1 DEF Edits, AddUserRequests, DeleteUserRequests, EditUserRequests,
     EditAllUsersRequests, DeleteBankRequests, EditBankRequests, AddQueueRequests,
     EditQueueRequests, DeleteQueueRequests, AddProjectRequests, DeleteProjectRequests,
     EditFactorRequests, ResetFactorsRequests, AddConfigRequests, EditConfigRequests,
     DeleteConfigRequests, PopDbRequests, SyncUseridsRequests, ScrubRequests,
     ClearUsageRequests
<1> QED BY <1>2, NamesAssumption DEF AddBankRequests

TwoRooted == Rooted(disk) /\ Rooted(work)

LEMMA StatementsKeepRooted ==
  ASSUME TwoRooted
  PROVE  /\ \A d : Rooted(d) /\ (Write(d) \/ Save(d)) => TwoRooted'
         /\ \A d : SameBanks(d, work) /\ (Write(d) \/ Save(d)) => TwoRooted'
         /\ Write(work) \/ Save(work) \/ NoWrite => TwoRooted'
         /\ (\E r, tasks : Begin(r, tasks)) => TwoRooted'
         /\ Raise => TwoRooted'
BY SameBanksRooted DEF TwoRooted, Write, Save, NoWrite, Begin, Raise

LEMMA AddBankKeepsRooted ==
  ASSUME TwoRooted, NEW r \in Requests, AddBank(r)
  PROVE  TwoRooted'
<1>1. r.bank # NoBank
  BY AddBankNamesABank DEF AddBank, Short
<1>2. CASE BankRefused(work, r) /\ Raise
  BY <1>2, StatementsKeepRooted
<1>3. CASE Save(ReactivateBank(work, r.bank, r.parent))
  BY <1>3, ReactivateBankRooted, StatementsKeepRooted DEF TwoRooted
<1>4. CASE /\ ~BankRefused(work, r)
           /\ \E i \in 1..MaxBankRows : Save(InsertBank(work, i, r.bank, r.parent, Default))
  <2>1. r.parent = NoBank => ~HasRoot(work)
    BY <1>4 DEF BankRefused
  <2>2. \A i : Rooted(InsertBank(work, i, r.bank, r.parent, Default))
    BY <1>1, <2>1, InsertBankRooted DEF TwoRooted
  <2> QED BY <1>4, <2>2, StatementsKeepRooted
<1> QED BY <1>2, <1>3, <1>4 DEF AddBank

LEMMA ReceiveKeepsRooted ==
  ASSUME TwoRooted, NEW r \in Requests, Receive(r)
  PROVE  TwoRooted'
<1> USE StatementsKeepRooted
<1> DEFINE d == work
<1>a. Rooted(work)
  BY DEF TwoRooted
<1>1. CASE AddBank(r)
  BY <1>1, AddBankKeepsRooted
<1>2. CASE DeleteBank(r) \/ EditBank(r) \/ DeleteUser(r) \/ EditQueue(r) \/ EditConfig(r)
           \/ PopulateDb(r)
  BY <1>2 DEF DeleteBank, EditBank, DeleteUser, EditQueue, EditConfig, PopulateDb
<1>3. CASE AddUser(r)
  BY <1>3, <1>a, AssociationsKeepBanks DEF AddUser
<1>4. CASE EditUser(r)
  BY <1>4 DEF EditUser
<1>5. CASE EditAllUsers(r)
  BY <1>5, <1>a, AssociationsKeepBanks DEF EditAllUsers
<1>6. CASE AddQueue(r) \/ DeleteQueue(r)
  BY <1>6, <1>a, OthersKeepBanks DEF AddQueue, DeleteQueue
<1>7. CASE AddProject(r) \/ DeleteProject(r)
  BY <1>7, <1>a, OthersKeepBanks DEF AddProject, DeleteProject
<1>8. CASE EditFactor(r) \/ ResetFactors(r)
  BY <1>8, <1>a, OthersKeepBanks DEF EditFactor, ResetFactors
<1>9. CASE AddConfig(r) \/ DeleteConfig(r)
  BY <1>9, <1>a, OthersKeepBanks DEF AddConfig, DeleteConfig
<1>10. CASE SyncUserids(r) \/ ScrubOldJobs(r) \/ ClearUsage(r) \/ TurnedAway(r)
  BY <1>10 DEF SyncUserids, ScrubOldJobs, ClearUsage, TurnedAway
<1> QED
  BY <1>1, <1>2, <1>3, <1>4, <1>5, <1>6, <1>7, <1>8, <1>9, <1>10 DEF Receive

LEMMA ContinueKeepsRooted ==
  ASSUME TwoRooted, Continue \/ LockedOut
  PROVE  TwoRooted'
<1> USE StatementsKeepRooted
<1>a. Rooted(work)
  BY DEF TwoRooted
<1>1. CASE VisitBank
  BY <1>1, <1>a, RemoveBankRooted DEF VisitBank
<1>2. CASE RecalculateUsage \/ SaveAll \/ ReconfigureBins \/ LockedOut
  BY <1>2 DEF RecalculateUsage, SaveAll, ReconfigureBins, LockedOut
<1>3. CASE EditBankShares
  BY <1>3, <1>a, SetBankSharesRooted DEF EditBankShares
<1>4. CASE EditBankParent
  <2>1. KnownBank(work, Head(todo).value) => Head(todo).value # NoBank
    BY <1>a DEF KnownBank, Rooted, Shaped
  <2> QED BY <1>4, <1>a, <2>1, SetBankParentRooted DEF EditBankParent
<1>5. CASE DisableUser \/ UpdateDefaultBank
  BY <1>5, <1>a, AssociationsKeepBanks DEF DisableUser, UpdateDefaultBank
<1>6. CASE EditModifyQueues \/ EditDefaultBank \/ EditShares
  BY <1>6, <1>a, AssociationsKeepBanks DEF EditModifyQueues, EditDefaultBank, EditShares
<1>7. CASE EditQueues \/ EditProjects
  BY <1>7, <1>a, AssociationsKeepBanks DEF EditQueues, EditProjects
<1>8. CASE EditQueueLimit \/ EditConfigKey
  BY <1>8, <1>a, OthersKeepBanks DEF EditQueueLimit, EditConfigKey
<1>9. CASE PopulateRow
  <2>1. \A x : SameBanks([work EXCEPT !.assocs = @ \cup {x}], work)
    BY <1>a DEF SameBanks, Rooted, Shaped
  <2> QED BY <1>9, <2>1 DEF PopulateRow
<1> QED BY <1>1, <1>2, <1>3, <1>4, <1>5, <1>6, <1>7, <1>8, <1>9 DEF Continue

LEMMA NextKeepsRooted == TwoRooted /\ [Next]_vars => TwoRooted'
<1> SUFFICES ASSUME TwoRooted, [Next]_vars PROVE TwoRooted'
  OBVIOUS
<1>1. ASSUME NEW r \in Requests, Receive(r) PROVE TwoRooted'
  BY <1>1, ReceiveKeepsRooted
<1>2. CASE Continue \/ LockedOut
  BY <1>2, ContinueKeepsRooted
<1>3. CASE OtherLocks \/ OtherUnlocks \/ Tick \/ Restart
  BY <1>3 DEF OtherLocks, OtherUnlocks, Tick, Restart, TwoRooted
<1>4. CASE UNCHANGED vars
  BY <1>4 DEF vars, TwoRooted
<1> QED BY <1>1, <1>2, <1>3, <1>4 DEF Next

(***************************************************************************)
(* There is never a second root bank, for the service or for another       *)
(* process: add_bank looks before it inserts, nobody else can commit in    *)
(* between, and no other command makes a root.                             *)
(***************************************************************************)
THEOREM NeverTwoRoots == Spec => []OneRootBank
<1>1. Init => TwoRooted
  <2>1. Rooted(NewTables)
    BY DEF NewTables, Rooted, Shaped, OneRoot
  <2> QED BY <2>1 DEF Init, InitWith, TwoRooted
<1>2. TwoRooted => OneRootBank
  BY DEF TwoRooted, Rooted, OneRootBank
<1> QED BY <1>1, <1>2, NextKeepsRooted, PTL DEF Spec

---------------------------------------------------------------------------
(* Each statement takes tables to tables. *)

LEMMA BankStatementTypes ==
  ASSUME NEW d \in Tables, NEW b \in Banks, NEW i \in Nat
  PROVE  /\ \A p \in Banks \cup {NoBank}, s \in Shares : InsertBank(d, i, b, p, s) \in Tables
         /\ \A p : ReactivateBank(d, b, p) \in Tables
         /\ \A force : RemoveBank(d, b, force) \in Tables
         /\ \A s \in Shares : SetBankShares(d, b, s) \in Tables
         /\ \A p \in Banks : SetBankParent(d, b, p) \in Tables
<1>0. \A bs \in SUBSET BankRow : [d EXCEPT !.banks = bs] \in Tables
  BY DEF Tables
<1>a. d.banks \in SUBSET BankRow
  BY DEF Tables
<1>1. ASSUME NEW p \in Banks \cup {NoBank}, NEW s \in Shares
      PROVE  InsertBank(d, i, b, p, s) \in Tables
  <2>1. [id |-> i, bank |-> b, parent |-> p, active |-> TRUE, shares |-> s] \in BankRow
    BY DEF BankRow
  <2> QED BY <1>0, <1>a, <2>1 DEF InsertBank
<1>2. ASSUME NEW x \in BankRow
      PROVE  /\ [x EXCEPT !.active = TRUE] \in BankRow /\ [x EXCEPT !.active = FALSE] \in BankRow
             /\ \A s \in Shares : [x EXCEPT !.shares = s] \in BankRow
             /\ \A p \in Banks : [x EXCEPT !.parent = p] \in BankRow
  BY DEF BankRow
<1>3. ASSUME NEW p PROVE ReactivateBank(d, b, p) \in Tables
  <2>1. {IF x.bank = b /\ x.parent = p THEN [x EXCEPT !.active = TRUE] ELSE x : x \in d.banks}
          \in SUBSET BankRow
    BY <1>a, <1>2
  <2> QED BY <1>0, <2>1 DEF ReactivateBank
<1>4. ASSUME NEW force PROVE RemoveBank(d, b, force) \in Tables
  <2>1. /\ {x \in d.banks : x.bank # b} \in SUBSET BankRow
        /\ {IF x.bank = b THEN [x EXCEPT !.active = FALSE] ELSE x : x \in d.banks}
             \in SUBSET BankRow
    BY <1>a, <1>2
  <2> QED BY <1>0, <2>1 DEF RemoveBank
<1>5. ASSUME NEW s \in Shares PROVE SetBankShares(d, b, s) \in Tables
  BY <1>0, <1>a, <1>2 DEF SetBankShares
<1>6. ASSUME NEW p \in Banks PROVE SetBankParent(d, b, p) \in Tables
  BY <1>0, <1>a, <1>2 DEF SetBankParent
<1> QED BY <1>1, <1>3, <1>4, <1>5, <1>6

LEMMA AssociationStatementTypes ==
  ASSUME NEW d \in Tables, NEW u \in Users, NEW b \in Banks \cup {Keep}
  PROVE  /\ \A row \in AssocRow : InsertAssociation(d, row) \in Tables
         /\ ReactivateAssociation(d, u, b) \in Tables
         /\ \A force : RemoveAssociation(d, u, b, force) \in Tables
         /\ \A new \in Banks : SetDefaultBank(d, u, b, new) \in Tables
         /\ \A s \in Shares : SetShares(d, u, b, s) \in Tables
         /\ \A qs \in SUBSET Queues : SetQueues(d, u, b, qs) \in Tables
         /\ \A ps \in SUBSET Projects : SetProjects(d, u, b, ps) \in Tables
         /\ \A add \in Queues \cup {Keep}, del \in Queues \cup {Keep} :
              ModifyQueues(d, u, b, add, del) \in Tables
<1>0. \A rows \in SUBSET AssocRow : [d EXCEPT !.assocs = rows] \in Tables
  BY DEF Tables
<1>a. d.assocs \in SUBSET AssocRow
  BY DEF Tables
<1>1. ASSUME NEW row \in AssocRow PROVE InsertAssociation(d, row) \in Tables
  <2> DEFINE rows == d.assocs \cup {row}
             keys == d.factors \cup {<<row.user, row.bank>>}
  <2>1. rows \in SUBSET AssocRow
    BY <1>a
  <2>2. keys \in SUBSET (Users \X Banks)
    BY DEF AssocRow, Tables
  <2>3. InsertAssociation(d, row) = [d EXCEPT !.assocs = rows, !.factors = keys]
    BY DEF InsertAssociation
  <2> HIDE DEF rows, keys
  <2> QED BY <2>1, <2>2, <2>3 DEF Tables
<1>2. ASSUME NEW x \in AssocRow
      PROVE  /\ [x EXCEPT !.active = TRUE] \in AssocRow /\ [x EXCEPT !.active = FALSE] \in AssocRow
             /\ \A new \in Banks : [x EXCEPT !.def = new] \in AssocRow
             /\ \A s \in Shares : [x EXCEPT !.shares = s] \in AssocRow
             /\ \A qs \in SUBSET Queues : [x EXCEPT !.queues = qs] \in AssocRow
             /\ \A ps \in SUBSET Projects : [x EXCEPT !.projects = ps] \in AssocRow
  BY DEF AssocRow
<1>3. ReactivateAssociation(d, u, b) \in Tables
  <2>1. {IF x.user = u /\ x.bank = b THEN [x EXCEPT !.active = TRUE] ELSE x : x \in d.assocs}
          \in SUBSET AssocRow
    BY <1>a, <1>2
  <2> QED BY <1>0, <2>1 DEF ReactivateAssociation
<1>4. ASSUME NEW force PROVE RemoveAssociation(d, u, b, force) \in Tables
  <2>1. /\ {x \in d.assocs : ~(x.user = u /\ x.bank = b)} \in SUBSET AssocRow
        /\ {IF x.user = u /\ x.bank = b THEN [x EXCEPT !.active = FALSE] ELSE x : x \in d.assocs}
             \in SUBSET AssocRow
    BY <1>a, <1>2
  <2> QED BY <1>0, <2>1 DEF RemoveAssociation
<1>5. /\ \A new \in Banks : SetDefaultBank(d, u, b, new) \in Tables
      /\ \A s \in Shares : SetShares(d, u, b, s) \in Tables
      /\ \A qs \in SUBSET Queues : SetQueues(d, u, b, qs) \in Tables
      /\ \A ps \in SUBSET Projects : SetProjects(d, u, b, ps) \in Tables
  BY <1>0, <1>a, <1>2 DEF SetDefaultBank, SetShares, SetQueues, SetProjects
<1>6. ASSUME NEW add \in Queues \cup {Keep}, NEW del \in Queues \cup {Keep}
      PROVE  ModifyQueues(d, u, b, add, del) \in Tables
  <2> DEFINE qs(x) == (x.queues \cup ({add} \ {Keep})) \ {del}
  <2>1. ASSUME NEW x \in AssocRow PROVE [x EXCEPT !.queues = qs(x)] \in AssocRow
    <3>1. qs(x) \in SUBSET Queues
      BY DEF AssocRow
    <3> QED BY <1>2, <3>1
  <2> HIDE DEF qs
  <2>2. {IF Chosen(x, u, b) THEN [x EXCEPT !.queues = qs(x)] ELSE x : x \in d.assocs}
          \in SUBSET AssocRow
    BY <1>a, <2>1
  <2> QED BY <1>0, <2>2 DEF ModifyQueues, qs
<1> QED BY <1>1, <1>3, <1>4, <1>5, <1>6

LEMMA AllUsersTypes ==
  ASSUME NEW d \in Tables, NEW b \in Banks \cup {Keep}, NEW def \in Banks \cup {Keep},
         NEW qs \in (SUBSET Queues) \cup {Keep}
  PROVE  SetAllUsers(d, b, def, qs) \in Tables
<1> DEFINE new(x) == [x EXCEPT !.bank = IF b = Keep THEN @ ELSE b,
                               !.def = IF def = Keep THEN @ ELSE def,
                               !.queues = IF qs = Keep THEN @ ELSE qs]
<1>1. \A x \in AssocRow : new(x) \in AssocRow
  BY DEF AssocRow
<1>2. SetAllUsers(d, b, def, qs) = [d EXCEPT !.assocs = {new(x) : x \in d.assocs}]
  BY DEF SetAllUsers
<1> HIDE DEF new
<1> QED BY <1>1, <1>2 DEF Tables

LEMMA OtherStatementTypes ==
  ASSUME NEW d \in Tables
  PROVE  /\ \A q \in Queues : InsertQueue(d, q, Default, Default) \in Tables
         /\ \A q : RemoveQueue(d, q) \in Tables
         /\ \A field : \A q \in Queues, v \in Shares : SetQueueLimit(d, q, field, v) \in Tables
         /\ \A p \in Projects : InsertProject(d, p) \in Tables
         /\ \A p : RemoveProject(d, p) \in Tables
         /\ \A k \in Keys, v \in Shares :
              InsertKey(d, k, v) \in Tables /\ SetKey(d, k, v) \in Tables
         /\ \A k : RemoveKey(d, k) \in Tables
         /\ \A f \in Factors, w \in Shares : SetWeight(d, f, w) \in Tables
         /\ ResetWeights(d) \in Tables
<1> USE NamesAssumption DEF Tables, QueueRow
<1>1. \A q \in Queues : InsertQueue(d, q, Default, Default) \in Tables
  BY DEF InsertQueue
<1>2. \A q : RemoveQueue(d, q) \in Tables
  BY DEF RemoveQueue
<1>3. ASSUME NEW q \in Queues, NEW field, NEW v \in Shares
      PROVE  SetQueueLimit(d, q, field, v) \in Tables
  BY DEF SetQueueLimit
<1>4. /\ \A p \in Projects : InsertProject(d, p) \in Tables
      /\ \A p : RemoveProject(d, p) \in Tables
  BY DEF InsertProject, RemoveProject
<1>5. \A k \in Keys, v \in Shares : InsertKey(d, k, v) \in Tables
  BY DEF InsertKey
<1>6. ASSUME NEW k \in Keys, NEW v \in Shares PROVE SetKey(d, k, v) \in Tables
  BY DEF SetKey
<1>7. \A k : RemoveKey(d, k) \in Tables
  BY DEF RemoveKey
<1>8. \A f \in Factors, w \in Shares : SetWeight(d, f, w) \in Tables
  BY DEF SetWeight
<1>9. ResetWeights(d) \in Tables
  BY DEF ResetWeights
<1> QED BY <1>1, <1>2, <1>3, <1>4, <1>5, <1>6, <1>7, <1>8, <1>9

---------------------------------------------------------------------------
(* The shape of a step: one statement, or none, and then an answer, the    *)
(* next tasks, or the tasks of a request that has just come in.            *)

Stated == (\E d \in Tables : Write(d) \/ Save(d)) \/ NoWrite
Ended == Answer("ok") \/ Answer("error") \/ (~Idle /\ \E tasks \in Seq(Task) : GoOn(tasks))
Begun(r) == \E tasks \in Seq(Task) : Begin(r, tasks)

LEMMA ShapedStepKeepsTypes ==
  ASSUME TypeOK, Stated, Ended, UNCHANGED now
  PROVE  TypeOK'
<1>1. disk' \in Tables /\ work' \in Tables /\ lock' \in {Free, Service, Other}
  BY DEF Stated, Write, Save, NoWrite, TypeOK
<1>2. ASSUME NEW a \in {"ok", "error"}, Answer(a)
      PROVE  /\ todo' \in Seq(Task) /\ cmd' \in Requests \cup {NoCommand} /\ before' \in Tables
             /\ reply' \in {"none", "ok", "error"}
  BY <1>1, <1>2 DEF Answer
<1>3. ASSUME NEW tasks \in Seq(Task), GoOn(tasks), ~Idle
      PROVE  /\ todo' \in Seq(Task) /\ cmd' \in Requests \cup {NoCommand} /\ before' \in Tables
             /\ reply' \in {"none", "ok", "error"}
  <2>1. tasks \o Tail(todo) \in Seq(Task)
    BY <1>3 DEF TypeOK, Idle
  <2>2. CASE tasks \o Tail(todo) = <<>>
    BY <1>2, <1>3, <2>2 DEF GoOn
  <2>3. CASE tasks \o Tail(todo) # <<>>
    BY <1>3, <2>1, <2>3 DEF GoOn, TypeOK
  <2> QED BY <2>2, <2>3
<1>4. /\ todo' \in Seq(Task) /\ cmd' \in Requests \cup {NoCommand} /\ before' \in Tables
      /\ reply' \in {"none", "ok", "error"}
  BY <1>2, <1>3 DEF Ended
<1> QED BY <1>1, <1>4 DEF TypeOK

LEMMA BegunKeepsTypes ==
  ASSUME TypeOK, NEW r \in Requests, Begun(r)
  PROVE  TypeOK'
BY DEF Begun, Begin, NoWrite, TypeOK

LEMMA OneOfType ==
  ASSUME NEW task, NEW cond, cond => task \in Task
  PROVE  OneOf(task, cond) \in Seq(Task)
BY DEF OneOf

LEMMA AloneType ==
  ASSUME NEW task \in Task
  PROVE  <<task>> \in Seq(Task)
OBVIOUS

LEMMA Concatenated ==
  ASSUME NEW s \in Seq(Task), NEW t \in Seq(Task)
  PROVE  s \o t \in Seq(Task)
OBVIOUS

(* What the requests and the tasks hold. *)
LEMMA RequestIs ==
  ASSUME NEW r \in Edits
  PROVE  /\ r.op = "add_user" => r \in AddUserRequests
         /\ r.op = "delete_user" => r \in DeleteUserRequests
         /\ r.op = "edit_user" => r \in EditUserRequests
         /\ r.op = "edit_all_users" => r \in EditAllUsersRequests
         /\ r.op = "add_bank" => r \in AddBankRequests
         /\ r.op = "delete_bank" => r \in DeleteBankRequests
         /\ r.op = "edit_bank" => r \in EditBankRequests
         /\ r.op = "add_queue" => r \in AddQueueRequests
         /\ r.op = "edit_queue" => r \in EditQueueRequests
         /\ r.op = "delete_queue" => r \in DeleteQueueRequests
         /\ r.op = "add_project" => r \in AddProjectRequests
         /\ r.op = "delete_project" => r \in DeleteProjectRequests
         /\ r.op = "edit_factor" => r \in EditFactorRequests
         /\ r.op = "add_config" => r \in AddConfigRequests
         /\ r.op = "edit_config" => r \in EditConfigRequests
         /\ r.op = "delete_config" => r \in DeleteConfigRequests
         /\ r.op = "pop_db" => r \in PopDbRequests
<1> USE DEF AddUserRequests, DeleteUserRequests, EditUserRequests,
     EditAllUsersRequests, AddBankRequests, DeleteBankRequests, EditBankRequests,
     AddQueueRequests, EditQueueRequests, DeleteQueueRequests, AddProjectRequests,
     DeleteProjectRequests, EditFactorRequests, ResetFactorsRequests, AddConfigRequests,
     EditConfigRequests, DeleteConfigRequests, PopDbRequests, SyncUseridsRequests,
     ScrubRequests, ClearUsageRequests, Edits
<1> QED OBVIOUS

LEMMA TaskIs ==
  ASSUME NEW t \in Task
  PROVE  /\ t.do = "banks" => t \in [do: {"banks"}, names: SUBSET Banks, depth: Nat, force: BOOLEAN]
         /\ t.do = "users" => t \in [do: {"users"}, names: SUBSET Users, bank: Banks, force: BOOLEAN]
         /\ t.do = "default" => t \in [do: {"default"}, user: Users, bank: Banks]
         /\ t.do = "bank_shares" => t \in [do: {"bank_shares"}, bank: Banks, value: Shares \cup {Bad}]
         /\ t.do = "bank_parent" => t \in [do: {"bank_parent"}, bank: Banks, value: Banks]
         /\ t.do = "modify_queues" =>
              t \in [do: {"modify_queues"}, user: Users, bank: Banks \cup {Keep},
                     add: Queues \cup {Keep}, del: Queues \cup {Keep}]
         /\ t.do = "user_def" =>
              t \in [do: {"user_def"}, user: Users, bank: Banks \cup {Keep}, value: Banks \cup {Reset}]
         /\ t.do = "user_shares" =>
              t \in [do: {"user_shares"}, user: Users, bank: Banks \cup {Keep}, value: Shares]
         /\ t.do = "user_queues" =>
              t \in [do: {"user_queues"}, user: Users, bank: Banks \cup {Keep},
                     value: (SUBSET Queues) \cup {Reset}]
         /\ t.do = "user_projects" =>
              t \in [do: {"user_projects"}, user: Users, bank: Banks \cup {Keep},
                     value: (SUBSET Projects) \cup {Reset}]
         /\ t.do = "queue_limit" =>
              t \in [do: {"queue_limit"}, queue: Queues, field: {"running", "nodes"},
                     value: Shares \cup {Bad}]
         /\ t.do = "config" => t \in [do: {"config"}, key: Keys, value: Shares \cup {Bad}]
         /\ t.do = "row" => t \in [do: {"row"}, row: AssocRow]
BY DEF Task

LEMMA HeadIsTask ==
  ASSUME TypeOK, ~Idle
  PROVE  Head(todo) \in Task
BY DEF TypeOK, Idle

(* A request that comes in. *)
LEMMA ReceiveKeepsTypes ==
  ASSUME TypeOK, NEW r \in Requests, Receive(r)
  PROVE  TypeOK'
<1>a. r \in Edits /\ work \in Tables /\ Default \in Shares /\ now \in Nat
  BY BoundsAssumption, NamesAssumption DEF TypeOK
<1>b. Raise => Stated /\ Ended
  BY DEF Raise, Stated, Ended
<1>c. ASSUME NEW name, Short(r, name) PROVE r.op = name /\ UNCHANGED now
  BY <1>c DEF Short
<1>d. \A d \in Tables : Write(d) \/ Save(d) => Stated
  BY DEF Stated
<1>e. Answer("ok") \/ Answer("error") => Ended
  BY DEF Ended
<1>f. Stated /\ Ended /\ UNCHANGED now => TypeOK'
  BY ShapedStepKeepsTypes
<1>g. Begun(r) => TypeOK'
  BY BegunKeepsTypes
<1>1. CASE AddBank(r)
  <2>1. r \in AddBankRequests
    BY <1>1, <1>a, <1>c, RequestIs DEF AddBank
  <2>2. r.bank \in Banks /\ r.parent \in Banks \cup {NoBank}
    BY <2>1 DEF AddBankRequests
  <2>3. \A i \in 1..MaxBankRows : InsertBank(work, i, r.bank, r.parent, Default) \in Tables
    BY <1>a, <2>2, BankStatementTypes
  <2>4. ReactivateBank(work, r.bank, r.parent) \in Tables
    BY <1>a, <2>2, BankStatementTypes
  <2> QED BY <1>1, <1>b, <1>c, <1>d, <1>e, <1>f, <2>3, <2>4 DEF AddBank
<1>2. CASE DeleteBank(r)
  <2>1. r \in DeleteBankRequests
    BY <1>2, <1>a, RequestIs DEF DeleteBank
  <2>2. [do |-> "banks", names |-> {r.bank}, depth |-> 0, force |-> r.force] \in Task
        /\ [do |-> "usage"] \in Task /\ [do |-> "save"] \in Task
    BY <2>1 DEF DeleteBankRequests, Task
  <2>3. /\ Visits({r.bank}, 0, r.force) \in Seq(Task)
        /\ OneOf([do |-> "usage"], r.force) \in Seq(Task)
        /\ <<[do |-> "save"]>> \in Seq(Task)
    BY <2>2, OneOfType DEF Visits
  <2>4. (Visits({r.bank}, 0, r.force) \o OneOf([do |-> "usage"], r.force) \o <<[do |-> "save"]>>)
          \in Seq(Task)
    BY <2>3, Concatenated
  <2> QED BY <1>2, <1>g, <2>4 DEF DeleteBank, Begun
<1>3. CASE EditBank(r)
  <2>1. r \in EditBankRequests
    BY <1>3, <1>a, RequestIs DEF EditBank
  <2>2. /\ r.shares # Keep => [do |-> "bank_shares", bank |-> r.bank, value |-> r.shares] \in Task
        /\ r.parent # Keep => [do |-> "bank_parent", bank |-> r.bank, value |-> r.parent] \in Task
        /\ [do |-> "save"] \in Task
    BY <2>1 DEF EditBankRequests, Task, Given
  <2>3. /\ OneOf([do |-> "bank_shares", bank |-> r.bank, value |-> r.shares], r.shares # Keep)
             \in Seq(Task)
        /\ OneOf([do |-> "bank_parent", bank |-> r.bank, value |-> r.parent], r.parent # Keep)
             \in Seq(Task)
        /\ <<[do |-> "save"]>> \in Seq(Task)
    BY <2>2, OneOfType, AloneType
  <2>4. (OneOf([do |-> "bank_shares", bank |-> r.bank, value |-> r.shares], r.shares # Keep)
          \o OneOf([do |-> "bank_parent", bank |-> r.bank, value |-> r.parent], r.parent # Keep)
          \o <<[do |-> "save"]>>) \in Seq(Task)
    BY <2>3, Concatenated
  <2> QED BY <1>3, <1>g, <2>4 DEF EditBank, Begun
<1>4. CASE AddUser(r)
  <2>1. r \in AddUserRequests
    BY <1>4, <1>a, <1>c, RequestIs DEF AddUser
  <2>2. /\ r.user \in Users /\ r.bank \in Banks /\ r.queues \in SUBSET Queues
        /\ r.projects \in SUBSET Projects
    BY <2>1 DEF AddUserRequests
  <2>3. ReactivateAssociation(work, r.user, r.bank) \in Tables
    BY <1>a, <2>2, AssociationStatementTypes
  <2>4. ASSUME NEW def \in DefaultBanks(work, r.user, r.bank)
        PROVE  InsertAssociation(work, NewRow(r, def)) \in Tables
    <3>1. def \in Banks
      BY <1>a, <2>2 DEF DefaultBanks, RowsOf, Tables, AssocRow
    <3>2. NewRow(r, def) \in AssocRow
      BY <1>a, <2>2, <3>1 DEF NewRow, AssocRow
    <3> QED BY <1>a, <2>2, <3>2, AssociationStatementTypes
  <2> QED BY <1>4, <1>b, <1>c, <1>d, <1>e, <1>f, <2>3, <2>4 DEF AddUser
<1>5. CASE DeleteUser(r)
  <2>1. r \in DeleteUserRequests
    BY <1>5, <1>a, RequestIs DEF DeleteUser
  <2>2. [do |-> "users", names |-> {r.user}, bank |-> r.bank, force |-> r.force] \in Task
    BY <2>1 DEF DeleteUserRequests, Task
  <2>3. Removals({r.user}, r.bank, r.force) \in Seq(Task)
    BY <2>2, OneOfType DEF Removals
  <2> QED BY <1>5, <1>g, <2>3 DEF DeleteUser, Begun
<1>6. CASE EditUser(r)
  <2> DEFINE A == OneOf([do |-> "modify_queues", user |-> r.user, bank |-> r.bank,
                         add |-> r.add, del |-> r.del], {r.add, r.del} # {Keep})
             B == OneOf([do |-> "user_def", user |-> r.user, bank |-> r.bank,
                         value |-> r.def], r.def # Keep)
             C == OneOf([do |-> "user_shares", user |-> r.user, bank |-> r.bank,
                         value |-> r.shares], r.shares # Keep)
             D == OneOf([do |-> "user_queues", user |-> r.user, bank |-> r.bank,
                         value |-> r.queues], r.queues # Keep)
             E == OneOf([do |-> "user_projects", user |-> r.user, bank |-> r.bank,
                         value |-> r.projects], r.projects # Keep)
  <2>1. r \in EditUserRequests
    BY <1>6, <1>a, RequestIs DEF EditUser
  <2>2. /\ [do |-> "modify_queues", user |-> r.user, bank |-> r.bank,
            add |-> r.add, del |-> r.del] \in Task
        /\ r.def # Keep =>
             [do |-> "user_def", user |-> r.user, bank |-> r.bank, value |-> r.def] \in Task
        /\ r.shares # Keep =>
             [do |-> "user_shares", user |-> r.user, bank |-> r.bank, value |-> r.shares] \in Task
        /\ r.queues # Keep =>
             [do |-> "user_queues", user |-> r.user, bank |-> r.bank, value |-> r.queues] \in Task
        /\ r.projects # Keep =>
             [do |-> "user_projects", user |-> r.user, bank |-> r.bank, value |-> r.projects] \in Task
        /\ [do |-> "save"] \in Task
    BY <2>1 DEF EditUserRequests, Task, Given
  <2>3. /\ A \in Seq(Task) /\ B \in Seq(Task) /\ C \in Seq(Task) /\ D \in Seq(Task)
        /\ E \in Seq(Task) /\ <<[do |-> "save"]>> \in Seq(Task)
    BY <2>2, OneOfType, AloneType
  <2>4. (Idle /\ Raise /\ UNCHANGED now) \/ Begin(r, A \o B \o C \o D \o E \o <<[do |-> "save"]>>)
    BY <1>6 DEF EditUser
  <2> HIDE DEF A, B, C, D, E
  <2>5. (A \o B \o C \o D \o E \o <<[do |-> "save"]>>) \in Seq(Task)
    BY <2>3, Concatenated
  <2> QED BY <1>b, <1>f, <1>g, <2>4, <2>5 DEF Begun
<1>7. CASE EditAllUsers(r)
  <2>1. r \in EditAllUsersRequests
    BY <1>7, <1>a, <1>c, RequestIs DEF EditAllUsers
  <2>2. r.bank \in Banks \cup {Keep} /\ r.def \in Banks \cup {Keep, Reset}
        /\ r.queues \in (SUBSET Queues) \cup {Keep}
    BY <2>1 DEF EditAllUsersRequests, Given
  <2>3. r.def # Reset => SetAllUsers(work, r.bank, r.def, r.queues) \in Tables
    BY <1>a, <2>2, AllUsersTypes
  <2> QED BY <1>7, <1>a, <1>b, <1>c, <1>d, <1>e, <1>f, <2>3 DEF EditAllUsers
<1>8. CASE AddQueue(r) \/ DeleteQueue(r)
  <2>1. AddQueue(r) => r.queue \in Queues
    BY <1>a, <1>c, RequestIs DEF AddQueue, AddQueueRequests
  <2>2. AddQueue(r) => InsertQueue(work, r.queue, Default, Default) \in Tables
    BY <1>a, <2>1, OtherStatementTypes
  <2>3. RemoveQueue(work, r.queue) \in Tables
    BY <1>a, OtherStatementTypes
  <2> QED BY <1>8, <1>a, <1>c, <1>d, <1>e, <1>f, <2>2, <2>3 DEF AddQueue, DeleteQueue
<1>9. CASE EditQueue(r)
  <2>1. r \in EditQueueRequests
    BY <1>9, <1>a, RequestIs DEF EditQueue
  <2> DEFINE A == OneOf([do |-> "queue_limit", queue |-> r.queue, field |-> "running",
                         value |-> r.running], r.running # Keep)
             B == OneOf([do |-> "queue_limit", queue |-> r.queue, field |-> "nodes",
                         value |-> r.nodes], r.nodes # Keep)
  <2>2. /\ r.running # Keep =>
             [do |-> "queue_limit", queue |-> r.queue, field |-> "running", value |-> r.running]
                \in Task
        /\ r.nodes # Keep =>
             [do |-> "queue_limit", queue |-> r.queue, field |-> "nodes", value |-> r.nodes] \in Task
    BY <2>1 DEF EditQueueRequests, Task, Given
  <2>3. A \in Seq(Task) /\ B \in Seq(Task)
    BY <2>2, OneOfType
  <2>4. Begin(r, A \o B)
    BY <1>9 DEF EditQueue
  <2> HIDE DEF A, B
  <2> QED BY <1>g, <2>3, <2>4, Concatenated DEF Begun
<1>10. CASE AddProject(r) \/ DeleteProject(r)
  <2>1. AddProject(r) => r.project \in Projects
    BY <1>a, <1>c, RequestIs DEF AddProject, AddProjectRequests
  <2>2. AddProject(r) => InsertProject(work, r.project) \in Tables
    BY <1>a, <2>1, OtherStatementTypes
  <2>3. RemoveProject(work, r.project) \in Tables
    BY <1>a, OtherStatementTypes
  <2> QED BY <1>10, <1>b, <1>c, <1>d, <1>e, <1>f, <2>2, <2>3 DEF AddProject, DeleteProject
<1>11. CASE EditFactor(r) \/ ResetFactors(r)
  <2>1. EditFactor(r) => r.weight \in Shares
    BY <1>a, <1>c, RequestIs DEF EditFactor, EditFactorRequests
  <2>2. EditFactor(r) /\ r.factor \in Factors => SetWeight(work, r.factor, r.weight) \in Tables
    BY <1>a, <2>1, OtherStatementTypes
  <2>3. ResetWeights(work) \in Tables
    BY <1>a, OtherStatementTypes
  <2> QED BY <1>11, <1>b, <1>c, <1>d, <1>e, <1>f, <2>2, <2>3 DEF EditFactor, ResetFactors
<1>12. CASE AddConfig(r) \/ DeleteConfig(r)
  <2>1. AddConfig(r) => r.key \in Keys /\ r.value \in Shares
    BY <1>a, <1>c, RequestIs DEF AddConfig, AddConfigRequests
  <2>2. AddConfig(r) => InsertKey(work, r.key, r.value) \in Tables
    BY <1>a, <2>1, OtherStatementTypes
  <2>3. RemoveKey(work, r.key) \in Tables
    BY <1>a, OtherStatementTypes
  <2> QED BY <1>12, <1>a, <1>b, <1>c, <1>d, <1>e, <1>f, <2>2, <2>3 DEF AddConfig, DeleteConfig
<1>13. CASE EditConfig(r)
  <2>1. r \in EditConfigRequests
    BY <1>13, <1>a, RequestIs DEF EditConfig
  <2> DEFINE A == OneOf([do |-> "config", key |-> r.key2, value |-> r.value2], r.key2 # Keep)
             B == OneOf([do |-> "rebin"], {r.key, r.key2} \cap BinKeys # {})
             F == <<[do |-> "config", key |-> r.key, value |-> r.value]>>
  <2>2. /\ [do |-> "config", key |-> r.key, value |-> r.value] \in Task
        /\ r.key2 # Keep => [do |-> "config", key |-> r.key2, value |-> r.value2] \in Task
        /\ [do |-> "rebin"] \in Task /\ [do |-> "save"] \in Task
    BY <2>1 DEF EditConfigRequests, Task, Given
  <2>3. A \in Seq(Task) /\ B \in Seq(Task) /\ F \in Seq(Task) /\ <<[do |-> "save"]>> \in Seq(Task)
    BY <2>2, OneOfType, AloneType
  <2>4. Begin(r, F \o A \o B \o <<[do |-> "save"]>>)
    BY <1>13 DEF EditConfig
  <2> HIDE DEF A, B, F
  <2> QED BY <1>g, <2>3, <2>4, Concatenated DEF Begun
<1>14. CASE PopulateDb(r)
  <2>1. r \in PopDbRequests
    BY <1>14, <1>a, RequestIs DEF PopulateDb
  <2>2. [do |-> "row", row |-> r.row] \in Task /\ [do |-> "row", row |-> r.row2] \in Task
        /\ [do |-> "save"] \in Task
    BY <2>1 DEF PopDbRequests, Task
  <2>3. <<[do |-> "row", row |-> r.row], [do |-> "row", row |-> r.row2], [do |-> "save"]>>
          \in Seq(Task)
    BY <2>2
  <2> QED BY <1>14, <1>g, <2>3 DEF PopulateDb, Begun
<1>15. CASE SyncUserids(r) \/ ScrubOldJobs(r) \/ ClearUsage(r)
  <2>1. NoWrite => Stated
    BY DEF Stated
  <2> QED BY <1>15, <1>a, <1>c, <1>d, <1>e, <1>f, <2>1 DEF SyncUserids, ScrubOldJobs, ClearUsage
<1>16. CASE TurnedAway(r)
  BY <1>16, <1>b, <1>f DEF TurnedAway
<1> QED
  BY <1>1, <1>2, <1>3, <1>4, <1>5, <1>6, <1>7, <1>8, <1>9, <1>10, <1>11, <1>12,
     <1>13, <1>14, <1>15, <1>16 DEF Receive

(* A step of the running command. *)
LEMMA ContinueKeepsTypes ==
  ASSUME TypeOK, Continue \/ LockedOut
  PROVE  TypeOK'
<1> DEFINE t == Head(todo)
<1>a. work \in Tables
  BY DEF TypeOK
<1>b. Raise => Stated /\ Ended
  BY DEF Raise, Stated, Ended
<1>c. ASSUME NEW name, Doing(name) PROVE ~Idle /\ t \in Task /\ t.do = name /\ UNCHANGED now
  BY <1>c, HeadIsTask DEF Doing
<1>d. \A d \in Tables : Write(d) \/ Save(d) => Stated
  BY DEF Stated
<1>e. Answer("ok") \/ Answer("error") => Ended
  BY DEF Ended
<1>f. Stated /\ Ended /\ UNCHANGED now => TypeOK'
  BY ShapedStepKeepsTypes
<1>g. \A tasks \in Seq(Task) : ~Idle /\ GoOn(tasks) => Ended
  BY DEF Ended
<1>h. ~Idle /\ GoOn(<<>>) => Ended
  <2>1. <<>> \in Seq(Task)
    OBVIOUS
  <2> QED BY <1>g, <2>1
<1>i. NoWrite => Stated
  BY DEF Stated
<1>1. CASE VisitBank
  <2>1. t \in [do: {"banks"}, names: SUBSET Banks, depth: Nat, force: BOOLEAN]
    BY <1>1, <1>c, TaskIs DEF VisitBank
  <2>2. PICK b \in t.names :
          LET d == RemoveBank(work, b, t.force)
              subs == SubBanks(d, b)
              members == {x.user : x \in MembersOf(d, b)}
          IN IF t.depth >= MaxDepth
               THEN Write(d) /\ Answer("error")
               ELSE /\ Write(d)
                    /\ GoOn((IF subs # {} THEN Visits(subs, t.depth + 1, t.force)
                             ELSE Removals(members, b, t.force))
                              \o Visits(t.names \ {b}, t.depth, t.force))
    BY <1>1 DEF VisitBank
  <2> DEFINE d == RemoveBank(work, b, t.force)
             subs == SubBanks(d, b)
             members == {x.user : x \in MembersOf(d, b)}
             lower == IF subs # {} THEN Visits(subs, t.depth + 1, t.force)
                      ELSE Removals(members, b, t.force)
             rest == Visits(t.names \ {b}, t.depth, t.force)
  <2>3. b \in Banks /\ t.force \in BOOLEAN /\ t.depth \in Nat /\ t.names \in SUBSET Banks
    BY <2>1
  <2>4. d \in Tables
    BY <1>a, <2>3, BankStatementTypes
  <2>5. subs \in SUBSET Banks /\ members \in SUBSET Users
    <3> HIDE DEF d
    <3> QED BY <2>4 DEF SubBanks, MembersOf, Tables, BankRow, AssocRow
  <2>6. Write(d) /\ (Answer("error") \/ GoOn(lower \o rest))
    BY <2>2
  <2> HIDE DEF d, subs, members
  <2>7. /\ [do |-> "banks", names |-> subs, depth |-> t.depth + 1, force |-> t.force] \in Task
        /\ [do |-> "banks", names |-> t.names \ {b}, depth |-> t.depth, force |-> t.force] \in Task
        /\ [do |-> "users", names |-> members, bank |-> b, force |-> t.force] \in Task
    BY <2>3, <2>5 DEF Task
  <2>8. lower \in Seq(Task) /\ rest \in Seq(Task)
    BY <2>7, OneOfType DEF Visits, Removals
  <2> HIDE DEF lower, rest
  <2>9. (lower \o rest) \in Seq(Task)
    BY <2>8, Concatenated
  <2>10. Stated /\ Ended
    BY <1>1, <1>c, <1>d, <1>e, <1>g, <2>4, <2>6, <2>9 DEF VisitBank
  <2> QED BY <1>1, <1>c, <1>f, <2>10 DEF VisitBank
<1>2. CASE RecalculateUsage \/ SaveAll \/ ReconfigureBins
  BY <1>2, <1>a, <1>b, <1>c, <1>d, <1>f, <1>h, <1>i DEF RecalculateUsage, SaveAll, ReconfigureBins
<1>3. CASE EditBankShares
  <2>1. t \in [do: {"bank_shares"}, bank: Banks, value: Shares \cup {Bad}]
    BY <1>3, <1>c, TaskIs DEF EditBankShares
  <2>2. t.value # Bad => SetBankShares(work, t.bank, t.value) \in Tables
    BY <1>a, <2>1, BankStatementTypes
  <2> QED BY <1>3, <1>b, <1>c, <1>d, <1>f, <1>h, <2>2 DEF EditBankShares
<1>4. CASE EditBankParent
  <2>1. t \in [do: {"bank_parent"}, bank: Banks, value: Banks]
    BY <1>4, <1>c, TaskIs DEF EditBankParent
  <2>2. SetBankParent(work, t.bank, t.value) \in Tables
    BY <1>a, <2>1, BankStatementTypes
  <2> QED BY <1>4, <1>b, <1>c, <1>d, <1>f, <1>h, <2>2 DEF EditBankParent
<1>5. CASE DisableUser
  <2>1. t \in [do: {"users"}, names: SUBSET Users, bank: Banks, force: BOOLEAN]
    BY <1>5, <1>c, TaskIs DEF DisableUser
  <2>2. PICK u \in t.names :
          /\ Save(RemoveAssociation(work, u, t.bank, t.force))
          /\ GoOn(<<[do |-> "default", user |-> u, bank |-> t.bank]>>
                    \o Removals(t.names \ {u}, t.bank, t.force))
    BY <1>5 DEF DisableUser
  <2>3. u \in Users /\ t.bank \in Banks
    BY <2>1
  <2>4. RemoveAssociation(work, u, t.bank, t.force) \in Tables
    BY <1>a, <2>3, AssociationStatementTypes
  <2>5. /\ [do |-> "default", user |-> u, bank |-> t.bank] \in Task
        /\ [do |-> "users", names |-> t.names \ {u}, bank |-> t.bank, force |-> t.force] \in Task
    BY <2>1, <2>3 DEF Task
  <2>6. /\ <<[do |-> "default", user |-> u, bank |-> t.bank]>> \in Seq(Task)
        /\ Removals(t.names \ {u}, t.bank, t.force) \in Seq(Task)
    BY <2>5, AloneType, OneOfType DEF Removals
  <2>7. (<<[do |-> "default", user |-> u, bank |-> t.bank]>>
           \o Removals(t.names \ {u}, t.bank, t.force)) \in Seq(Task)
    BY <2>6, Concatenated
  <2>8. Stated /\ Ended
    BY <1>5, <1>c, <1>d, <1>g, <2>2, <2>4, <2>7 DEF DisableUser
  <2> QED BY <1>5, <1>c, <1>f, <2>8 DEF DisableUser
<1>6. CASE UpdateDefaultBank
  <2>1. t \in [do: {"default"}, user: Users, bank: Banks]
    BY <1>6, <1>c, TaskIs DEF UpdateDefaultBank
  <2>2. ASSUME NEW new \in NextDefaults(work, t.user)
        PROVE  SetDefaultBank(work, t.user, Keep, new) \in Tables
    <3>1. new \in Banks
      BY <1>a DEF NextDefaults, RowsOf, Tables, AssocRow
    <3> QED BY <1>a, <2>1, <3>1, AssociationStatementTypes
  <2> QED BY <1>6, <1>c, <1>d, <1>f, <1>h, <1>i, <2>2 DEF UpdateDefaultBank
<1>7. CASE EditModifyQueues
  <2>1. t \in [do: {"modify_queues"}, user: Users, bank: Banks \cup {Keep},
               add: Queues \cup {Keep}, del: Queues \cup {Keep}]
    BY <1>7, <1>c, TaskIs DEF EditModifyQueues
  <2>2. ModifyQueues(work, t.user, t.bank, t.add, t.del) \in Tables
    BY <1>a, <2>1, AssociationStatementTypes
  <2> QED BY <1>7, <1>b, <1>c, <1>d, <1>f, <1>h, <2>2 DEF EditModifyQueues
<1>8. CASE EditDefaultBank
  <2>1. t \in [do: {"user_def"}, user: Users, bank: Banks \cup {Keep}, value: Banks \cup {Reset}]
    BY <1>8, <1>c, TaskIs DEF EditDefaultBank
  <2>2. t.value # Reset => SetDefaultBank(work, t.user, t.bank, t.value) \in Tables
    BY <1>a, <2>1, AssociationStatementTypes
  <2> QED BY <1>8, <1>b, <1>c, <1>d, <1>f, <1>h, <2>2 DEF EditDefaultBank
<1>9. CASE EditShares
  <2>1. t \in [do: {"user_shares"}, user: Users, bank: Banks \cup {Keep}, value: Shares]
    BY <1>9, <1>c, TaskIs DEF EditShares
  <2>2. SetShares(work, t.user, t.bank, t.value) \in Tables
    BY <1>a, <2>1, AssociationStatementTypes
  <2> QED BY <1>9, <1>c, <1>d, <1>f, <1>h, <2>2 DEF EditShares
<1>10. CASE EditQueues
  <2>1. t \in [do: {"user_queues"}, user: Users, bank: Banks \cup {Keep},
               value: (SUBSET Queues) \cup {Reset}]
    BY <1>10, <1>c, TaskIs DEF EditQueues
  <2>2. \A qs \in SUBSET Queues : SetQueues(work, t.user, t.bank, qs) \in Tables
    BY <1>a, <2>1, AssociationStatementTypes
  <2>3. SetQueues(work, t.user, t.bank, {}) \in Tables
        /\ (t.value # Reset => SetQueues(work, t.user, t.bank, t.value) \in Tables)
    BY <2>1, <2>2
  <2> QED BY <1>10, <1>b, <1>c, <1>d, <1>f, <1>h, <2>3 DEF EditQueues
<1>11. CASE EditProjects
  <2>1. t \in [do: {"user_projects"}, user: Users, bank: Banks \cup {Keep},
               value: (SUBSET Projects) \cup {Reset}]
    BY <1>11, <1>c, TaskIs DEF EditProjects
  <2>2. \A ps \in SUBSET Projects : SetProjects(work, t.user, t.bank, ps) \in Tables
    BY <1>a, <2>1, AssociationStatementTypes
  <2>3. SetProjects(work, t.user, t.bank, {}) \in Tables
        /\ (t.value # Reset => SetProjects(work, t.user, t.bank, t.value) \in Tables)
    BY <2>1, <2>2
  <2> QED BY <1>11, <1>b, <1>c, <1>d, <1>f, <1>h, <2>3 DEF EditProjects
<1>12. CASE EditQueueLimit
  <2>1. t \in [do: {"queue_limit"}, queue: Queues, field: {"running", "nodes"},
               value: Shares \cup {Bad}]
    BY <1>12, <1>c, TaskIs DEF EditQueueLimit
  <2>2. ASSUME t.value # Bad PROVE SetQueueLimit(work, t.queue, t.field, t.value) \in Tables
    <3>1. t.queue \in Queues /\ t.value \in Shares
      BY <2>1, <2>2
    <3> QED BY <1>a, <3>1, OtherStatementTypes
  <2> QED BY <1>12, <1>b, <1>c, <1>d, <1>f, <1>h, <2>2 DEF EditQueueLimit
<1>13. CASE EditConfigKey
  <2>1. t \in [do: {"config"}, key: Keys, value: Shares \cup {Bad}]
    BY <1>13, <1>c, TaskIs DEF EditConfigKey
  <2>2. ASSUME t.value # Bad PROVE SetKey(work, t.key, t.value) \in Tables
    <3>1. t.key \in Keys /\ t.value \in Shares
      BY <2>1, <2>2
    <3> QED BY <1>a, <3>1, OtherStatementTypes
  <2> QED BY <1>13, <1>a, <1>b, <1>c, <1>d, <1>e, <1>f, <1>h, <2>2 DEF EditConfigKey
<1>14. CASE PopulateRow
  <2>1. t \in [do: {"row"}, row: AssocRow]
    BY <1>14, <1>c, TaskIs DEF PopulateRow
  <2>2. [work EXCEPT !.assocs = @ \cup {t.row}] \in Tables
    BY <1>a, <2>1 DEF Tables
  <2> QED BY <1>14, <1>a, <1>c, <1>d, <1>e, <1>f, <1>h, <2>2 DEF PopulateRow
<1>15. CASE LockedOut
  BY <1>15, <1>b, <1>f DEF LockedOut
<1> QED
  BY <1>1, <1>2, <1>3, <1>4, <1>5, <1>6, <1>7, <1>8, <1>9, <1>10, <1>11, <1>12,
     <1>13, <1>14, <1>15 DEF Continue

LEMMA OthersKeepTypes ==
  ASSUME TypeOK, OtherLocks \/ OtherUnlocks \/ Tick \/ Restart
  PROVE  TypeOK'
<1>1. CASE OtherLocks \/ OtherUnlocks
  BY <1>1 DEF OtherLocks, OtherUnlocks, TypeOK
<1>2. CASE Tick
  BY <1>2, BoundsAssumption DEF Tick, TypeOK
<1>3. CASE Restart
  BY <1>3 DEF Restart, TypeOK
<1> QED BY <1>1, <1>2, <1>3

LEMMA NewTablesType == NewTables \in Tables
<1>1. LockedKeys \X {Default} \in SUBSET (Keys \X Shares)
  BY NamesAssumption
<1>2. [f \in Factors |-> Default] \in [Factors -> Shares]
  BY NamesAssumption
<1> QED BY <1>1, <1>2 DEF NewTables, Tables

LEMMA StartTypes ==
  ASSUME NEW tables \in Tables, InitWith(tables)
  PROVE  TypeOK
BY BoundsAssumption DEF InitWith, TypeOK

(***************************************************************************)
(* Whatever commands are sent, with whatever arguments the parser lets     *)
(* through: no statement puts a row of another shape into a table, and no  *)
(* command leaves itself a step it cannot take.                            *)
(***************************************************************************)
THEOREM TablesTypesOK == Spec => []TypeOK
<1>1. Init => TypeOK
  BY NewTablesType, StartTypes DEF Init
<1>2. TypeOK /\ [Next]_vars => TypeOK'
  <2> SUFFICES ASSUME TypeOK, [Next]_vars PROVE TypeOK'
    OBVIOUS
  <2>1. ASSUME NEW r \in Requests, Receive(r) PROVE TypeOK'
    BY <2>1, ReceiveKeepsTypes
  <2>2. CASE Continue \/ LockedOut
    BY <2>2, ContinueKeepsTypes
  <2>3. CASE OtherLocks \/ OtherUnlocks \/ Tick \/ Restart
    BY <2>3, OthersKeepTypes
  <2>4. CASE UNCHANGED vars
    BY <2>4 DEF vars, TypeOK
  <2> QED BY <2>1, <2>2, <2>3, <2>4 DEF Next
<1> QED BY <1>1, <1>2, PTL DEF Spec

---------------------------------------------------------------------------
(* What the commands keep of the banks and the associations.               *)

(* Every step that is left to do was asked for by a request that is sent.  *)
AskedTask ==
  {t \in Task :
     /\ t.do = "row" => \E r \in Requests : r.op = "pop_db"
     /\ t.do = "bank_parent" => t.value \in NewParents
     /\ t.do = "user_def" =>
          \E r \in Requests : r.op = "edit_user" /\ r.def # Keep /\ r.bank = t.bank}
AllAsked == todo \in Seq(AskedTask)

LEMMA OneOfAsked ==
  ASSUME NEW task, NEW cond, cond => task \in AskedTask
  PROVE  OneOf(task, cond) \in Seq(AskedTask)
BY DEF OneOf

LEMMA AloneAsked ==
  ASSUME NEW task \in AskedTask
  PROVE  <<task>> \in Seq(AskedTask)
OBVIOUS

LEMMA AskedConcatenated ==
  ASSUME NEW s \in Seq(AskedTask), NEW t \in Seq(AskedTask)
  PROVE  s \o t \in Seq(AskedTask)
OBVIOUS

LEMMA MildIsAsked ==
  ASSUME NEW t \in Task, t.do \notin {"row", "bank_parent", "user_def"}
  PROVE  t \in AskedTask
BY DEF AskedTask

LEMMA ReceiveAsks ==
  ASSUME AllAsked, NEW r \in Requests, Receive(r)
  PROVE  AllAsked'
<1>a. r \in Edits
  BY BoundsAssumption
<1>b. <<>> \in Seq(AskedTask)
  OBVIOUS
<1>c. \A a : Answer(a) => AllAsked'
  BY <1>b DEF Answer, AllAsked
<1>d. \A tasks \in Seq(AskedTask) : Begin(r, tasks) => AllAsked'
  BY DEF Begin, AllAsked
<1>e. [do |-> "save"] \in AskedTask /\ [do |-> "usage"] \in AskedTask /\ [do |-> "rebin"] \in AskedTask
  BY DEF AskedTask, Task
<1>f. <<[do |-> "save"]>> \in Seq(AskedTask)
  BY <1>e, AloneAsked
<1>1. CASE DeleteBank(r)
  <2>1. r \in DeleteBankRequests
    BY <1>1, <1>a, RequestIs DEF DeleteBank
  <2>2. [do |-> "banks", names |-> {r.bank}, depth |-> 0, force |-> r.force] \in Task
    BY <2>1 DEF DeleteBankRequests, Task
  <2>3. Visits({r.bank}, 0, r.force) \in Seq(AskedTask)
        /\ OneOf([do |-> "usage"], r.force) \in Seq(AskedTask)
    BY <1>e, <2>2, MildIsAsked, OneOfAsked DEF Visits
  <2>4. (Visits({r.bank}, 0, r.force) \o OneOf([do |-> "usage"], r.force) \o <<[do |-> "save"]>>)
          \in Seq(AskedTask)
    BY <1>f, <2>3, AskedConcatenated
  <2> QED BY <1>1, <1>d, <2>4 DEF DeleteBank
<1>2. CASE EditBank(r)
  <2> DEFINE A == OneOf([do |-> "bank_shares", bank |-> r.bank, value |-> r.shares],
                        r.shares # Keep)
             parent == [do |-> "bank_parent", bank |-> r.bank, value |-> r.parent]
             B == OneOf(parent, r.parent # Keep)
  <2>1. r \in EditBankRequests /\ r.op = "edit_bank"
    BY <1>2, <1>a, RequestIs DEF EditBank
  <2>2. /\ r.shares # Keep => [do |-> "bank_shares", bank |-> r.bank, value |-> r.shares] \in Task
        /\ r.parent # Keep => parent \in Task
    BY <2>1 DEF EditBankRequests, Task, Given
  <2>3. A \in Seq(AskedTask)
    BY <2>2, MildIsAsked, OneOfAsked
  <2>4. ASSUME r.parent # Keep PROVE parent \in AskedTask
    <3>1. r.parent \in NewParents
      BY <2>1, <2>4 DEF NewParents
    <3> QED BY <2>2, <2>4, <3>1 DEF AskedTask
  <2>5. B \in Seq(AskedTask)
    BY <2>4, OneOfAsked
  <2>6. Begin(r, A \o B \o <<[do |-> "save"]>>)
    BY <1>2 DEF EditBank
  <2> HIDE DEF A, B
  <2>7. (A \o B \o <<[do |-> "save"]>>) \in Seq(AskedTask)
    BY <1>f, <2>3, <2>5, AskedConcatenated
  <2> QED BY <1>d, <2>6, <2>7
<1>3. CASE DeleteUser(r)
  <2>1. r \in DeleteUserRequests
    BY <1>3, <1>a, RequestIs DEF DeleteUser
  <2>2. [do |-> "users", names |-> {r.user}, bank |-> r.bank, force |-> r.force] \in Task
    BY <2>1 DEF DeleteUserRequests, Task
  <2>3. Removals({r.user}, r.bank, r.force) \in Seq(AskedTask)
    BY <2>2, MildIsAsked, OneOfAsked DEF Removals
  <2> QED BY <1>3, <1>d, <2>3 DEF DeleteUser
<1>4. CASE EditUser(r)
  <2> DEFINE def == [do |-> "user_def", user |-> r.user, bank |-> r.bank, value |-> r.def]
             A == OneOf([do |-> "modify_queues", user |-> r.user, bank |-> r.bank,
                         add |-> r.add, del |-> r.del], {r.add, r.del} # {Keep})
             B == OneOf(def, r.def # Keep)
             C == OneOf([do |-> "user_shares", user |-> r.user, bank |-> r.bank,
                         value |-> r.shares], r.shares # Keep)
             D == OneOf([do |-> "user_queues", user |-> r.user, bank |-> r.bank,
                         value |-> r.queues], r.queues # Keep)
             E == OneOf([do |-> "user_projects", user |-> r.user, bank |-> r.bank,
                         value |-> r.projects], r.projects # Keep)
  <2>1. r \in EditUserRequests /\ r.op = "edit_user"
    BY <1>4, <1>a, RequestIs DEF EditUser
  <2>2. /\ [do |-> "modify_queues", user |-> r.user, bank |-> r.bank,
            add |-> r.add, del |-> r.del] \in Task
        /\ r.def # Keep => def \in Task
        /\ r.shares # Keep =>
             [do |-> "user_shares", user |-> r.user, bank |-> r.bank, value |-> r.shares] \in Task
        /\ r.queues # Keep =>
             [do |-> "user_queues", user |-> r.user, bank |-> r.bank, value |-> r.queues] \in Task
        /\ r.projects # Keep =>
             [do |-> "user_projects", user |-> r.user, bank |-> r.bank, value |-> r.projects] \in Task
    BY <2>1 DEF EditUserRequests, Task, Given
  <2>3. A \in Seq(AskedTask) /\ C \in Seq(AskedTask) /\ D \in Seq(AskedTask) /\ E \in Seq(AskedTask)
    BY <2>2, MildIsAsked, OneOfAsked
  <2>4. r.def # Keep => def \in AskedTask
    BY <2>1, <2>2 DEF AskedTask
  <2>5. B \in Seq(AskedTask)
    BY <2>4, OneOfAsked
  <2>6. Raise \/ Begin(r, A \o B \o C \o D \o E \o <<[do |-> "save"]>>)
    BY <1>4 DEF EditUser
  <2> HIDE DEF A, B, C, D, E
  <2>7. (A \o B \o C \o D \o E \o <<[do |-> "save"]>>) \in Seq(AskedTask)
    BY <1>f, <2>3, <2>5, AskedConcatenated
  <2> QED BY <1>c, <1>d, <2>6, <2>7 DEF Raise
<1>5. CASE EditQueue(r)
  <2> DEFINE A == OneOf([do |-> "queue_limit", queue |-> r.queue, field |-> "running",
                         value |-> r.running], r.running # Keep)
             B == OneOf([do |-> "queue_limit", queue |-> r.queue, field |-> "nodes",
                         value |-> r.nodes], r.nodes # Keep)
  <2>1. r \in EditQueueRequests
    BY <1>5, <1>a, RequestIs DEF EditQueue
  <2>2. /\ r.running # Keep =>
             [do |-> "queue_limit", queue |-> r.queue, field |-> "running", value |-> r.running]
                \in Task
        /\ r.nodes # Keep =>
             [do |-> "queue_limit", queue |-> r.queue, field |-> "nodes", value |-> r.nodes] \in Task
    BY <2>1 DEF EditQueueRequests, Task, Given
  <2>3. A \in Seq(AskedTask) /\ B \in Seq(AskedTask)
    BY <2>2, MildIsAsked, OneOfAsked
  <2>4. Begin(r, A \o B)
    BY <1>5 DEF EditQueue
  <2> HIDE DEF A, B
  <2> QED BY <1>d, <2>3, <2>4, AskedConcatenated
<1>6. CASE EditConfig(r)
  <2> DEFINE first == [do |-> "config", key |-> r.key, value |-> r.value]
             A == OneOf([do |-> "config", key |-> r.key2, value |-> r.value2], r.key2 # Keep)
             B == OneOf([do |-> "rebin"], {r.key, r.key2} \cap BinKeys # {})
  <2>1. r \in EditConfigRequests
    BY <1>6, <1>a, RequestIs DEF EditConfig
  <2>2. /\ first \in Task
        /\ r.key2 # Keep => [do |-> "config", key |-> r.key2, value |-> r.value2] \in Task
    BY <2>1 DEF EditConfigRequests, Task, Given
  <2>3. A \in Seq(AskedTask) /\ B \in Seq(AskedTask) /\ first \in AskedTask
    BY <1>e, <2>2, MildIsAsked, OneOfAsked
  <2>4. Begin(r, <<first>> \o A \o B \o <<[do |-> "save"]>>)
    BY <1>6 DEF EditConfig
  <2> HIDE DEF A, B, first
  <2>5. <<first>> \in Seq(AskedTask)
    BY <2>3, AloneAsked
  <2>6. (<<first>> \o A \o B \o <<[do |-> "save"]>>) \in Seq(AskedTask)
    BY <1>f, <2>3, <2>5, AskedConcatenated
  <2> QED BY <1>d, <2>4, <2>6
<1>7. CASE PopulateDb(r)
  <2>1. r \in PopDbRequests /\ r.op = "pop_db"
    BY <1>7, <1>a, RequestIs DEF PopulateDb
  <2>2. [do |-> "row", row |-> r.row] \in Task /\ [do |-> "row", row |-> r.row2] \in Task
    BY <2>1 DEF PopDbRequests, Task
  <2>3. [do |-> "row", row |-> r.row] \in AskedTask /\ [do |-> "row", row |-> r.row2] \in AskedTask
    BY <2>1, <2>2 DEF AskedTask
  <2>4. <<[do |-> "row", row |-> r.row], [do |-> "row", row |-> r.row2], [do |-> "save"]>>
          \in Seq(AskedTask)
    BY <1>e, <2>3
  <2> QED BY <1>7, <1>d, <2>4 DEF PopulateDb
<1>8. CASE AddBank(r) \/ AddUser(r) \/ EditAllUsers(r) \/ AddQueue(r) \/ DeleteQueue(r)
           \/ AddProject(r) \/ DeleteProject(r)
  BY <1>8, <1>c DEF AddBank, AddUser, EditAllUsers, AddQueue, DeleteQueue, AddProject,
     DeleteProject, Raise
<1>9. CASE EditFactor(r) \/ ResetFactors(r) \/ AddConfig(r) \/ DeleteConfig(r)
           \/ SyncUserids(r) \/ ScrubOldJobs(r) \/ ClearUsage(r) \/ TurnedAway(r)
  BY <1>9, <1>c DEF EditFactor, ResetFactors, AddConfig, DeleteConfig, SyncUserids,
     ScrubOldJobs, ClearUsage, TurnedAway, Raise
<1> QED BY <1>1, <1>2, <1>3, <1>4, <1>5, <1>6, <1>7, <1>8, <1>9 DEF Receive

LEMMA ContinueAsks ==
  ASSUME TypeOK, AllAsked, Continue \/ LockedOut
  PROVE  AllAsked'
<1> DEFINE t == Head(todo)
<1>a. <<>> \in Seq(AskedTask)
  OBVIOUS
<1>b. \A a : Answer(a) => AllAsked'
  BY <1>a DEF Answer, AllAsked
<1>c. ASSUME NEW name, Doing(name) PROVE ~Idle /\ t \in Task /\ t.do = name
  BY <1>c, HeadIsTask DEF Doing
<1>d. ASSUME NEW tasks \in Seq(AskedTask), GoOn(tasks), ~Idle PROVE AllAsked'
  <2>1. Tail(todo) \in Seq(AskedTask)
    BY <1>d DEF AllAsked, Idle
  <2>2. tasks \o Tail(todo) \in Seq(AskedTask)
    BY <2>1, AskedConcatenated
  <2> QED BY <1>b, <1>d, <2>2 DEF GoOn, AllAsked
<1>e. ~Idle /\ GoOn(<<>>) => AllAsked'
  BY <1>a, <1>d
<1>1. CASE VisitBank
  <2>1. t \in [do: {"banks"}, names: SUBSET Banks, depth: Nat, force: BOOLEAN]
    BY <1>1, <1>c, TaskIs DEF VisitBank
  <2>2. PICK b \in t.names :
          LET d == RemoveBank(work, b, t.force)
              subs == SubBanks(d, b)
              members == {x.user : x \in MembersOf(d, b)}
          IN IF t.depth >= MaxDepth
               THEN Write(d) /\ Answer("error")
               ELSE /\ Write(d)
                    /\ GoOn((IF subs # {} THEN Visits(subs, t.depth + 1, t.force)
                             ELSE Removals(members, b, t.force))
                              \o Visits(t.names \ {b}, t.depth, t.force))
    BY <1>1 DEF VisitBank
  <2> DEFINE d == RemoveBank(work, b, t.force)
             subs == SubBanks(d, b)
             members == {x.user : x \in MembersOf(d, b)}
             lower == IF subs # {} THEN Visits(subs, t.depth + 1, t.force)
                      ELSE Removals(members, b, t.force)
             rest == Visits(t.names \ {b}, t.depth, t.force)
  <2>3. b \in Banks /\ t.force \in BOOLEAN /\ t.depth \in Nat /\ t.names \in SUBSET Banks
    BY <2>1
  <2>4. d \in Tables
    BY <2>3, BankStatementTypes DEF TypeOK
  <2>5. subs \in SUBSET Banks /\ members \in SUBSET Users
    <3> HIDE DEF d
    <3> QED BY <2>4 DEF SubBanks, MembersOf, Tables, BankRow, AssocRow
  <2>6. Answer("error") \/ GoOn(lower \o rest)
    BY <2>2
  <2> HIDE DEF d, subs, members
  <2>7. /\ [do |-> "banks", names |-> subs, depth |-> t.depth + 1, force |-> t.force] \in Task
        /\ [do |-> "banks", names |-> t.names \ {b}, depth |-> t.depth, force |-> t.force] \in Task
        /\ [do |-> "users", names |-> members, bank |-> b, force |-> t.force] \in Task
    BY <2>3, <2>5 DEF Task
  <2>8. lower \in Seq(AskedTask) /\ rest \in Seq(AskedTask)
    BY <2>7, MildIsAsked, OneOfAsked DEF Visits, Removals
  <2> HIDE DEF lower, rest
  <2>9. lower \o rest \in Seq(AskedTask)
    BY <2>8, AskedConcatenated
  <2> QED BY <1>1, <1>b, <1>c, <1>d, <2>6, <2>9 DEF VisitBank
<1>2. CASE DisableUser
  <2>1. t \in [do: {"users"}, names: SUBSET Users, bank: Banks, force: BOOLEAN]
    BY <1>2, <1>c, TaskIs DEF DisableUser
  <2>2. PICK u \in t.names : GoOn(<<[do |-> "default", user |-> u, bank |-> t.bank]>>
                                     \o Removals(t.names \ {u}, t.bank, t.force))
    BY <1>2 DEF DisableUser
  <2>3. /\ [do |-> "default", user |-> u, bank |-> t.bank] \in Task
        /\ [do |-> "users", names |-> t.names \ {u}, bank |-> t.bank, force |-> t.force] \in Task
    BY <2>1 DEF Task
  <2>4. /\ <<[do |-> "default", user |-> u, bank |-> t.bank]>> \in Seq(AskedTask)
        /\ Removals(t.names \ {u}, t.bank, t.force) \in Seq(AskedTask)
    BY <2>3, MildIsAsked, AloneAsked, OneOfAsked DEF Removals
  <2>5. (<<[do |-> "default", user |-> u, bank |-> t.bank]>>
           \o Removals(t.names \ {u}, t.bank, t.force)) \in Seq(AskedTask)
    BY <2>4, AskedConcatenated
  <2> QED BY <1>2, <1>c, <1>d, <2>2, <2>5 DEF DisableUser
<1> USE <1>b, <1>c, <1>e
<1>3. CASE RecalculateUsage \/ SaveAll \/ EditBankShares \/ EditBankParent
  BY <1>3 DEF RecalculateUsage, SaveAll, EditBankShares, EditBankParent, Raise
<1>4. CASE UpdateDefaultBank \/ EditModifyQueues \/ EditDefaultBank \/ EditShares
  BY <1>4 DEF UpdateDefaultBank, EditModifyQueues, EditDefaultBank, EditShares, Raise
<1>5. CASE EditQueues \/ EditProjects
  BY <1>5 DEF EditQueues, EditProjects, Raise
<1>6. CASE EditQueueLimit \/ EditConfigKey \/ ReconfigureBins \/ PopulateRow
  BY <1>6 DEF EditQueueLimit, EditConfigKey, ReconfigureBins, PopulateRow, Raise
<1>7. CASE LockedOut
  BY <1>7 DEF LockedOut, Raise
<1> QED BY <1>1, <1>2, <1>3, <1>4, <1>5, <1>6, <1>7 DEF Continue

(* What a statement leaves of the tables: the parents, the keys of the     *)
(* associations, the users' default banks.                                 *)
SameParents(e, d) == \A x \in e.banks : \E a \in d.banks : a.parent = x.parent
SameKeys(e, d) ==
  /\ d.factors \subseteq e.factors
  /\ \A x, y \in e.assocs : \E a, b \in d.assocs :
       /\ a.user = x.user /\ a.bank = x.bank /\ b.user = y.user /\ b.bank = y.bank
       /\ a = b => x = y
SameDefaults(e, d) == \A x \in e.assocs : \E a \in d.assocs : a.user = x.user /\ a.def = x.def

(* No association stands at a bank that may get sub-banks by edit-bank.    *)
Apart(d) == Unmixed(d) /\ \A x \in d.assocs : x.bank \notin NewParents
Kept(d) ==
  /\ AllRowsStay /\ ParentsStayEmpty => Apart(d)
  /\ DefaultsGoTogether => Agreed(d)
  /\ AllRowsStay => Keyed(d)

LEMMA SameKept ==
  ASSUME NEW d \in Tables, NEW e \in Tables, Kept(d),
         SameParents(e, d), SameKeys(e, d), SameDefaults(e, d)
  PROVE  Kept(e)
<1>1. ASSUME SameParents(e, d), SameKeys(e, d), Apart(d) PROVE Apart(e)
  <2>1. ASSUME NEW x \in e.assocs PROVE \E a \in d.assocs : a.bank = x.bank
    BY <1>1 DEF SameKeys
  <2> QED BY <1>1, <2>1 DEF SameParents, Apart, Unmixed
<1>2. ASSUME SameKeys(e, d), Keyed(d) PROVE Keyed(e)
  <2>1. ASSUME NEW x \in e.assocs, NEW y \in e.assocs, x.user = y.user, x.bank = y.bank
        PROVE  x = y
    BY <1>2, <2>1 DEF SameKeys, Keyed
  <2>2. ASSUME NEW x \in e.assocs PROVE <<x.user, x.bank>> \in e.factors
    <3>1. PICK a \in d.assocs : a.user = x.user /\ a.bank = x.bank
      BY <1>2 DEF SameKeys
    <3>2. <<a.user, a.bank>> \in d.factors
      BY <1>2, <3>1 DEF Keyed
    <3> QED BY <1>2, <3>1, <3>2 DEF SameKeys
  <2> QED BY <2>1, <2>2 DEF Keyed
<1>3. ASSUME SameDefaults(e, d), Agreed(d) PROVE Agreed(e)
  BY <1>3 DEF SameDefaults, Agreed
<1> QED BY <1>1, <1>2, <1>3 DEF Kept

(* A table of associations whose rows are changed one by one, but not in   *)
(* their keys.                                                             *)
LEMMA RowsChanged ==
  ASSUME NEW d \in Tables, NEW e, NEW new,
         e.banks = d.banks, e.factors = d.factors,
         e.assocs = {new[x] : x \in d.assocs},
         \A x \in AssocRow : new[x].user = x.user /\ new[x].bank = x.bank
  PROVE  /\ SameParents(e, d) /\ SameKeys(e, d)
         /\ (\A x \in AssocRow : new[x].def = x.def) => SameDefaults(e, d)
<1>1. \A x \in d.assocs : x \in AssocRow
  BY DEF Tables
<1>2. SameParents(e, d)
  BY DEF SameParents
<1>3. SameKeys(e, d)
  <2>1. ASSUME NEW x \in e.assocs, NEW y \in e.assocs
        PROVE  \E a, b \in d.assocs :
                 /\ a.user = x.user /\ a.bank = x.bank /\ b.user = y.user /\ b.bank = y.bank
                 /\ a = b => x = y
    <3>1. PICK a \in d.assocs : x = new[a]
      OBVIOUS
    <3>2. PICK b \in d.assocs : y = new[b]
      OBVIOUS
    <3> QED BY <1>1, <3>1, <3>2
  <2> QED BY <2>1 DEF SameKeys
<1>4. (\A x \in AssocRow : new[x].def = x.def) => SameDefaults(e, d)
  BY <1>1 DEF SameDefaults
<1> QED BY <1>2, <1>3, <1>4

(* The statements that only look at the keys. *)
LEMMA AssociationStatementsKeep ==
  ASSUME NEW d \in Tables, Kept(d), NEW u \in Users, NEW b \in Banks \cup {Keep}
  PROVE  /\ Kept(ReactivateAssociation(d, u, b))
         /\ \A force : Kept(RemoveAssociation(d, u, b, force))
         /\ \A s \in Shares : Kept(SetShares(d, u, b, s))
         /\ \A qs \in SUBSET Queues : Kept(SetQueues(d, u, b, qs))
         /\ \A ps \in SUBSET Projects : Kept(SetProjects(d, u, b, ps))
         /\ \A add \in Queues \cup {Keep}, del \in Queues \cup {Keep} :
              Kept(ModifyQueues(d, u, b, add, del))
<1>1. Kept(ReactivateAssociation(d, u, b))
  <2> DEFINE e == ReactivateAssociation(d, u, b)
             new == [x \in AssocRow |-> IF x.user = u /\ x.bank = b
                                          THEN [x EXCEPT !.active = TRUE] ELSE x]
  <2>0. e \in Tables
    BY AssociationStatementTypes
  <2>1. /\ e.banks = d.banks /\ e.factors = d.factors
        /\ e.assocs = {new[x] : x \in d.assocs}
    BY DEF ReactivateAssociation, Tables
  <2>2. \A x \in AssocRow : new[x].user = x.user /\ new[x].bank = x.bank /\ new[x].def = x.def
    BY DEF AssocRow
  <2> HIDE DEF e, new
  <2>3. SameParents(e, d) /\ SameKeys(e, d) /\ SameDefaults(e, d)
    BY <2>1, <2>2, RowsChanged
  <2>4. Kept(e)
    BY <2>0, <2>3, SameKept
  <2> QED BY <2>4 DEF e
<1>2. ASSUME NEW force PROVE Kept(RemoveAssociation(d, u, b, force))
  <2> DEFINE e == RemoveAssociation(d, u, b, force)
             new == [x \in AssocRow |-> IF x.user = u /\ x.bank = b
                                          THEN [x EXCEPT !.active = FALSE] ELSE x]
  <2>0. e \in Tables
    BY AssociationStatementTypes
  <2>1. e.banks = d.banks /\ e.factors = d.factors
    BY DEF RemoveAssociation, Tables
  <2>2. CASE e.assocs \subseteq d.assocs
    <3>1. SameParents(e, d) /\ SameKeys(e, d) /\ SameDefaults(e, d)
      BY <2>1, <2>2 DEF SameParents, SameKeys, SameDefaults
    <3> QED BY <2>0, <3>1, SameKept
  <2>3. CASE e.assocs = {new[x] : x \in d.assocs}
    <3>1. \A x \in AssocRow : new[x].user = x.user /\ new[x].bank = x.bank /\ new[x].def = x.def
      BY DEF AssocRow
    <3> HIDE DEF new
    <3>2. SameParents(e, d) /\ SameKeys(e, d) /\ SameDefaults(e, d)
      BY <2>1, <2>3, <3>1, RowsChanged
    <3> QED BY <2>0, <3>2, SameKept
  <2>4. e.assocs \subseteq d.assocs \/ e.assocs = {new[x] : x \in d.assocs}
    BY DEF RemoveAssociation, Tables
  <2> QED BY <2>2, <2>3, <2>4
<1>3. ASSUME NEW s \in Shares PROVE Kept(SetShares(d, u, b, s))
  <2> DEFINE e == SetShares(d, u, b, s)
             new == [x \in AssocRow |-> IF Chosen(x, u, b) THEN [x EXCEPT !.shares = s] ELSE x]
  <2>0. e \in Tables
    BY AssociationStatementTypes
  <2>1. /\ e.banks = d.banks /\ e.factors = d.factors
        /\ e.assocs = {new[x] : x \in d.assocs}
    BY DEF SetShares, Tables
  <2>2. \A x \in AssocRow : new[x].user = x.user /\ new[x].bank = x.bank /\ new[x].def = x.def
    BY DEF AssocRow
  <2> HIDE DEF e, new
  <2>3. SameParents(e, d) /\ SameKeys(e, d) /\ SameDefaults(e, d)
    BY <2>1, <2>2, RowsChanged
  <2>4. Kept(e)
    BY <2>0, <2>3, SameKept
  <2> QED BY <2>4 DEF e
<1>4. ASSUME NEW qs \in SUBSET Queues PROVE Kept(SetQueues(d, u, b, qs))
  <2> DEFINE e == SetQueues(d, u, b, qs)
             new == [x \in AssocRow |-> IF Chosen(x, u, b) THEN [x EXCEPT !.queues = qs] ELSE x]
  <2>0. e \in Tables
    BY AssociationStatementTypes
  <2>1. /\ e.banks = d.banks /\ e.factors = d.factors
        /\ e.assocs = {new[x] : x \in d.assocs}
    BY DEF SetQueues, Tables
  <2>2. \A x \in AssocRow : new[x].user = x.user /\ new[x].bank = x.bank /\ new[x].def = x.def
    BY DEF AssocRow
  <2> HIDE DEF e, new
  <2>3. SameParents(e, d) /\ SameKeys(e, d) /\ SameDefaults(e, d)
    BY <2>1, <2>2, RowsChanged
  <2>4. Kept(e)
    BY <2>0, <2>3, SameKept
  <2> QED BY <2>4 DEF e
<1>5. ASSUME NEW ps \in SUBSET Projects PROVE Kept(SetProjects(d, u, b, ps))
  <2> DEFINE e == SetProjects(d, u, b, ps)
             new == [x \in AssocRow |-> IF Chosen(x, u, b) THEN [x EXCEPT !.projects = ps] ELSE x]
  <2>0. e \in Tables
    BY AssociationStatementTypes
  <2>1. /\ e.banks = d.banks /\ e.factors = d.factors
        /\ e.assocs = {new[x] : x \in d.assocs}
    BY DEF SetProjects, Tables
  <2>2. \A x \in AssocRow : new[x].user = x.user /\ new[x].bank = x.bank /\ new[x].def = x.def
    BY DEF AssocRow
  <2> HIDE DEF e, new
  <2>3. SameParents(e, d) /\ SameKeys(e, d) /\ SameDefaults(e, d)
    BY <2>1, <2>2, RowsChanged
  <2>4. Kept(e)
    BY <2>0, <2>3, SameKept
  <2> QED BY <2>4 DEF e
<1>6. ASSUME NEW add \in Queues \cup {Keep}, NEW del \in Queues \cup {Keep}
      PROVE  Kept(ModifyQueues(d, u, b, add, del))
  <2> DEFINE e == ModifyQueues(d, u, b, add, del)
             new == [x \in AssocRow |->
                       IF Chosen(x, u, b)
                         THEN [x EXCEPT !.queues = (@ \cup ({add} \ {Keep})) \ {del}] ELSE x]
  <2>0. e \in Tables
    BY AssociationStatementTypes
  <2>1. /\ e.banks = d.banks /\ e.factors = d.factors
        /\ e.assocs = {new[x] : x \in d.assocs}
    BY DEF ModifyQueues, Tables
  <2>2. \A x \in AssocRow : new[x].user = x.user /\ new[x].bank = x.bank /\ new[x].def = x.def
    BY DEF AssocRow
  <2> HIDE DEF e, new
  <2>3. SameParents(e, d) /\ SameKeys(e, d) /\ SameDefaults(e, d)
    BY <2>1, <2>2, RowsChanged
  <2>4. Kept(e)
    BY <2>0, <2>3, SameKept
  <2> QED BY <2>4 DEF e
<1> QED BY <1>1, <1>2, <1>3, <1>4, <1>5, <1>6

(* The statements on other tables, and those on banks that leave parents   *)
(* alone.                                                                  *)
LEMMA SameAssociationsKeep ==
  ASSUME NEW d \in Tables, Kept(d), NEW e \in Tables,
         e.assocs = d.assocs, e.factors = d.factors, SameParents(e, d)
  PROVE  Kept(e)
<1>1. SameKeys(e, d) /\ SameDefaults(e, d)
  BY DEF SameKeys, SameDefaults
<1> QED BY <1>1, SameKept

LEMMA BankStatementsKeep ==
  ASSUME NEW d \in Tables, Kept(d), NEW b \in Banks
  PROVE  /\ \A p : Kept(ReactivateBank(d, b, p))
         /\ \A force : Kept(RemoveBank(d, b, force))
         /\ \A s \in Shares : Kept(SetBankShares(d, b, s))
<1>a. d.banks \in SUBSET BankRow /\ 0 \in Nat
  BY DEF Tables
<1>1. ASSUME NEW p PROVE Kept(ReactivateBank(d, b, p))
  <2> DEFINE e == ReactivateBank(d, b, p)
  <2>1. e \in Tables
    BY <1>a, BankStatementTypes
  <2>2. /\ e.assocs = d.assocs /\ e.factors = d.factors
        /\ e.banks = {IF x.bank = b /\ x.parent = p THEN [x EXCEPT !.active = TRUE] ELSE x :
                        x \in d.banks}
    BY DEF ReactivateBank, Tables
  <2>3. SameParents(e, d)
    BY <1>a, <2>2 DEF SameParents, BankRow
  <2> QED BY <2>1, <2>2, <2>3, SameAssociationsKeep
<1>2. ASSUME NEW force PROVE Kept(RemoveBank(d, b, force))
  <2> DEFINE e == RemoveBank(d, b, force)
  <2>1. e \in Tables
    BY <1>a, BankStatementTypes
  <2>2. /\ e.assocs = d.assocs /\ e.factors = d.factors
        /\ e.banks = IF force THEN {x \in d.banks : x.bank # b}
                     ELSE {IF x.bank = b THEN [x EXCEPT !.active = FALSE] ELSE x : x \in d.banks}
    BY DEF RemoveBank, Tables
  <2>3. SameParents(e, d)
    BY <1>a, <2>2 DEF SameParents, BankRow
  <2> QED BY <2>1, <2>2, <2>3, SameAssociationsKeep
<1>3. ASSUME NEW s \in Shares PROVE Kept(SetBankShares(d, b, s))
  <2> DEFINE e == SetBankShares(d, b, s)
  <2>1. e \in Tables
    BY <1>a, BankStatementTypes
  <2>2. /\ e.assocs = d.assocs /\ e.factors = d.factors
        /\ e.banks = {IF x.bank = b THEN [x EXCEPT !.shares = s] ELSE x : x \in d.banks}
    BY DEF SetBankShares, Tables
  <2>3. SameParents(e, d)
    BY <1>a, <2>2 DEF SameParents, BankRow
  <2> QED BY <2>1, <2>2, <2>3, SameAssociationsKeep
<1> QED BY <1>1, <1>2, <1>3

(* A new bank below one without associations. *)
LEMMA InsertBankKeeps ==
  ASSUME NEW d \in Tables, Kept(d), NEW i \in Nat, NEW b \in Banks,
         NEW p \in Banks \cup {NoBank}, NEW s \in Shares,
         p # NoBank => MembersOf(d, p) = {}
  PROVE  Kept(InsertBank(d, i, b, p, s))
<1> DEFINE e == InsertBank(d, i, b, p, s)
<1>1. /\ e.assocs = d.assocs /\ e.factors = d.factors
      /\ \A x \in e.banks : x \in d.banks \/ x.parent = p
  BY DEF InsertBank, Tables
<1>2. \A y \in d.assocs : y.bank # p
  BY NamesAssumption DEF MembersOf, Tables, AssocRow
<1> HIDE DEF e
<1>3. Unmixed(d) => Unmixed(e)
  BY <1>1, <1>2 DEF Unmixed
<1>4. Kept(e)
  BY <1>1, <1>3 DEF Kept, Apart, Agreed, Keyed
<1> QED BY <1>4 DEF e

(* A bank that moves below another: one that will have no associations.    *)
LEMMA SetBankParentKeeps ==
  ASSUME NEW d \in Tables, Kept(d), NEW b \in Banks, NEW p \in Banks, p \in NewParents
  PROVE  Kept(SetBankParent(d, b, p))
<1> DEFINE e == SetBankParent(d, b, p)
<1>1. /\ e.assocs = d.assocs /\ e.factors = d.factors
      /\ e.banks = {IF x.bank = b THEN [x EXCEPT !.parent = p] ELSE x : x \in d.banks}
  BY DEF SetBankParent, Tables
<1>2. ASSUME NEW x \in e.banks PROVE x \in d.banks \/ x.parent = p
  BY <1>1 DEF Tables, BankRow
<1> HIDE DEF e
<1>3. Apart(d) => Apart(e)
  BY <1>1, <1>2 DEF Apart, Unmixed
<1>4. Kept(e)
  BY <1>1, <1>3 DEF Kept, Agreed, Keyed
<1> QED BY <1>4 DEF e

(* A new association, checked as add-user checks it. *)
LEMMA InsertAssociationKeeps ==
  ASSUME NEW d \in Tables, Kept(d), NEW row \in AssocRow,
         RowsAt(d, row.user, row.bank) = {}, SubBanks(d, row.bank) = {},
         row.def \in DefaultBanks(d, row.user, row.bank),
         ParentsStayEmpty => row.bank \notin NewParents
  PROVE  Kept(InsertAssociation(d, row))
<1> DEFINE e == InsertAssociation(d, row)
<1>1. /\ e.banks = d.banks /\ e.assocs = d.assocs \cup {row}
      /\ e.factors = d.factors \cup {<<row.user, row.bank>>}
  BY DEF InsertAssociation, Tables
<1> HIDE DEF e
<1>2. ParentsStayEmpty /\ Apart(d) => Apart(e)
  BY <1>1 DEF Apart, Unmixed, SubBanks
<1>3. Agreed(d) => Agreed(e)
  <2>1. \A x \in d.assocs : x.user = row.user /\ Agreed(d) => x.def = row.def
    BY DEF DefaultBanks, RowsOf, Agreed
  <2> QED BY <1>1, <2>1 DEF Agreed
<1>4. Keyed(d) => Keyed(e)
  <2>1. \A x \in d.assocs : ~(x.user = row.user /\ x.bank = row.bank)
    BY DEF RowsAt
  <2> QED BY <1>1, <2>1 DEF Keyed
<1>5. Kept(e)
  BY <1>2, <1>3, <1>4 DEF Kept
<1> QED BY <1>5 DEF e

(* The default bank of all of a user's associations, or of one. *)
LEMMA SetDefaultBankKeeps ==
  ASSUME NEW d \in Tables, Kept(d), NEW u \in Users, NEW b \in Banks \cup {Keep},
         NEW def \in Banks, DefaultsGoTogether => b = Keep
  PROVE  Kept(SetDefaultBank(d, u, b, def))
<1> DEFINE e == SetDefaultBank(d, u, b, def)
           new == [x \in AssocRow |-> IF Chosen(x, u, b) THEN [x EXCEPT !.def = def] ELSE x]
<1>0. e \in Tables
  BY AssociationStatementTypes
<1>1. /\ e.banks = d.banks /\ e.factors = d.factors
      /\ e.assocs = {new[x] : x \in d.assocs}
  BY DEF SetDefaultBank, Tables
<1>2. \A x \in AssocRow : /\ new[x].user = x.user /\ new[x].bank = x.bank
                          /\ new[x].def = IF Chosen(x, u, b) THEN def ELSE x.def
  BY DEF AssocRow
<1> HIDE DEF e, new
<1>3. \A x \in d.assocs : x \in AssocRow
  BY DEF Tables
<1>4. Apart(d) => Apart(e)
  BY <1>1, <1>2, <1>3 DEF Apart, Unmixed
<1>5. DefaultsGoTogether /\ Agreed(d) => Agreed(e)
  BY <1>1, <1>2, <1>3 DEF Agreed, Chosen
<1>6. Keyed(d) => Keyed(e)
  BY <1>1, <1>2, <1>3 DEF Keyed
<1>7. Kept(e)
  BY <1>4, <1>5, <1>6 DEF Kept
<1> QED BY <1>7 DEF e

(* One UPDATE over all the associations. *)
LEMMA SetAllUsersKeeps ==
  ASSUME NEW d \in Tables, Kept(d), NEW b \in Banks \cup {Keep}, NEW def \in Banks \cup {Keep},
         NEW qs \in (SUBSET Queues) \cup {Keep}, AllRowsStay => b = Keep
  PROVE  Kept(SetAllUsers(d, b, def, qs))
<1> DEFINE e == SetAllUsers(d, b, def, qs)
           new == [x \in AssocRow |-> [x EXCEPT !.bank = IF b = Keep THEN @ ELSE b,
                                                !.def = IF def = Keep THEN @ ELSE def,
                                                !.queues = IF qs = Keep THEN @ ELSE qs]]
<1>0. e \in Tables
  BY AllUsersTypes
<1>1. /\ e.banks = d.banks /\ e.factors = d.factors
      /\ e.assocs = {new[x] : x \in d.assocs}
  BY DEF SetAllUsers, Tables
<1>2. \A x \in AssocRow : /\ new[x].user = x.user
                          /\ new[x].bank = IF b = Keep THEN x.bank ELSE b
                          /\ new[x].def = IF def = Keep THEN x.def ELSE def
  BY DEF AssocRow
<1>3. \A x \in d.assocs : x \in AssocRow
  BY DEF Tables
<1> HIDE DEF e, new
<1>4. Agreed(d) => Agreed(e)
  BY <1>1, <1>2, <1>3 DEF Agreed
<1>5. b = Keep => (Apart(d) => Apart(e)) /\ (Keyed(d) => Keyed(e))
  BY <1>1, <1>2, <1>3 DEF Apart, Unmixed, Keyed
<1>6. Kept(e)
  BY <1>4, <1>5 DEF Kept
<1> QED BY <1>6 DEF e

LEMMA OtherStatementsKeep ==
  ASSUME NEW d \in Tables, Kept(d)
  PROVE  /\ \A q \in Queues : Kept(InsertQueue(d, q, Default, Default))
         /\ \A q : Kept(RemoveQueue(d, q))
         /\ \A field : \A q \in Queues, v \in Shares : Kept(SetQueueLimit(d, q, field, v))
         /\ \A p \in Projects : Kept(InsertProject(d, p))
         /\ \A p : Kept(RemoveProject(d, p))
         /\ \A k \in Keys, v \in Shares : Kept(InsertKey(d, k, v)) /\ Kept(SetKey(d, k, v))
         /\ \A k : Kept(RemoveKey(d, k))
         /\ \A f \in Factors, w \in Shares : Kept(SetWeight(d, f, w))
         /\ Kept(ResetWeights(d))
<1>1. ASSUME NEW e, e.banks = d.banks, e.assocs = d.assocs, e.factors = d.factors
      PROVE  Kept(e)
  BY <1>1 DEF Kept, Apart, Unmixed, Agreed, Keyed
<1> USE DEF Tables
<1>2. \A q \in Queues : Kept(InsertQueue(d, q, Default, Default))
  BY <1>1 DEF InsertQueue
<1>3. \A q : Kept(RemoveQueue(d, q))
  BY <1>1 DEF RemoveQueue
<1>4. \A field : \A q \in Queues, v \in Shares : Kept(SetQueueLimit(d, q, field, v))
  BY <1>1 DEF SetQueueLimit
<1>5. \A p : Kept(InsertProject(d, p)) /\ Kept(RemoveProject(d, p))
  BY <1>1 DEF InsertProject, RemoveProject
<1>6. \A k, v : Kept(InsertKey(d, k, v)) /\ Kept(SetKey(d, k, v)) /\ Kept(RemoveKey(d, k))
  BY <1>1 DEF InsertKey, SetKey, RemoveKey
<1>7. \A f, w : Kept(SetWeight(d, f, w))
  BY <1>1 DEF SetWeight
<1>8. Kept(ResetWeights(d))
  BY <1>1 DEF ResetWeights
<1> QED BY <1>2, <1>3, <1>4, <1>5, <1>6, <1>7, <1>8

TwoKept == Kept(disk) /\ Kept(work)

LEMMA StepsWriteKept ==
  ASSUME TwoKept
  PROVE  /\ \A d : Kept(d) /\ (Write(d) \/ Save(d)) => TwoKept'
         /\ Write(work) \/ Save(work) \/ NoWrite \/ Raise => TwoKept'
         /\ \A r, tasks : Begin(r, tasks) => TwoKept'
BY DEF TwoKept, Write, Save, NoWrite, Raise, Begin

LEMMA ReceiveKeepsRows ==
  ASSUME TypeOK, TwoKept, NEW r \in Requests, Receive(r)
  PROVE  TwoKept'
<1> USE StepsWriteKept
<1>a. r \in Edits /\ work \in Tables /\ Kept(work) /\ Default \in Shares /\ now \in Nat
  BY BoundsAssumption, NamesAssumption DEF TypeOK, TwoKept
<1>c. ASSUME NEW name, Short(r, name) PROVE r.op = name
  BY <1>c DEF Short
<1>1. CASE AddBank(r)
  <2>1. r \in AddBankRequests
    BY <1>1, <1>a, <1>c, RequestIs DEF AddBank
  <2>2. r.bank \in Banks /\ r.parent \in Banks \cup {NoBank}
    BY <2>1 DEF AddBankRequests
  <2>3. Kept(ReactivateBank(work, r.bank, r.parent))
    BY <1>a, <2>2, BankStatementsKeep
  <2>4. ASSUME ~BankRefused(work, r), NEW i \in 1..MaxBankRows
        PROVE  Kept(InsertBank(work, i, r.bank, r.parent, Default))
    <3>1. r.parent # NoBank => MembersOf(work, r.parent) = {}
      BY <2>4 DEF BankRefused
    <3>2. i \in Nat
      BY BoundsAssumption
    <3> QED BY <1>a, <2>2, <3>1, <3>2, InsertBankKeeps
  <2> QED BY <1>1, <2>3, <2>4 DEF AddBank
<1>2. CASE DeleteBank(r) \/ EditBank(r) \/ DeleteUser(r) \/ EditQueue(r)
           \/ EditConfig(r) \/ PopulateDb(r)
  BY <1>2 DEF DeleteBank, EditBank, DeleteUser, EditQueue, EditConfig, PopulateDb
<1>3. CASE EditUser(r)
  BY <1>3 DEF EditUser
<1>4. CASE AddUser(r)
  <2>1. r \in AddUserRequests /\ r.op = "add_user"
    BY <1>4, <1>a, <1>c, RequestIs DEF AddUser
  <2>2. /\ r.user \in Users /\ r.bank \in Banks /\ r.queues \in SUBSET Queues
        /\ r.projects \in SUBSET Projects
    BY <2>1 DEF AddUserRequests
  <2>3. Kept(ReactivateAssociation(work, r.user, r.bank))
    BY <1>a, <2>2, AssociationStatementsKeep
  <2>4. ASSUME ~UserRefused(work, r), RowsAt(work, r.user, r.bank) = {},
               NEW def \in DefaultBanks(work, r.user, r.bank)
        PROVE  Kept(InsertAssociation(work, NewRow(r, def)))
    <3>1. def \in Banks
      BY <1>a, <2>2 DEF DefaultBanks, RowsOf, Tables, AssocRow
    <3>2. /\ NewRow(r, def) \in AssocRow /\ NewRow(r, def).user = r.user
          /\ NewRow(r, def).bank = r.bank /\ NewRow(r, def).def = def
      BY <1>a, <2>2, <3>1 DEF NewRow, AssocRow
    <3>3. SubBanks(work, r.bank) = {}
      BY <2>4 DEF UserRefused
    <3>4. ParentsStayEmpty => r.bank \notin NewParents
      BY <2>1 DEF ParentsStayEmpty
    <3> QED BY <1>a, <2>4, <3>2, <3>3, <3>4, InsertAssociationKeeps
  <2> QED BY <1>4, <2>3, <2>4 DEF AddUser
<1>5. CASE EditAllUsers(r)
  <2>1. r \in EditAllUsersRequests /\ r.op = "edit_all_users"
    BY <1>5, <1>a, <1>c, RequestIs DEF EditAllUsers
  <2>2. r.bank \in Banks \cup {Keep} /\ r.def \in Banks \cup {Keep, Reset}
        /\ r.queues \in (SUBSET Queues) \cup {Keep}
    BY <2>1 DEF EditAllUsersRequests, Given
  <2>3. AllRowsStay => r.bank = Keep
    BY <2>1 DEF AllRowsStay
  <2>4. r.def # Reset => Kept(SetAllUsers(work, r.bank, r.def, r.queues))
    BY <1>a, <2>2, <2>3, SetAllUsersKeeps
  <2> QED BY <1>5, <2>4 DEF EditAllUsers
<1>6. CASE AddQueue(r) \/ DeleteQueue(r)
  <2>1. AddQueue(r) => r.queue \in Queues
    BY <1>a, <1>c, RequestIs DEF AddQueue, AddQueueRequests
  <2>2. AddQueue(r) => Kept(InsertQueue(work, r.queue, Default, Default))
    BY <1>a, <2>1, OtherStatementsKeep
  <2>3. Kept(RemoveQueue(work, r.queue))
    BY <1>a, OtherStatementsKeep
  <2> QED BY <1>6, <2>2, <2>3 DEF AddQueue, DeleteQueue
<1>7. CASE AddProject(r) \/ DeleteProject(r)
  <2>1. AddProject(r) => r.project \in Projects
    BY <1>a, <1>c, RequestIs DEF AddProject, AddProjectRequests
  <2>2. AddProject(r) => Kept(InsertProject(work, r.project))
    BY <1>a, <2>1, OtherStatementsKeep
  <2>3. Kept(RemoveProject(work, r.project))
    BY <1>a, OtherStatementsKeep
  <2> QED BY <1>7, <2>2, <2>3 DEF AddProject, DeleteProject
<1>8. CASE EditFactor(r) \/ ResetFactors(r)
  <2>1. EditFactor(r) => r.weight \in Shares
    BY <1>a, <1>c, RequestIs DEF EditFactor, EditFactorRequests
  <2>2. EditFactor(r) /\ r.factor \in Factors => Kept(SetWeight(work, r.factor, r.weight))
    BY <1>a, <2>1, OtherStatementsKeep
  <2>3. Kept(ResetWeights(work))
    BY <1>a, OtherStatementsKeep
  <2> QED BY <1>8, <2>2, <2>3 DEF EditFactor, ResetFactors
<1>9. CASE AddConfig(r) \/ DeleteConfig(r)
  <2>1. AddConfig(r) => r.key \in Keys /\ r.value \in Shares
    BY <1>a, <1>c, RequestIs DEF AddConfig, AddConfigRequests
  <2>2. AddConfig(r) => Kept(InsertKey(work, r.key, r.value))
    BY <1>a, <2>1, OtherStatementsKeep
  <2>3. Kept(RemoveKey(work, r.key))
    BY <1>a, OtherStatementsKeep
  <2> QED BY <1>9, <2>2, <2>3 DEF AddConfig, DeleteConfig
<1>10. CASE SyncUserids(r) \/ ScrubOldJobs(r) \/ ClearUsage(r) \/ TurnedAway(r)
  BY <1>10 DEF SyncUserids, ScrubOldJobs, ClearUsage, TurnedAway
<1> QED
  BY <1>1, <1>2, <1>3, <1>4, <1>5, <1>6, <1>7, <1>8, <1>9, <1>10 DEF Receive

LEMMA ContinueKeepsRows ==
  ASSUME TypeOK, AllAsked, TwoKept, Continue \/ LockedOut
  PROVE  TwoKept'
<1> USE StepsWriteKept
<1> DEFINE t == Head(todo)
<1>a. work \in Tables /\ Kept(work)
  BY DEF TypeOK, TwoKept
<1>c. ASSUME NEW name, Doing(name) PROVE t \in Task /\ t \in AskedTask /\ t.do = name
  <2>1. todo \in Seq(AskedTask) /\ todo # <<>>
    BY <1>c DEF Doing, Idle, AllAsked
  <2>2. Head(todo) \in AskedTask
    BY <2>1
  <2> QED BY <1>c, <2>2, HeadIsTask DEF Doing
<1>1. CASE VisitBank
  <2>1. t \in [do: {"banks"}, names: SUBSET Banks, depth: Nat, force: BOOLEAN]
    BY <1>1, <1>c, TaskIs DEF VisitBank
  <2>2. PICK b \in t.names : Write(RemoveBank(work, b, t.force))
    BY <1>1 DEF VisitBank
  <2>3. Kept(RemoveBank(work, b, t.force))
    BY <1>a, <2>1, BankStatementsKeep
  <2> QED BY <2>2, <2>3
<1>2. CASE RecalculateUsage \/ SaveAll \/ ReconfigureBins \/ LockedOut
  BY <1>2 DEF RecalculateUsage, SaveAll, ReconfigureBins, LockedOut
<1>3. CASE EditBankShares
  <2>1. t \in [do: {"bank_shares"}, bank: Banks, value: Shares \cup {Bad}]
    BY <1>3, <1>c, TaskIs DEF EditBankShares
  <2>2. t.value # Bad => Kept(SetBankShares(work, t.bank, t.value))
    BY <1>a, <2>1, BankStatementsKeep
  <2> QED BY <1>3, <2>2 DEF EditBankShares
<1>4. CASE EditBankParent
  <2>1. t \in [do: {"bank_parent"}, bank: Banks, value: Banks]
    BY <1>4, <1>c, TaskIs DEF EditBankParent
  <2>2. t.value \in NewParents
    BY <1>4, <1>c DEF EditBankParent, AskedTask
  <2>3. Kept(SetBankParent(work, t.bank, t.value))
    BY <1>a, <2>1, <2>2, SetBankParentKeeps
  <2> QED BY <1>4, <2>3 DEF EditBankParent
<1>5. CASE DisableUser
  <2>1. t \in [do: {"users"}, names: SUBSET Users, bank: Banks, force: BOOLEAN]
    BY <1>5, <1>c, TaskIs DEF DisableUser
  <2>2. PICK u \in t.names : Save(RemoveAssociation(work, u, t.bank, t.force))
    BY <1>5 DEF DisableUser
  <2>3. Kept(RemoveAssociation(work, u, t.bank, t.force))
    BY <1>a, <2>1, AssociationStatementsKeep
  <2> QED BY <2>2, <2>3
<1>6. CASE UpdateDefaultBank
  <2>1. t \in [do: {"default"}, user: Users, bank: Banks]
    BY <1>6, <1>c, TaskIs DEF UpdateDefaultBank
  <2>2. ASSUME NEW new \in NextDefaults(work, t.user)
        PROVE  Kept(SetDefaultBank(work, t.user, Keep, new))
    <3>1. new \in Banks
      BY <1>a DEF NextDefaults, RowsOf, Tables, AssocRow
    <3> QED BY <1>a, <2>1, <3>1, SetDefaultBankKeeps
  <2> QED BY <1>6, <2>2 DEF UpdateDefaultBank
<1>7. CASE EditDefaultBank
  <2>1. t \in [do: {"user_def"}, user: Users, bank: Banks \cup {Keep}, value: Banks \cup {Reset}]
    BY <1>7, <1>c, TaskIs DEF EditDefaultBank
  <2>2. DefaultsGoTogether => t.bank = Keep
    BY <1>7, <1>c DEF EditDefaultBank, AskedTask, DefaultsGoTogether
  <2>3. t.value # Reset => Kept(SetDefaultBank(work, t.user, t.bank, t.value))
    BY <1>a, <2>1, <2>2, SetDefaultBankKeeps
  <2> QED BY <1>7, <2>3 DEF EditDefaultBank
<1>8. CASE EditModifyQueues
  <2>1. t \in [do: {"modify_queues"}, user: Users, bank: Banks \cup {Keep},
               add: Queues \cup {Keep}, del: Queues \cup {Keep}]
    BY <1>8, <1>c, TaskIs DEF EditModifyQueues
  <2>2. Kept(ModifyQueues(work, t.user, t.bank, t.add, t.del))
    BY <1>a, <2>1, AssociationStatementsKeep
  <2> QED BY <1>8, <2>2 DEF EditModifyQueues
<1>9. CASE EditShares
  <2>1. t \in [do: {"user_shares"}, user: Users, bank: Banks \cup {Keep}, value: Shares]
    BY <1>9, <1>c, TaskIs DEF EditShares
  <2>2. Kept(SetShares(work, t.user, t.bank, t.value))
    BY <1>a, <2>1, AssociationStatementsKeep
  <2> QED BY <1>9, <2>2 DEF EditShares
<1>10. CASE EditQueues
  <2>1. t \in [do: {"user_queues"}, user: Users, bank: Banks \cup {Keep},
               value: (SUBSET Queues) \cup {Reset}]
    BY <1>10, <1>c, TaskIs DEF EditQueues
  <2>2. \A qs \in SUBSET Queues : Kept(SetQueues(work, t.user, t.bank, qs))
    BY <1>a, <2>1, AssociationStatementsKeep
  <2>3. Kept(SetQueues(work, t.user, t.bank, {}))
        /\ (t.value # Reset => Kept(SetQueues(work, t.user, t.bank, t.value)))
    BY <2>1, <2>2
  <2> QED BY <1>10, <2>3 DEF EditQueues
<1>11. CASE EditProjects
  <2>1. t \in [do: {"user_projects"}, user: Users, bank: Banks \cup {Keep},
               value: (SUBSET Projects) \cup {Reset}]
    BY <1>11, <1>c, TaskIs DEF EditProjects
  <2>2. \A ps \in SUBSET Projects : Kept(SetProjects(work, t.user, t.bank, ps))
    BY <1>a, <2>1, AssociationStatementsKeep
  <2>3. Kept(SetProjects(work, t.user, t.bank, {}))
        /\ (t.value # Reset => Kept(SetProjects(work, t.user, t.bank, t.value)))
    BY <2>1, <2>2
  <2> QED BY <1>11, <2>3 DEF EditProjects
<1>12. CASE EditQueueLimit
  <2>1. t \in [do: {"queue_limit"}, queue: Queues, field: {"running", "nodes"},
               value: Shares \cup {Bad}]
    BY <1>12, <1>c, TaskIs DEF EditQueueLimit
  <2>2. ASSUME t.value # Bad PROVE Kept(SetQueueLimit(work, t.queue, t.field, t.value))
    <3>1. t.queue \in Queues /\ t.value \in Shares
      BY <2>1, <2>2
    <3> QED BY <1>a, <3>1, OtherStatementsKeep
  <2> QED BY <1>12, <2>2 DEF EditQueueLimit
<1>13. CASE EditConfigKey
  <2>1. t \in [do: {"config"}, key: Keys, value: Shares \cup {Bad}]
    BY <1>13, <1>c, TaskIs DEF EditConfigKey
  <2>2. ASSUME t.value # Bad PROVE Kept(SetKey(work, t.key, t.value))
    <3>1. t.key \in Keys /\ t.value \in Shares
      BY <2>1, <2>2
    <3> QED BY <1>a, <3>1, OtherStatementsKeep
  <2> QED BY <1>13, <2>2 DEF EditConfigKey
<1>14. CASE PopulateRow
  <2>1. PICK r \in Requests : r.op = "pop_db"
    BY <1>14, <1>c DEF PopulateRow, AskedTask
  <2>2. ~AllRowsStay /\ ~DefaultsGoTogether
    BY <2>1 DEF AllRowsStay, DefaultsGoTogether
  <2>3. TwoKept'
    BY <2>2 DEF TwoKept, Kept
  <2> QED BY <2>3
<1> QED
  BY <1>1, <1>2, <1>3, <1>4, <1>5, <1>6, <1>7, <1>8, <1>9, <1>10, <1>11, <1>12,
     <1>13, <1>14 DEF Continue

LEMMA NewTablesKept == Kept(NewTables)
BY DEF NewTables, Kept, Apart, Unmixed, Agreed, Keyed

LEMMA RowsAreKept == Spec => [](TwoKept /\ AllAsked)
<1>1. Init => TwoKept /\ AllAsked
  <2> SUFFICES ASSUME Init PROVE TwoKept /\ AllAsked
    OBVIOUS
  <2>1. todo = <<>> /\ disk = NewTables /\ work = NewTables
    BY DEF Init, InitWith
  <2>2. todo \in Seq(AskedTask)
    BY <2>1
  <2> QED BY <2>1, <2>2, NewTablesKept DEF TwoKept, AllAsked
<1>2. TypeOK /\ TwoKept /\ AllAsked /\ [Next]_vars => TwoKept' /\ AllAsked'
  <2> SUFFICES ASSUME TypeOK, TwoKept, AllAsked, [Next]_vars PROVE TwoKept' /\ AllAsked'
    OBVIOUS
  <2>1. ASSUME NEW r \in Requests, Receive(r) PROVE TwoKept' /\ AllAsked'
    BY <2>1, ReceiveKeepsRows, ReceiveAsks
  <2>2. CASE Continue \/ LockedOut
    BY <2>2, ContinueKeepsRows, ContinueAsks
  <2>3. CASE OtherLocks \/ OtherUnlocks \/ Tick
    BY <2>3 DEF OtherLocks, OtherUnlocks, Tick, TwoKept, AllAsked
  <2>4. CASE Restart
    <3>1. todo' = <<>> /\ disk' = disk /\ work' = disk
      BY <2>4 DEF Restart
    <3>2. todo' \in Seq(AskedTask)
      BY <3>1
    <3> QED BY <3>1, <3>2 DEF TwoKept, AllAsked
  <2>5. CASE UNCHANGED vars
    BY <2>5 DEF vars, TwoKept, AllAsked
  <2> QED BY <2>1, <2>2, <2>3, <2>4, <2>5 DEF Next
<1> QED BY <1>1, <1>2, TablesTypesOK, PTL DEF Spec

(***************************************************************************)
(* Unless pop-db or edit-all-users with a bank is used: each association   *)
(* has one row and its rows of the usage tables, however adds, removals    *)
(* and returns of users and banks mix with kills and failures.             *)
(***************************************************************************)
THEOREM UsageRowsStay == AllRowsStay /\ Spec => []UsageRows
<1> SUFFICES ASSUME AllRowsStay PROVE Spec => []UsageRows
  OBVIOUS
<1>1. TwoKept => UsageRows
  BY DEF TwoKept, Kept, UsageRows
<1> QED BY <1>1, RowsAreKept, PTL

(***************************************************************************)
(* Unless pop-db or edit-user with a default bank for one association is   *)
(* used: a user's rows agree on the default bank, although each stores it, *)
(* also when a default bank is removed between the two commits.            *)
(***************************************************************************)
THEOREM DefaultBanksAgree == DefaultsGoTogether /\ Spec => []OneDefaultBank
<1> SUFFICES ASSUME DefaultsGoTogether PROVE Spec => []OneDefaultBank
  OBVIOUS
<1>1. TwoKept => OneDefaultBank
  BY DEF TwoKept, Kept, OneDefaultBank
<1> QED BY <1>1, RowsAreKept, PTL

(***************************************************************************)
(* Unless pop-db, edit-all-users with a bank, or edit-bank with a parent   *)
(* to which users are added is used: the checks of add-bank and add-user   *)
(* keep associations and sub-banks apart.                                  *)
(***************************************************************************)
THEOREM BanksStayUnmixed == AllRowsStay /\ ParentsStayEmpty /\ Spec => []NoMixedBank
<1> SUFFICES ASSUME AllRowsStay, ParentsStayEmpty PROVE Spec => []NoMixedBank
  OBVIOUS
<1>1. TwoKept => NoMixedBank
  BY DEF TwoKept, Kept, Apart, NoMixedBank
<1> QED BY <1>1, RowsAreKept, PTL


---------------------------------------------------------------------------
(* Going down the tree of banks.                                           *)

(* What Below says, with its function by name.                             *)
Depth == Cardinality(Banks)
Downwards(d, S) == S \cup UNION {SubBanks(d, b) : b \in S}
IsReach(d, S, n, reach) ==
  reach = [i \in 0..n |-> IF i = 0 THEN S ELSE Downwards(d, reach[i - 1])]
Closed(d, S) == \A b \in S : SubBanks(d, b) \subseteq S

LEMMA SubBanksAreBanks ==
  ASSUME NEW d \in Tables, NEW b
  PROVE  SubBanks(d, b) \subseteq Banks
BY DEF Tables, BankRow, SubBanks

LEMMA ReachExists ==
  ASSUME NEW d, NEW S
  PROVE  \A n \in Nat : \E reach : IsReach(d, S, n, reach)
<1> DEFINE G == {n \in Nat : \E reach : IsReach(d, S, n, reach)}
<1>1. 0 \in G
  <2> DEFINE f == [i \in 0..0 |-> S]
  <2>1. f = [i \in 0..0 |-> IF i = 0 THEN S ELSE Downwards(d, f[i - 1])]
    OBVIOUS
  <2> HIDE DEF f
  <2> QED BY <2>1 DEF IsReach
<1>2. ASSUME NEW n \in Nat, n \in G PROVE n + 1 \in G
  <2>1. PICK f : IsReach(d, S, n, f)
    BY <1>2
  <2> DEFINE g == [i \in 0..(n + 1) |-> IF i = 0 THEN S ELSE Downwards(d, f[i - 1])]
  <2>2. \A i \in 0..n : f[i] = IF i = 0 THEN S ELSE Downwards(d, f[i - 1])
    BY <2>1 DEF IsReach
  <2>3. \A i \in 0..n : g[i] = f[i]
    BY <2>2
  <2>4. \A i \in 0..(n + 1) : g[i] = IF i = 0 THEN S ELSE Downwards(d, f[i - 1])
    OBVIOUS
  <2>5. \A i \in 0..(n + 1) : i # 0 => i - 1 \in 0..n
    OBVIOUS
  <2>6. g = [i \in 0..(n + 1) |-> g[i]]
    OBVIOUS
  <2> HIDE DEF g
  <2>7. \A i \in 0..(n + 1) : g[i] = IF i = 0 THEN S ELSE Downwards(d, g[i - 1])
    BY <2>3, <2>4, <2>5
  <2>8. g = [i \in 0..(n + 1) |-> IF i = 0 THEN S ELSE Downwards(d, g[i - 1])]
    BY <2>6, <2>7
  <2> QED BY <2>8 DEF IsReach
<1>3. Nat \subseteq G
  <2> HIDE DEF G
  <2> QED BY <1>1, <1>2, NatSetInduction
<1> QED BY <1>3

LEMMA BelowIsReach ==
  ASSUME NEW d, NEW S
  PROVE  \E reach : /\ Below(d, S) = reach[Depth] /\ reach[0] = S
                    /\ \A n \in Nat : n < Depth => reach[n + 1] = Downwards(d, reach[n])
<1>1. Depth \in Nat
  BY NamesAssumption, FS_CardinalityType DEF Depth
<1> DEFINE reach == CHOOSE reach : IsReach(d, S, Depth, reach)
<1>2. IsReach(d, S, Depth, reach)
  BY <1>1, ReachExists
<1>3. Below(d, S) = reach[Depth]
  BY DEF Below, Depth, IsReach, Downwards
<1> HIDE DEF reach
<1>4. \A i \in 0..Depth : reach[i] = IF i = 0 THEN S ELSE Downwards(d, reach[i - 1])
  BY <1>2 DEF IsReach
<1>5. reach[0] = S
  BY <1>1, <1>4
<1>6. ASSUME NEW n \in Nat, n < Depth PROVE reach[n + 1] = Downwards(d, reach[n])
  <2>1. n + 1 \in 0..Depth /\ n + 1 # 0 /\ (n + 1) - 1 = n
    BY <1>1, <1>6
  <2> QED BY <1>4, <2>1
<1> QED BY <1>3, <1>5, <1>6

LEMMA BelowLeast ==
  ASSUME NEW d, NEW S, NEW T, S \subseteq T, Closed(d, T)
  PROVE  Below(d, S) \subseteq T
<1>1. Depth \in Nat
  BY NamesAssumption, FS_CardinalityType DEF Depth
<1>2. PICK reach : /\ Below(d, S) = reach[Depth] /\ reach[0] = S
                   /\ \A n \in Nat : n < Depth => reach[n + 1] = Downwards(d, reach[n])
  BY BelowIsReach
<1> DEFINE G == {n \in Nat : n <= Depth => reach[n] \subseteq T}
<1>3. 0 \in G
  BY <1>2
<1>4. ASSUME NEW n \in Nat, n \in G PROVE n + 1 \in G
  <2> SUFFICES ASSUME n + 1 <= Depth PROVE reach[n + 1] \subseteq T
    OBVIOUS
  <2>1. n < Depth /\ n <= Depth
    BY <1>1
  <2>2. reach[n] \subseteq T /\ reach[n + 1] = Downwards(d, reach[n])
    BY <1>2, <1>4, <2>1
  <2> QED BY <2>2 DEF Downwards, Closed
<1>5. Nat \subseteq G
  <2> HIDE DEF G
  <2> QED BY <1>3, <1>4, NatSetInduction
<1> QED BY <1>1, <1>2, <1>5

(* There are no more steps down than banks: a step that meets no new bank  *)
(* is the last.                                                            *)
LEMMA BelowCloses ==
  ASSUME NEW d \in Tables, NEW S \in SUBSET Banks
  PROVE  S \subseteq Below(d, S) /\ Below(d, S) \subseteq Banks /\ Closed(d, Below(d, S))
<1>1. Depth \in Nat /\ IsFiniteSet(Banks)
  BY NamesAssumption, FS_CardinalityType DEF Depth
<1>2. PICK reach : /\ Below(d, S) = reach[Depth] /\ reach[0] = S
                   /\ \A n \in Nat : n < Depth => reach[n + 1] = Downwards(d, reach[n])
  BY BelowIsReach
<1> DEFINE Good(n) == /\ S \subseteq reach[n] /\ reach[n] \subseteq Banks
                      /\ Closed(d, reach[n]) \/ Cardinality(reach[n]) >= n
           G == {n \in Nat : n <= Depth => Good(n)}
<1>a. ASSUME NEW T \in SUBSET Banks
      PROVE  IsFiniteSet(T) /\ Cardinality(T) \in Nat
  BY <1>1, FS_Subset, FS_CardinalityType
<1>3. 0 \in G
  BY <1>2, <1>a
<1>4. ASSUME NEW n \in Nat, n \in G PROVE n + 1 \in G
  <2> SUFFICES ASSUME n + 1 <= Depth PROVE Good(n + 1)
    OBVIOUS
  <2>1. n < Depth /\ n <= Depth
    BY <1>1
  <2>2. Good(n) /\ reach[n + 1] = Downwards(d, reach[n])
    BY <1>2, <1>4, <2>1
  <2>3. S \subseteq reach[n + 1] /\ reach[n] \subseteq reach[n + 1] /\ reach[n + 1] \subseteq Banks
    BY <2>2, SubBanksAreBanks DEF Downwards
  <2>4. CASE Closed(d, reach[n])
    <3>1. reach[n + 1] = reach[n]
      BY <2>2, <2>4 DEF Downwards, Closed
    <3> QED BY <2>3, <2>4, <3>1
  <2>5. CASE ~Closed(d, reach[n])
    <3>1. reach[n + 1] # reach[n]
      BY <2>2, <2>5 DEF Downwards, Closed
    <3>2. Cardinality(reach[n]) < Cardinality(reach[n + 1])
      BY <2>3, <3>1, <1>a, FS_Subset
    <3>3. /\ Cardinality(reach[n]) >= n /\ Cardinality(reach[n]) \in Nat
          /\ Cardinality(reach[n + 1]) \in Nat
      BY <2>2, <2>3, <2>5, <1>a
    <3>4. Cardinality(reach[n + 1]) >= n + 1
      BY <3>2, <3>3
    <3> QED BY <2>3, <3>4
  <2> QED BY <2>4, <2>5
<1>5. Nat \subseteq G
  <2> HIDE DEF G
  <2> QED BY <1>3, <1>4, NatSetInduction
<1>6. Good(Depth)
  BY <1>1, <1>5
<1>7. ASSUME Cardinality(reach[Depth]) >= Depth PROVE Closed(d, reach[Depth])
  <2>1. reach[Depth] = Banks
    <3>1. reach[Depth] \subseteq Banks
      BY <1>6
    <3> QED BY <1>1, <1>7, <1>a, <3>1, FS_Subset DEF Depth
  <2> QED BY <2>1, SubBanksAreBanks DEF Closed
<1> QED BY <1>2, <1>6, <1>7
---------------------------------------------------------------------------
(* The operators on tables are the same in AtomicAccounting.               *)

LEMMA SameCardinality == ASSUME NEW s PROVE Atomic!Cardinality(s) = Cardinality(s)
BY DEF Atomic!Cardinality, Cardinality, Atomic!IsFiniteSet, IsFiniteSet

IsAtomicReach(d, S, reach) ==
  reach = [i \in 0..Atomic!Cardinality(Banks) |->
             IF i = 0 THEN S
             ELSE reach[i - 1] \cup UNION {Atomic!SubBanks(d, b) : b \in reach[i - 1]}]

LEMMA SameBelow == ASSUME NEW d, NEW S PROVE Atomic!Below(d, S) = Below(d, S)
<1>1. \A b : Atomic!SubBanks(d, b) = SubBanks(d, b)
  BY DEF Atomic!SubBanks, SubBanks
<1>2. Atomic!Cardinality(Banks) = Depth /\ Depth \in Nat
  BY SameCardinality, NamesAssumption, FS_CardinalityType DEF Depth
<1>3. ASSUME NEW T PROVE T \cup UNION {Atomic!SubBanks(d, b) : b \in T} = Downwards(d, T)
  BY <1>1 DEF Downwards
<1>4. \A reach : IsAtomicReach(d, S, reach) <=> IsReach(d, S, Depth, reach)
  BY <1>2, <1>3 DEF IsAtomicReach, IsReach
<1> DEFINE mine == CHOOSE reach : IsAtomicReach(d, S, reach)
<1>5. IsReach(d, S, Depth, mine)
  BY <1>2, <1>4, ReachExists
<1>6. Atomic!Below(d, S) = mine[Depth]
  BY <1>2 DEF Atomic!Below, IsAtomicReach
<1> HIDE DEF mine
<1>7. PICK reach : /\ Below(d, S) = reach[Depth] /\ reach[0] = S
                   /\ \A n \in Nat : n < Depth => reach[n + 1] = Downwards(d, reach[n])
  BY BelowIsReach
<1>8. \A i \in 0..Depth : mine[i] = IF i = 0 THEN S ELSE Downwards(d, mine[i - 1])
  BY <1>5 DEF IsReach
<1> DEFINE G == {n \in Nat : n <= Depth => mine[n] = reach[n]}
<1>9. 0 \in G
  BY <1>2, <1>7, <1>8
<1>10. ASSUME NEW n \in Nat, n \in G PROVE n + 1 \in G
  <2> SUFFICES ASSUME n + 1 <= Depth PROVE mine[n + 1] = reach[n + 1]
    OBVIOUS
  <2>1. n < Depth /\ n <= Depth /\ n + 1 \in 0..Depth /\ n + 1 # 0 /\ (n + 1) - 1 = n
    BY <1>2
  <2> QED BY <1>7, <1>8, <1>10, <2>1
<1>11. Nat \subseteq G
  <2> HIDE DEF G
  <2> QED BY <1>9, <1>10, NatSetInduction
<1> QED BY <1>2, <1>6, <1>7, <1>11

LEMMA SameAssociationStatements ==
  ASSUME NEW d, NEW u, NEW b, NEW x, NEW y
  PROVE  /\ Atomic!ReactivateAssociation(d, u, b) = ReactivateAssociation(d, u, b)
         /\ Atomic!InsertAssociation(d, x) = InsertAssociation(d, x)
         /\ Atomic!RemoveAssociation(d, u, b, x) = RemoveAssociation(d, u, b, x)
         /\ Atomic!SetDefaultBank(d, u, b, x) = SetDefaultBank(d, u, b, x)
         /\ Atomic!SetShares(d, u, b, x) = SetShares(d, u, b, x)
         /\ Atomic!SetQueues(d, u, b, x) = SetQueues(d, u, b, x)
         /\ Atomic!SetProjects(d, u, b, x) = SetProjects(d, u, b, x)
         /\ Atomic!ModifyQueues(d, u, b, x, y) = ModifyQueues(d, u, b, x, y)
         /\ Atomic!SetAllUsers(d, b, x, y) = SetAllUsers(d, b, x, y)
BY DEF Atomic!ReactivateAssociation, ReactivateAssociation, Atomic!InsertAssociation,
       InsertAssociation, Atomic!RemoveAssociation, RemoveAssociation, Atomic!SetDefaultBank,
       SetDefaultBank, Atomic!SetShares, SetShares, Atomic!SetQueues, SetQueues,
       Atomic!SetProjects, SetProjects, Atomic!ModifyQueues, ModifyQueues, Atomic!SetAllUsers,
       SetAllUsers, Atomic!Chosen, Chosen

---------------------------------------------------------------------------
(* What a delete_bank has to do with.                                      *)

Strays(d) == {x.bank : x \in {y \in d.banks : y.parent # NoBank /\ ~KnownBank(d, y.parent)}}
Unknown(d) == {b \in Banks : ~KnownBank(d, b)}
Doomed(d, b, force) ==
  Below(d, {b} \cup (IF force THEN Strays(d) ELSE {})) \cup (IF force THEN Unknown(d) ELSE {})

LEMMA SameDoomed == ASSUME NEW d, NEW r PROVE Atomic!Doomed(d, r) = Doomed(d, r.bank, r.force)
<1>1. \A b : Atomic!KnownBank(d, b) <=> KnownBank(d, b)
  BY DEF Atomic!KnownBank, KnownBank
<1>2. Atomic!Orphans(d) = Strays(d)
  BY <1>1 DEF Atomic!Orphans, Strays
<1>3. {b \in Banks : ~Atomic!KnownBank(d, b)} = Unknown(d)
  BY <1>1 DEF Unknown
<1> QED BY <1>2, <1>3, SameBelow DEF Atomic!Doomed, Doomed

(* The bank table after some banks have been visited.                      *)
Fewer(banks, gone, force) ==
  IF force THEN {x \in banks : x.bank \notin gone}
  ELSE {IF x.bank \in gone THEN [x EXCEPT !.active = FALSE] ELSE x : x \in banks}

LEMMA DisabledRow ==
  ASSUME NEW x \in BankRow
  PROVE  LET y == [x EXCEPT !.active = FALSE]
         IN y \in BankRow /\ y.bank = x.bank /\ y.parent = x.parent /\ ~y.active
BY DEF BankRow

LEMMA FewerRows ==
  ASSUME NEW banks \in SUBSET BankRow, NEW gone, NEW force \in BOOLEAN
  PROVE  /\ Fewer(banks, gone, force) \in SUBSET BankRow
         /\ force => Fewer(banks, gone, force) \subseteq banks
         /\ \A x \in Fewer(banks, gone, force) :
              \E y \in banks : y.bank = x.bank /\ y.parent = x.parent
         /\ \A y \in banks :
              \/ force /\ y.bank \in gone
              \/ \E x \in Fewer(banks, gone, force) : y.bank = x.bank /\ y.parent = x.parent
         /\ \A x \in Fewer(banks, gone, force) : x.bank \in gone => ~force /\ ~x.active
         /\ Fewer(banks, {}, force) = banks
<1> USE DisabledRow DEF Fewer
<1>1. Fewer(banks, gone, force) \in SUBSET BankRow
  OBVIOUS
<1>2. force => Fewer(banks, gone, force) \subseteq banks
  OBVIOUS
<1>3. ASSUME NEW x \in Fewer(banks, gone, force)
      PROVE  \E y \in banks : y.bank = x.bank /\ y.parent = x.parent
  OBVIOUS
<1>4. ASSUME NEW y \in banks
      PROVE  \/ force /\ y.bank \in gone
             \/ \E x \in Fewer(banks, gone, force) : y.bank = x.bank /\ y.parent = x.parent
  <2>1. y \in BankRow
    OBVIOUS
  <2>2. CASE force
    BY <2>2
  <2>3. CASE ~force
    <3> DEFINE x == IF y.bank \in gone THEN [y EXCEPT !.active = FALSE] ELSE y
    <3>1. x \in Fewer(banks, gone, force)
      BY <2>3
    <3>2. y.bank = x.bank /\ y.parent = x.parent
      BY <2>1
    <3> QED BY <3>1, <3>2
  <2> QED BY <2>2, <2>3
<1>5. ASSUME NEW x \in Fewer(banks, gone, force), x.bank \in gone
      PROVE  ~force /\ ~x.active
  BY <1>5
<1>6. Fewer(banks, {}, force) = banks
  OBVIOUS
<1> QED BY <1>1, <1>2, <1>3, <1>4, <1>5, <1>6

(* One bank more than those that are gone.                                 *)
OneMore(gone, b, one, more) == one = {b} /\ more = gone \cup {b}

LEMMA FewerAgain ==
  ASSUME NEW banks \in SUBSET BankRow, NEW gone, NEW force \in BOOLEAN, NEW b, NEW one,
         NEW more, OneMore(gone, b, one, more)
  PROVE  Fewer(Fewer(banks, gone, force), one, force) = Fewer(banks, more, force)
<1> USE DEF OneMore
<1>1. CASE force
  BY <1>1 DEF Fewer
<1>2. CASE ~force
  <2> DEFINE off(x) == [x EXCEPT !.active = FALSE]
             once(x) == IF x.bank \in gone THEN off(x) ELSE x
             twice(x) == IF x.bank = b THEN off(x) ELSE x
             both(x) == IF x.bank \in gone \cup {b} THEN off(x) ELSE x
  <2>1. ASSUME NEW x \in BankRow PROVE twice(once(x)) = both(x)
    <3>1. off(x).bank = x.bank /\ off(off(x)) = off(x)
      BY DEF BankRow
    <3> HIDE DEF off
    <3> QED BY <3>1
  <2>2. {twice(y) : y \in {once(x) : x \in banks}} = {both(x) : x \in banks}
    <3> HIDE DEF once, twice, both
    <3> QED BY <2>1
  <2> QED BY <1>2, <2>2 DEF Fewer
<1> QED BY <1>1, <1>2

LEMMA DoomedFacts ==
  ASSUME NEW d \in Tables, NEW b \in Banks, NEW force \in BOOLEAN
  PROVE  /\ b \in Doomed(d, b, force) /\ Doomed(d, b, force) \subseteq Banks
         /\ Closed(d, Doomed(d, b, force))
<1> DEFINE S == {b} \cup (IF force THEN Strays(d) ELSE {})
<1>1. Strays(d) \subseteq Banks
  BY DEF Strays, Tables, BankRow
<1>2. S \in SUBSET Banks
  BY <1>1
<1>3. S \subseteq Below(d, S) /\ Below(d, S) \subseteq Banks /\ Closed(d, Below(d, S))
  BY <1>2, BelowCloses
<1>4. Doomed(d, b, force) = Below(d, S) \cup (IF force THEN Unknown(d) ELSE {})
  BY DEF Doomed
<1>5. ASSUME force, NEW c \in Unknown(d) PROVE SubBanks(d, c) \subseteq Strays(d)
  <2>1. c # NoBank /\ ~KnownBank(d, c)
    BY NamesAssumption DEF Unknown
  <2> QED BY <2>1 DEF SubBanks, Strays
<1>6. Closed(d, Doomed(d, b, force))
  BY <1>3, <1>4, <1>5 DEF Closed
<1> QED BY <1>3, <1>4, <1>6 DEF Unknown

LEMMA DoomedGrows ==
  ASSUME NEW d \in Tables, NEW e \in Tables, NEW b \in Banks, NEW force \in BOOLEAN, NEW gone,
         e.banks = Fewer(d.banks, gone, force)
  PROVE  Doomed(d, b, force) \subseteq Doomed(e, b, force)
<1> DEFINE T == Doomed(e, b, force)
<1>1. d.banks \in SUBSET BankRow
  BY DEF Tables
<1>b. /\ \A x \in e.banks : \E y \in d.banks : y.bank = x.bank /\ y.parent = x.parent
      /\ \A y \in d.banks :
           \/ force /\ y.bank \in gone
           \/ \E x \in e.banks : y.bank = x.bank /\ y.parent = x.parent
      /\ \A x \in e.banks : x.bank \in gone => ~force
  BY <1>1, FewerRows
<1>2. b \in T /\ Closed(e, T)
  BY DoomedFacts
<1>3. force => Unknown(e) \subseteq T
  BY DEF Doomed
<1>3a. force => Strays(e) \subseteq T
  <2>1. {b} \cup Strays(e) \in SUBSET Banks
    BY DEF Strays, Tables, BankRow
  <2> QED BY <2>1, BelowCloses DEF Doomed
<1> HIDE DEF T
<1>4. ASSUME NEW y \in d.banks, force PROVE y.bank \in T \/ y \in e.banks
  <2>1. y.bank \in gone => ~KnownBank(e, y.bank)
    BY <1>b, <1>4 DEF KnownBank
  <2>2. y.bank \in Banks
    BY <1>1 DEF BankRow
  <2> QED BY <1>3, <1>4, <2>1, <2>2 DEF Unknown, Fewer
<1>5. \A c : KnownBank(e, c) => KnownBank(d, c)
  BY <1>b DEF KnownBank
<1>6. Closed(d, T)
  <2> SUFFICES ASSUME NEW c \in T, NEW y \in d.banks, y.parent = c PROVE y.bank \in T
    BY DEF Closed, SubBanks
  <2>0. force /\ y.bank \in gone => y.bank \in T
    BY <1>b, <1>4
  <2>1. (\E x \in e.banks : y.bank = x.bank /\ y.parent = x.parent) \/ y.bank \in T
    BY <1>b, <2>0
  <2>2. ASSUME NEW x \in e.banks, y.bank = x.bank, y.parent = x.parent PROVE y.bank \in T
    BY <1>2, <2>2 DEF Closed, SubBanks
  <2> QED BY <2>1, <2>2
<1>7. CASE force
  <2>1. Strays(d) \subseteq T
    BY <1>3a, <1>4, <1>5, <1>7 DEF Strays
  <2>2. Below(d, {b} \cup Strays(d)) \subseteq T
    BY <1>2, <1>6, <2>1, BelowLeast
  <2>3. Unknown(d) \subseteq T
    BY <1>3, <1>5, <1>7 DEF Unknown
  <2> QED BY <1>7, <2>2, <2>3 DEF Doomed, T
<1>8. CASE ~force
  <2>1. Below(d, {b}) \subseteq T
    BY <1>2, <1>6, BelowLeast
  <2>2. {b} \cup {} = {b}
    OBVIOUS
  <2> QED BY <1>8, <2>1, <2>2 DEF Doomed, T
<1> QED BY <1>7, <1>8
---------------------------------------------------------------------------
(* The task at the head says which step is next, and what comes after it.  *)

LEMMA StepOfTheHead ==
  ASSUME Continue
  PROVE  /\ ~Idle /\ UNCHANGED now
         /\ Head(todo).do = "banks" => VisitBank
         /\ Head(todo).do = "usage" => RecalculateUsage
         /\ Head(todo).do = "save" => SaveAll
         /\ Head(todo).do = "bank_shares" => EditBankShares
         /\ Head(todo).do = "bank_parent" => EditBankParent
         /\ Head(todo).do = "users" => DisableUser
         /\ Head(todo).do = "default" => UpdateDefaultBank
         /\ Head(todo).do = "modify_queues" => EditModifyQueues
         /\ Head(todo).do = "user_def" => EditDefaultBank
         /\ Head(todo).do = "user_shares" => EditShares
         /\ Head(todo).do = "user_queues" => EditQueues
         /\ Head(todo).do = "user_projects" => EditProjects
         /\ Head(todo).do = "queue_limit" => EditQueueLimit
         /\ Head(todo).do = "config" => EditConfigKey
         /\ Head(todo).do = "rebin" => ReconfigureBins
         /\ Head(todo).do = "row" => PopulateRow
<1> USE DEF Doing
<1>1. CASE VisitBank
  BY <1>1 DEF VisitBank
<1>2. CASE RecalculateUsage
  BY <1>2 DEF RecalculateUsage
<1>3. CASE SaveAll
  BY <1>3 DEF SaveAll
<1>4. CASE EditBankShares
  BY <1>4 DEF EditBankShares
<1>5. CASE EditBankParent
  BY <1>5 DEF EditBankParent
<1>6. CASE DisableUser
  BY <1>6 DEF DisableUser
<1>7. CASE UpdateDefaultBank
  BY <1>7 DEF UpdateDefaultBank
<1>8. CASE EditModifyQueues
  BY <1>8 DEF EditModifyQueues
<1>9. CASE EditDefaultBank
  BY <1>9 DEF EditDefaultBank
<1>10. CASE EditShares
  BY <1>10 DEF EditShares
<1>11. CASE EditQueues
  BY <1>11 DEF EditQueues
<1>12. CASE EditProjects
  BY <1>12 DEF EditProjects
<1>13. CASE EditQueueLimit
  BY <1>13 DEF EditQueueLimit
<1>14. CASE EditConfigKey
  BY <1>14 DEF EditConfigKey
<1>15. CASE ReconfigureBins
  BY <1>15 DEF ReconfigureBins
<1>16. CASE PopulateRow
  BY <1>16 DEF PopulateRow
<1> QED BY <1>1, <1>2, <1>3, <1>4, <1>5, <1>6, <1>7, <1>8, <1>9, <1>10, <1>11, <1>12,
           <1>13, <1>14, <1>15, <1>16 DEF Continue

SaveTask == [do |-> "save"]
UsageTask == [do |-> "usage"]

LEMMA SaveIsTask == SaveTask \in Task /\ UsageTask \in Task
BY DEF SaveTask, UsageTask, Task

(* The tasks before the commit.                                            *)
ThenSave(f) == f \o <<SaveTask>>

LEMMA ToTheSave ==
  ASSUME NEW S, NEW f \in Seq(S)
  PROVE  /\ ThenSave(f) # <<>>
         /\ f = <<>> => Head(ThenSave(f)) = SaveTask /\ Tail(ThenSave(f)) = <<>>
         /\ f # <<>> => /\ Head(ThenSave(f)) = Head(f) /\ Head(f) \in S /\ Tail(f) \in Seq(S)
                        /\ Tail(ThenSave(f)) = ThenSave(Tail(f))
<1> USE DEF ThenSave
<1>1. CASE f = <<>>
  BY <1>1
<1>2. CASE f # <<>>
  <2>1. f \in Seq(S \cup {SaveTask}) /\ <<SaveTask>> \in Seq(S \cup {SaveTask})
    OBVIOUS
  <2>2. ThenSave(f) # <<>> /\ Head(ThenSave(f)) = Head(f) /\ Tail(ThenSave(f)) = ThenSave(Tail(f))
    BY <1>2, <2>1
  <2> QED BY <1>2, <2>2
<1> QED BY <1>1, <1>2

LEMMA Regrouped ==
  ASSUME NEW S, NEW a \in Seq(S), NEW b \in Seq(S), NEW c \in Seq(S)
  PROVE  a \o (b \o c) = (a \o b) \o c /\ a \o b \in Seq(S) /\ b \o c \in Seq(S)
OBVIOUS

(* A step that goes on with some tasks.                                    *)
LEMMA GoesOn ==
  ASSUME NEW tasks, GoOn(tasks)
  PROVE  /\ todo' = tasks \o Tail(todo)
         /\ tasks \o Tail(todo) # <<>> => cmd' = cmd /\ before' = before /\ reply' = reply
         /\ tasks \o Tail(todo) = <<>> => Answer("ok")
BY DEF GoOn, Answer
---------------------------------------------------------------------------
(* delete_bank, between two commits: the banks visited so far are gone     *)
(* from the connection's table, the rest of what is left to do is with the *)
(* banks from the named one down.                                          *)

ToGo(d, r) == Doomed(d, r.bank, r.force)
OwnTask(d, r) ==
  {t \in Task :
     /\ t.do \in {"banks", "users", "usage"}
     /\ t.do = "banks" => t.force = r.force /\ t.names \subseteq ToGo(d, r)
     /\ t.do = "users" => t.force = r.force /\ t.bank \in ToGo(d, r)}
DefaultTask(u, b) == [do |-> "default", user |-> u, bank |-> b]
Visited(d, r, w) ==
  \E gone \in SUBSET ToGo(d, r) : w = [d EXCEPT !.banks = Fewer(d.banks, gone, r.force)]
DeleteRun(r, d, w, s) ==
  \E f \in Seq(OwnTask(d, r)) :
    \/ s = ThenSave(f) /\ Visited(d, r, w)
    \/ /\ w = d
       /\ \E u \in Users, b \in ToGo(d, r) : s = <<DefaultTask(u, b)>> \o ThenSave(f)

(* What a step of the command comes to.                                    *)
GoesOnOrEnds == (todo' = <<>>) \/ (cmd' = cmd /\ DeleteRun(cmd, disk', work', todo'))

LEMMA NothingVisited ==
  ASSUME NEW d \in Tables, NEW r
  PROVE  Visited(d, r, d)
<1>1. Fewer(d.banks, {}, r.force) = d.banks
  BY DEF Fewer
<1>2. d = [d EXCEPT !.banks = d.banks]
  BY DEF Tables
<1> QED BY <1>1, <1>2 DEF Visited

LEMMA OwnTasksStay ==
  ASSUME NEW d \in Tables, NEW e \in Tables, NEW r \in DeleteBankRequests, NEW gone,
         e.banks = Fewer(d.banks, gone, r.force)
  PROVE  ToGo(d, r) \subseteq ToGo(e, r) /\ Seq(OwnTask(d, r)) \subseteq Seq(OwnTask(e, r))
<1>1. r.bank \in Banks /\ r.force \in BOOLEAN
  BY DEF DeleteBankRequests
<1>2. ToGo(d, r) \subseteq ToGo(e, r)
  BY <1>1, DoomedGrows DEF ToGo
<1>3. OwnTask(d, r) \subseteq OwnTask(e, r)
  BY <1>2 DEF OwnTask
<1> QED BY <1>2, <1>3

OwnBanks(d, r, names) == names \subseteq Banks /\ names \subseteq ToGo(d, r)

LEMMA VisitIsOwn ==
  ASSUME NEW d, NEW r, r.force \in BOOLEAN, NEW names, OwnBanks(d, r, names), NEW n \in Nat
  PROVE  Visits(names, n, r.force) \in Seq(OwnTask(d, r))
<1> DEFINE t == [do |-> "banks", names |-> names, depth |-> n, force |-> r.force]
<1>1. t \in Task
  BY DEF Task, OwnBanks
<1>2. t \in OwnTask(d, r)
  BY <1>1 DEF OwnTask, OwnBanks
<1> QED BY <1>2 DEF Visits, OneOf

OwnMembers(d, r, b, users) == users \subseteq Users /\ b \in Banks /\ b \in ToGo(d, r)

LEMMA RemovalIsOwn ==
  ASSUME NEW d, NEW r, r.force \in BOOLEAN, NEW users, NEW b, OwnMembers(d, r, b, users)
  PROVE  Removals(users, b, r.force) \in Seq(OwnTask(d, r))
<1> DEFINE t == [do |-> "users", names |-> users, bank |-> b, force |-> r.force]
<1>1. t \in Task
  BY DEF Task, OwnMembers
<1>2. t \in OwnTask(d, r)
  BY <1>1 DEF OwnTask, OwnMembers
<1> QED BY <1>2 DEF Removals, OneOf

LEMMA NextInFront ==
  ASSUME NEW S, NEW a \in Seq(S), NEW f \in Seq(S), f # <<>>
  PROVE  /\ a \o Tail(f) \in Seq(S)
         /\ a \o Tail(ThenSave(f)) = ThenSave(a \o Tail(f))
<1>1. Tail(f) \in Seq(S) /\ Tail(ThenSave(f)) = ThenSave(Tail(f))
  BY ToTheSave
<1> DEFINE T == S \cup {SaveTask}
<1>2. a \in Seq(T) /\ Tail(f) \in Seq(T) /\ <<SaveTask>> \in Seq(T)
  BY <1>1
<1> QED BY <1>1, <1>2, Regrouped DEF ThenSave

LEMMA VisitRuns ==
  ASSUME TypeOK, cmd \in DeleteBankRequests, NEW f \in Seq(OwnTask(disk, cmd)), f # <<>>,
         todo = ThenSave(f), Visited(disk, cmd, work), VisitBank
  PROVE  disk' = disk /\ GoesOnOrEnds
<1> DEFINE r == cmd
           t == Head(todo)
<1>1. r.bank \in Banks /\ r.force \in BOOLEAN
  BY DEF DeleteBankRequests
<1>2. t \in OwnTask(disk, r) /\ t.do = "banks" /\ t \in Task
  BY ToTheSave DEF VisitBank, Doing, OwnTask
<1>3. /\ t.names \in SUBSET Banks /\ t.depth \in Nat /\ t.force = r.force
      /\ t.names \subseteq ToGo(disk, r)
  BY <1>2, TaskIs DEF OwnTask
<1>4. disk \in Tables /\ work \in Tables /\ disk.banks \in SUBSET BankRow
  BY DEF TypeOK, Tables
<1>5. PICK gone \in SUBSET ToGo(disk, r) :
        work = [disk EXCEPT !.banks = Fewer(disk.banks, gone, r.force)]
  BY DEF Visited
<1>6. PICK b \in t.names :
        LET d == RemoveBank(work, b, t.force)
            subs == SubBanks(d, b)
            members == {x.user : x \in MembersOf(d, b)}
        IN IF t.depth >= MaxDepth
             THEN Write(d) /\ Answer("error")
             ELSE /\ Write(d)
                  /\ GoOn((IF subs # {} THEN Visits(subs, t.depth + 1, t.force)
                           ELSE Removals(members, b, t.force))
                            \o Visits(t.names \ {b}, t.depth, t.force))
  BY DEF VisitBank
<1> DEFINE d == RemoveBank(work, b, r.force)
           subs == SubBanks(d, b)
           members == {x.user : x \in MembersOf(d, b)}
           first == IF subs # {} THEN Visits(subs, t.depth + 1, r.force)
                    ELSE Removals(members, b, r.force)
           tasks == first \o Visits(t.names \ {b}, t.depth, r.force)
<1>7. b \in Banks /\ b \in ToGo(disk, r)
  BY <1>3
<1>8. d = [disk EXCEPT !.banks = Fewer(disk.banks, gone \cup {b}, r.force)]
  <2>1. work.banks = Fewer(disk.banks, gone, r.force)
    BY <1>4, <1>5 DEF Tables
  <2>2. d = [work EXCEPT !.banks = Fewer(work.banks, {b}, r.force)]
    BY DEF RemoveBank, Fewer
  <2>3. d = [work EXCEPT !.banks = Fewer(disk.banks, gone \cup {b}, r.force)]
    <3> DEFINE one == {b}
               more == gone \cup {b}
    <3>a. OneMore(gone, b, one, more)
      BY DEF OneMore
    <3> HIDE DEF one, more
    <3>1. Fewer(Fewer(disk.banks, gone, r.force), one, r.force) = Fewer(disk.banks, more, r.force)
      BY <1>1, <1>4, <3>a, FewerAgain
    <3> USE DEF one, more
    <3> QED BY <2>1, <2>2, <3>1
  <2> QED BY <1>4, <1>5, <2>3 DEF Tables
<1>9. Visited(disk, r, d)
  BY <1>5, <1>7, <1>8 DEF Visited
<1>10. d \in Tables
  BY <1>4, <1>7, BankStatementTypes
<1>11. subs \subseteq Banks \cap ToGo(disk, r)
  <2>1. d.banks = Fewer(disk.banks, gone \cup {b}, r.force)
    BY <1>4, <1>8 DEF Tables
  <2>2. \A x \in d.banks : \E y \in disk.banks : y.bank = x.bank /\ y.parent = x.parent
    BY <1>1, <1>4, <2>1, FewerRows
  <2>3. subs \subseteq SubBanks(disk, b)
    BY <2>2 DEF SubBanks
  <2>4. SubBanks(disk, b) \subseteq ToGo(disk, r)
    BY <1>1, <1>4, <1>7, DoomedFacts DEF ToGo, Closed
  <2> QED BY <1>4, <2>3, <2>4, SubBanksAreBanks
<1>12. members \subseteq Users
  BY <1>10 DEF Tables, AssocRow, MembersOf
<1>13. tasks \in Seq(OwnTask(disk, r))
  <2> DEFINE others == t.names \ {b}
             level == t.depth + 1
  <2>1. OwnBanks(disk, r, subs) /\ OwnBanks(disk, r, others) /\ level \in Nat /\ t.depth \in Nat
    BY <1>3, <1>11 DEF OwnBanks
  <2> HIDE DEF subs, members, d, t, r, others, level
  <2>2. /\ Visits(subs, level, r.force) \in Seq(OwnTask(disk, r))
        /\ Visits(others, t.depth, r.force) \in Seq(OwnTask(disk, r))
    BY <1>1, <2>1, VisitIsOwn
  <2>3. Removals(members, b, r.force) \in Seq(OwnTask(disk, r))
    <3>1. OwnMembers(disk, r, b, members)
      BY <1>7, <1>12 DEF OwnMembers
    <3> QED BY <1>1, <3>1, RemovalIsOwn
  <2>4. first \in Seq(OwnTask(disk, r))
    BY <2>2, <2>3 DEF level
  <2> HIDE DEF first
  <2> QED BY <2>2, <2>4 DEF others
<1>14. IF t.depth >= MaxDepth THEN Write(d) /\ Answer("error") ELSE Write(d) /\ GoOn(tasks)
  BY <1>3, <1>6
<1> HIDE DEF tasks, d, t
<1>15. disk' = disk /\ work' = d
  BY <1>14 DEF Write
<1>16. CASE Answer("error")
  BY <1>15, <1>16 DEF Answer, GoesOnOrEnds
<1>17. CASE GoOn(tasks)
  <2>1. /\ tasks \o Tail(f) \in Seq(OwnTask(disk, r))
        /\ todo' = ThenSave(tasks \o Tail(f))
    BY <1>13, <1>17, NextInFront, GoesOn
  <2>2. todo' # <<>>
    BY <2>1, ToTheSave
  <2>3. cmd' = cmd
    BY <1>17, <2>2 DEF GoOn, Answer
  <2> QED BY <1>9, <1>15, <2>1, <2>3 DEF GoesOnOrEnds, DeleteRun
<1> QED BY <1>14, <1>15, <1>16, <1>17

(* What is committed of a delete_bank is a removal of AtomicAccounting.    *)
Left(d, r, left) ==
  \/ left = d.assocs
  \/ \E x \in d.assocs : /\ x.bank \in ToGo(d, r)
                         /\ left = RemoveAssociation(d, x.user, x.bank, r.force).assocs

LEMMA RemovalIsAtomic ==
  ASSUME disk \in Tables, NEW r \in DeleteBankRequests, NEW gone \in SUBSET ToGo(disk, r),
         NEW left, Left(disk, r, left),
         disk' = [disk EXCEPT !.assocs = left, !.banks = Fewer(disk.banks, gone, r.force)]
  PROVE  Atomic!BankRemoved(r)
<1>0. r.op = "delete_bank" /\ r.force \in BOOLEAN
  BY DEF DeleteBankRequests
<1> DEFINE known == {b \in gone : KnownBank(disk, b)}
<1>1. Atomic!Doomed(disk, r) = ToGo(disk, r)
  BY SameDoomed DEF ToGo
<1>2. known \in SUBSET {b \in Atomic!Doomed(disk, r) : Atomic!KnownBank(disk, b)}
  BY <1>1 DEF Atomic!KnownBank, KnownBank
<1>3. left \in {disk.assocs} \cup
               {Atomic!RemoveAssociation(disk, x.user, x.bank, r.force).assocs :
                  x \in {y \in disk.assocs : y.bank \in Atomic!Doomed(disk, r)}}
  <2>1. \A x : Atomic!RemoveAssociation(disk, x.user, x.bank, r.force)
                 = RemoveAssociation(disk, x.user, x.bank, r.force)
    BY DEF Atomic!RemoveAssociation, RemoveAssociation
  <2> QED BY <1>1, <2>1 DEF Left
<1>4. Fewer(disk.banks, gone, r.force) = Fewer(disk.banks, known, r.force)
  BY <1>0 DEF Fewer, KnownBank
<1> HIDE DEF known
<1>5. disk' = [disk EXCEPT !.assocs = left,
                           !.banks = IF r.force THEN {x \in @ : x.bank \notin known}
                                     ELSE {IF x.bank \in known THEN [x EXCEPT !.active = FALSE]
                                           ELSE x : x \in @}]
  BY <1>4 DEF Fewer, Tables
<1> QED BY <1>0, <1>2, <1>3, <1>5 DEF Atomic!BankRemoved

LEMMA DisableRuns ==
  ASSUME TypeOK, TypeOK', cmd \in DeleteBankRequests, NEW f \in Seq(OwnTask(disk, cmd)),
         f # <<>>, todo = ThenSave(f), Visited(disk, cmd, work), DisableUser
  PROVE  Atomic!BankRemoved(cmd) /\ GoesOnOrEnds
<1> DEFINE r == cmd
           t == Head(todo)
<1>1. r.bank \in Banks /\ r.force \in BOOLEAN
  BY DEF DeleteBankRequests
<1>2. t \in OwnTask(disk, r) /\ t.do = "users" /\ t \in Task
  BY ToTheSave DEF DisableUser, Doing, OwnTask
<1>3. /\ t.names \in SUBSET Users /\ t.bank \in Banks /\ t.force = r.force
      /\ t.bank \in ToGo(disk, r)
  BY <1>2, TaskIs DEF OwnTask
<1>4. /\ disk \in Tables /\ work \in Tables /\ disk' \in Tables /\ disk.banks \in SUBSET BankRow
      /\ disk.assocs \in SUBSET AssocRow
  BY DEF TypeOK, Tables
<1>5. PICK gone \in SUBSET ToGo(disk, r) :
        work = [disk EXCEPT !.banks = Fewer(disk.banks, gone, r.force)]
  BY DEF Visited
<1>6. PICK u \in t.names :
          /\ Save(RemoveAssociation(work, u, t.bank, t.force))
          /\ GoOn(<<[do |-> "default", user |-> u, bank |-> t.bank]>>
                    \o Removals(t.names \ {u}, t.bank, t.force))
  BY DEF DisableUser
<1> DEFINE left == RemoveAssociation(disk, u, t.bank, r.force).assocs
<1>7. disk' = RemoveAssociation(work, u, t.bank, r.force) /\ work' = disk'
  BY <1>3, <1>6 DEF Save
<1>8. disk' = [disk EXCEPT !.assocs = left, !.banks = Fewer(disk.banks, gone, r.force)]
  <2>1. left = RemoveAssociation(work, u, t.bank, r.force).assocs
    BY <1>4, <1>5 DEF RemoveAssociation, Tables
  <2>2. RemoveAssociation(work, u, t.bank, r.force) = [work EXCEPT !.assocs = left]
    BY <1>4, <2>1 DEF RemoveAssociation, Tables
  <2> HIDE DEF left, t
  <2> QED BY <1>4, <1>5, <1>7, <2>2 DEF Tables
<1>9. Left(disk, r, left)
  <2>1. CASE \E x \in disk.assocs : x.user = u /\ x.bank = t.bank
    BY <1>3, <2>1 DEF Left
  <2>2. CASE ~\E x \in disk.assocs : x.user = u /\ x.bank = t.bank
    <3>1. left = disk.assocs
      BY <1>4, <2>2 DEF RemoveAssociation, Tables
    <3> QED BY <3>1 DEF Left
  <2> QED BY <2>1, <2>2
<1> HIDE DEF left
<1>10. Atomic!BankRemoved(cmd)
  BY <1>4, <1>8, <1>9, RemovalIsAtomic
<1>11. disk'.banks = Fewer(disk.banks, gone, r.force)
  BY <1>4, <1>8 DEF Tables
<1>12. /\ ToGo(disk, r) \subseteq ToGo(disk', r)
       /\ Seq(OwnTask(disk, r)) \subseteq Seq(OwnTask(disk', r))
  <2> PICK e : e = disk'
    OBVIOUS
  <2>1. /\ ToGo(disk, r) \subseteq ToGo(e, r)
        /\ Seq(OwnTask(disk, r)) \subseteq Seq(OwnTask(e, r))
    BY <1>4, <1>11, OwnTasksStay
  <2> QED BY <2>1
<1> DEFINE others == t.names \ {u}
           more == Removals(others, t.bank, r.force)
           g == more \o Tail(f)
<1>13. more \in Seq(OwnTask(disk, r))
  <2>1. OwnMembers(disk, r, t.bank, others)
    BY <1>3 DEF OwnMembers
  <2> HIDE DEF others, t
  <2> QED BY <1>1, <2>1, RemovalIsOwn
<1> HIDE DEF more
<1>14. /\ GoOn(<<DefaultTask(u, t.bank)>> \o more)
       /\ (<<DefaultTask(u, t.bank)>> \o more) \o Tail(todo)
            = <<DefaultTask(u, t.bank)>> \o ThenSave(g)
       /\ g \in Seq(OwnTask(disk, r))
  <2>1. GoOn(<<DefaultTask(u, t.bank)>> \o more)
    BY <1>3, <1>6 DEF DefaultTask, more
  <2>2. g \in Seq(OwnTask(disk, r)) /\ more \o Tail(todo) = ThenSave(g)
    BY <1>13, NextInFront
  <2>3. Tail(todo) = ThenSave(Tail(f)) /\ Tail(f) \in Seq(OwnTask(disk, r))
    BY ToTheSave
  <2>4. PICK S : S = OwnTask(disk, r) \cup {SaveTask, DefaultTask(u, t.bank)}
    OBVIOUS
  <2>5. <<DefaultTask(u, t.bank)>> \in Seq(S) /\ more \in Seq(S) /\ Tail(todo) \in Seq(S)
    BY <1>13, <2>3, <2>4 DEF ThenSave
  <2>6. (<<DefaultTask(u, t.bank)>> \o more) \o Tail(todo)
          = <<DefaultTask(u, t.bank)>> \o (more \o Tail(todo))
    BY <2>5, Regrouped
  <2> QED BY <2>1, <2>2, <2>6
<1> HIDE DEF g
<1>15. todo' = <<DefaultTask(u, t.bank)>> \o ThenSave(g) /\ (todo' # <<>> => cmd' = cmd)
  BY <1>14 DEF GoOn, Answer
<1>16. u \in Users
  BY <1>3
<1> QED BY <1>3, <1>7, <1>10, <1>12, <1>14, <1>15, <1>16 DEF GoesOnOrEnds, DeleteRun

LEMMA DefaultRuns ==
  ASSUME TypeOK, TypeOK', cmd \in DeleteBankRequests, NEW f \in Seq(OwnTask(disk, cmd)),
         NEW u \in Users, NEW b \in ToGo(disk, cmd), work = disk,
         todo = <<DefaultTask(u, b)>> \o ThenSave(f), UpdateDefaultBank
  PROVE  (disk' = disk \/ Atomic!DefaultMoved(cmd)) /\ GoesOnOrEnds
<1> DEFINE r == cmd
           t == Head(todo)
<1>1. r.bank \in Banks /\ r.force \in BOOLEAN /\ r.op = "delete_bank"
  BY DEF DeleteBankRequests
<1>2. t = DefaultTask(u, b) /\ Tail(todo) = ThenSave(f) /\ t.user = u /\ t.bank = b
  BY DEF ThenSave, DefaultTask
<1>3. disk \in Tables /\ disk' \in Tables /\ disk.banks \in SUBSET BankRow
  BY DEF TypeOK, Tables
<1>4. GoOn(<<>>)
  BY DEF UpdateDefaultBank
<1>5. <<>> \o Tail(todo) = ThenSave(f) /\ ThenSave(f) # <<>>
  <2>1. ThenSave(f) \in Seq(OwnTask(disk, r) \cup {SaveTask})
    BY DEF ThenSave
  <2> QED BY <1>2, <2>1, ToTheSave
<1>6. todo' = ThenSave(f) /\ cmd' = cmd
  BY <1>4, <1>5 DEF GoOn
<1>7. CASE NoWrite
  <2>1. disk' = disk /\ work' = disk
    BY <1>7 DEF NoWrite
  <2>2. Visited(disk, r, disk)
    BY <1>3, NothingVisited
  <2> QED BY <1>6, <2>1, <2>2 DEF GoesOnOrEnds, DeleteRun
<1>8. ASSUME DefaultMayMove(t), NEW new \in NextDefaults(work, t.user),
             Save(SetDefaultBank(work, t.user, Keep, new))
      PROVE  Atomic!DefaultMoved(cmd) /\ GoesOnOrEnds
  <2>1. disk' = SetDefaultBank(disk, u, Keep, new) /\ work' = disk'
    BY <1>2, <1>8 DEF Save
  <2>2. PICK x \in disk.assocs : x.user = u /\ x.def = b
    BY <1>2, <1>8 DEF DefaultMayMove, RowsOf
  <2>3. PICK y \in RowsOf(disk, u) : y.active /\ y.bank = new
    BY <1>2, <1>8 DEF NextDefaults
  <2>4. Atomic!DefaultMoved(cmd)
    <3>1. x.def \in Atomic!Doomed(disk, r)
      BY <2>2, SameDoomed DEF ToGo
    <3>2. y \in Atomic!RowsOf(disk, x.user)
      BY <2>2, <2>3 DEF Atomic!RowsOf, RowsOf
    <3>3. disk' = Atomic!SetDefaultBank(disk, x.user, Keep, y.bank)
      BY <2>1, <2>2, <2>3 DEF Atomic!SetDefaultBank, SetDefaultBank, Atomic!Chosen, Chosen
    <3> QED BY <1>1, <2>2, <2>3, <3>1, <3>2, <3>3 DEF Atomic!DefaultMoved
  <2>5. disk'.banks = Fewer(disk.banks, {}, r.force)
    <3>1. disk'.banks = disk.banks
      BY <1>3, <2>1 DEF SetDefaultBank, Tables
    <3> QED BY <1>1, <1>3, <3>1, FewerRows
  <2>6. Seq(OwnTask(disk, r)) \subseteq Seq(OwnTask(disk', r))
    <3> PICK e, gone : e = disk' /\ gone = {}
      OBVIOUS
    <3>1. Seq(OwnTask(disk, r)) \subseteq Seq(OwnTask(e, r))
      <4>1. e.banks = Fewer(disk.banks, gone, r.force)
        BY <2>5
      <4> QED BY <1>3, <4>1, OwnTasksStay
    <3> QED BY <3>1
  <2>7. Visited(disk', r, work')
    <3> PICK e : e = disk'
      OBVIOUS
    <3> QED BY <1>3, <2>1, NothingVisited
  <2> QED BY <1>6, <2>4, <2>6, <2>7 DEF GoesOnOrEnds, DeleteRun
<1> QED BY <1>7, <1>8 DEF UpdateDefaultBank

LEMMA UsageRuns ==
  ASSUME TypeOK, cmd \in DeleteBankRequests, NEW f \in Seq(OwnTask(disk, cmd)), f # <<>>,
         todo = ThenSave(f), Visited(disk, cmd, work), RecalculateUsage
  PROVE  disk' = disk /\ GoesOnOrEnds
<1>1. CASE Raise
  BY <1>1 DEF Raise, NoWrite, Answer, GoesOnOrEnds
<1>2. CASE Write(work) /\ GoOn(<<>>)
  <2>1. disk' = disk /\ work' = work
    BY <1>2 DEF Write
  <2>2. Tail(todo) = ThenSave(Tail(f)) /\ Tail(f) \in Seq(OwnTask(disk, cmd))
    BY ToTheSave
  <2>3. <<>> \o Tail(todo) = Tail(todo) /\ Tail(todo) # <<>>
    <3>1. Tail(todo) \in Seq(OwnTask(disk, cmd) \cup {SaveTask})
      BY <2>2 DEF ThenSave
    <3>2. PICK g : g = Tail(f) /\ g \in Seq(OwnTask(disk, cmd))
      BY <2>2
    <3>3. ThenSave(g) # <<>>
      BY <3>2, ToTheSave
    <3>4. <<>> \o Tail(todo) = Tail(todo)
      BY <3>1
    <3> QED BY <2>2, <3>2, <3>3, <3>4
  <2>4. todo' = ThenSave(Tail(f)) /\ cmd' = cmd
    BY <1>2, <2>2, <2>3 DEF GoOn
  <2> QED BY <2>1, <2>2, <2>4 DEF GoesOnOrEnds, DeleteRun
<1> QED BY <1>1, <1>2 DEF RecalculateUsage

LEMMA SaveRuns ==
  ASSUME TypeOK, cmd \in DeleteBankRequests, todo = <<SaveTask>>, Visited(disk, cmd, work),
         SaveAll
  PROVE  (disk' = disk \/ Atomic!BankRemoved(cmd)) /\ todo' = <<>>
<1>1. cmd.op = "delete_bank" /\ cmd.force \in BOOLEAN
  BY DEF DeleteBankRequests
<1>2. todo' = <<>>
  BY DEF SaveAll, GoOn, Answer
<1>3. CASE NoWrite
  BY <1>2, <1>3 DEF NoWrite
<1>4. CASE Save(work)
  <2>1. disk' = work /\ disk \in Tables
    BY <1>4 DEF Save, TypeOK
  <2>2. PICK gone \in SUBSET ToGo(disk, cmd) :
          work = [disk EXCEPT !.banks = Fewer(disk.banks, gone, cmd.force)]
    BY DEF Visited
  <2>3. PICK left : left = disk.assocs
    OBVIOUS
  <2>4. disk' = [disk EXCEPT !.assocs = left, !.banks = Fewer(disk.banks, gone, cmd.force)]
    BY <2>1, <2>2, <2>3 DEF Tables
  <2>5. Left(disk, cmd, left)
    BY <2>3 DEF Left
  <2>6. Atomic!BankRemoved(cmd)
    BY <2>1, <2>4, <2>5, RemovalIsAtomic
  <2> QED BY <1>2, <2>6
<1> QED BY <1>1, <1>3, <1>4 DEF SaveAll

(* A step of delete_bank.                                                  *)
LEMMA DeleteRuns ==
  ASSUME TypeOK, TypeOK', cmd \in DeleteBankRequests, DeleteRun(cmd, disk, work, todo), Continue
  PROVE  /\ disk' = disk \/ Atomic!BankRemoved(cmd) \/ Atomic!DefaultMoved(cmd)
         /\ GoesOnOrEnds
<1>1. ASSUME NEW f \in Seq(OwnTask(disk, cmd)), f # <<>>, todo = ThenSave(f),
             Visited(disk, cmd, work)
      PROVE  /\ disk' = disk \/ Atomic!BankRemoved(cmd)
             /\ GoesOnOrEnds
  <2>1. Head(todo).do \in {"banks", "users", "usage"}
    BY <1>1, ToTheSave DEF OwnTask
  <2>2. VisitBank \/ DisableUser \/ RecalculateUsage
    BY <2>1, StepOfTheHead
  <2> QED BY <1>1, <2>2, VisitRuns, DisableRuns, UsageRuns
<1>2. ASSUME NEW f \in Seq(OwnTask(disk, cmd)), f = <<>>, todo = ThenSave(f),
             Visited(disk, cmd, work)
      PROVE  (disk' = disk \/ Atomic!BankRemoved(cmd)) /\ GoesOnOrEnds
  <2>1. todo = <<SaveTask>>
    BY <1>2 DEF ThenSave
  <2>2. Head(todo).do = "save"
    BY <2>1 DEF SaveTask
  <2> QED BY <1>2, <2>1, <2>2, StepOfTheHead, SaveRuns DEF GoesOnOrEnds
<1>3. ASSUME NEW f \in Seq(OwnTask(disk, cmd)), NEW u \in Users, NEW b \in ToGo(disk, cmd),
             work = disk, todo = <<DefaultTask(u, b)>> \o ThenSave(f)
      PROVE  (disk' = disk \/ Atomic!DefaultMoved(cmd)) /\ GoesOnOrEnds
  <2>1. Head(todo).do = "default"
    BY <1>3 DEF ThenSave, DefaultTask
  <2> QED BY <1>3, <2>1, StepOfTheHead, DefaultRuns
<1> QED BY <1>1, <1>2, <1>3 DEF DeleteRun
---------------------------------------------------------------------------
(* The commands that take their steps one after the other.                 *)

IsSeq(s) == \E S : s \in Seq(S)
Last == <<SaveTask>>

LEMMA Stage ==
  ASSUME NEW o, NEW rest, IsSeq(rest)
  PROVE  /\ o = <<>> => o \o rest = rest
         /\ \A t : o = <<t>> => /\ o \o rest # <<>> /\ Head(o \o rest) = t /\ Tail(o \o rest) = rest
                                /\ IsSeq(o \o rest)
<1>1. PICK S : rest \in Seq(S)
  BY DEF IsSeq
<1>2. CASE o = <<>>
  BY <1>1, <1>2
<1>3. ASSUME NEW t, o = <<t>>
      PROVE  /\ o \o rest # <<>> /\ Head(o \o rest) = t /\ Tail(o \o rest) = rest
             /\ IsSeq(o \o rest)
  <2>1. PICK U : U = S \cup {t}
    OBVIOUS
  <2>2. t \in U /\ rest \in Seq(U)
    BY <1>1, <2>1
  <2>3. /\ <<t>> \o rest \in Seq(U) /\ <<t>> \o rest # <<>> /\ Head(<<t>> \o rest) = t
        /\ Tail(<<t>> \o rest) = rest
    BY <2>2
  <2> QED BY <1>3, <2>3 DEF IsSeq
<1> QED BY <1>2, <1>3

LEMMA StepsGrouped ==
  ASSUME NEW a, NEW b, NEW c, IsSeq(a), IsSeq(b), IsSeq(c)
  PROVE  (a \o b) \o c = a \o (b \o c) /\ IsSeq(a \o b) /\ IsSeq(b \o c)
<1>1. PICK A, B, C : a \in Seq(A) /\ b \in Seq(B) /\ c \in Seq(C)
  BY DEF IsSeq
<1>2. PICK S : S = A \cup B \cup C
  OBVIOUS
<1>3. a \in Seq(S) /\ b \in Seq(S) /\ c \in Seq(S)
  BY <1>1, <1>2
<1>4. (a \o b) \o c = a \o (b \o c) /\ a \o b \in Seq(S) /\ b \o c \in Seq(S)
  BY <1>3
<1> QED BY <1>4 DEF IsSeq

LEMMA ShortSeqs == /\ IsSeq(<<>>) /\ IsSeq(Last) /\ Last # <<>>
                   /\ \A t : IsSeq(<<t>>)
<1>1. <<>> \in Seq({}) /\ \A t : <<t>> \in Seq({t})
  OBVIOUS
<1> QED BY <1>1 DEF IsSeq, Last

LEMMA GoesTo ==
  ASSUME GoOn(<<>>), NEW rest, IsSeq(rest), rest = Tail(todo), rest # <<>>
  PROVE  todo' = rest /\ cmd' = cmd
<1>1. <<>> \o Tail(todo) = rest
  BY Stage
<1> QED BY <1>1 DEF GoOn

LEMMA SaveEnds ==
  ASSUME todo = Last, Continue
  PROVE  todo' = <<>> /\ (disk' = disk \/ disk' = work)
<1>1. SaveAll
  BY StepOfTheHead DEF Last, SaveTask
<1>2. GoOn(<<>>) /\ Tail(todo) = <<>>
  BY <1>1 DEF SaveAll, Last
<1>3. todo' = <<>>
  BY <1>2 DEF GoOn, Answer
<1> QED BY <1>1, <1>3 DEF SaveAll, Save, NoWrite

(* edit_bank.                                                              *)
SharesTask(r) == [do |-> "bank_shares", bank |-> r.bank, value |-> r.shares]
ParentTask(r) == [do |-> "bank_parent", bank |-> r.bank, value |-> r.parent]
SharesStep(r) == IF r.shares # Keep THEN <<SharesTask(r)>> ELSE <<>>
ParentStep(r) == IF r.parent # Keep THEN <<ParentTask(r)>> ELSE <<>>
FromParent(r) == ParentStep(r) \o Last
FromShares(r) == SharesStep(r) \o FromParent(r)
WithShares(d, r) == IF r.shares = Keep THEN d ELSE SetBankShares(d, r.bank, r.shares)
WithParent(d, r) ==
  IF r.parent = Keep THEN WithShares(d, r) ELSE SetBankParent(WithShares(d, r), r.bank, r.parent)
BankRun(r, d, w, s) ==
  \/ s = FromShares(r) /\ w = d
  \/ s = FromParent(r) /\ w = WithShares(d, r) /\ r.shares # Bad
  \/ /\ s = Last /\ w = WithParent(d, r) /\ r.shares # Bad
     /\ r.parent # Keep => KnownBank(d, r.parent)

LEMMA BankSteps ==
  ASSUME NEW r
  PROVE  /\ IsSeq(FromParent(r)) /\ FromParent(r) # <<>>
         /\ r.parent # Keep => Head(FromParent(r)) = ParentTask(r) /\ Tail(FromParent(r)) = Last
         /\ r.parent = Keep => FromParent(r) = Last
         /\ r.shares # Keep =>
              Head(FromShares(r)) = SharesTask(r) /\ Tail(FromShares(r)) = FromParent(r)
         /\ r.shares = Keep => FromShares(r) = FromParent(r)
<1>1. /\ IsSeq(FromParent(r)) /\ FromParent(r) # <<>>
      /\ r.parent # Keep => Head(FromParent(r)) = ParentTask(r) /\ Tail(FromParent(r)) = Last
      /\ r.parent = Keep => FromParent(r) = Last
  BY Stage, ShortSeqs DEF FromParent, ParentStep
<1>2. /\ r.shares # Keep =>
           Head(FromShares(r)) = SharesTask(r) /\ Tail(FromShares(r)) = FromParent(r)
      /\ r.shares = Keep => FromShares(r) = FromParent(r)
  BY <1>1, Stage, ShortSeqs DEF FromShares, SharesStep
<1> QED BY <1>1, <1>2

LEMMA EditBankRuns ==
  ASSUME TypeOK, cmd \in EditBankRequests, BankRun(cmd, disk, work, todo), Continue
  PROVE  /\ disk' = disk \/ Atomic!BankEdited(cmd)
         /\ todo' = <<>> \/ (cmd' = cmd /\ BankRun(cmd, disk', work', todo'))
<1> DEFINE r == cmd
           Good == /\ disk' = disk \/ Atomic!BankEdited(cmd)
                   /\ todo' = <<>> \/ (cmd' = cmd /\ BankRun(cmd, disk', work', todo'))
<1>0. Keep # Bad /\ r.op = "edit_bank"
  BY NamesAssumption DEF EditBankRequests
<1>1. ASSUME todo = Last, work = WithParent(disk, r), r.shares # Bad,
             r.parent # Keep => KnownBank(disk, r.parent)
      PROVE  Good
  <2>1. Atomic!BankEdited(r) \/ disk' = disk
    <3>1. disk' = work => Atomic!BankEdited(r)
      BY <1>0, <1>1 DEF Atomic!BankEdited, WithParent, WithShares, Atomic!KnownBank, KnownBank,
         Atomic!SetBankShares, SetBankShares, Atomic!SetBankParent, SetBankParent
    <3> QED BY <1>1, <3>1, SaveEnds
  <2> QED BY <1>1, <2>1, SaveEnds
<1>2. ASSUME todo = FromParent(r), work = WithShares(disk, r), r.shares # Bad
      PROVE  Good
  <2>1. CASE r.parent = Keep
    BY <1>1, <1>2, <2>1, BankSteps DEF WithParent
  <2>2. CASE r.parent # Keep
    <3>1. Head(todo) = ParentTask(r) /\ Tail(todo) = Last
      BY <1>2, <2>2, BankSteps
    <3>2. EditBankParent /\ Head(todo).value = r.parent /\ Head(todo).bank = r.bank
      BY <3>1, StepOfTheHead DEF ParentTask
    <3>3. CASE Raise
      BY <3>3 DEF Raise, NoWrite, Answer
    <3>4. CASE /\ KnownBank(work, r.parent)
               /\ Write(SetBankParent(work, r.bank, r.parent)) /\ GoOn(<<>>)
      <4>1. todo' = Last /\ cmd' = cmd
        BY <3>1, <3>4, GoesTo, ShortSeqs
      <4>2. disk' = disk /\ work' = WithParent(disk, r)
        BY <1>2, <2>2, <3>4 DEF Write, WithParent
      <4>3. KnownBank(disk, r.parent)
        <5>1. disk \in Tables
          BY DEF TypeOK
        <5>2. \A x \in work.banks : \E y \in disk.banks : y.bank = x.bank
          BY <1>2, <5>1 DEF WithShares, SetBankShares, Tables, BankRow
        <5> QED BY <3>4, <5>2 DEF KnownBank
      <4> QED BY <1>2, <4>1, <4>2, <4>3 DEF BankRun
    <3> QED BY <3>2, <3>3, <3>4 DEF EditBankParent
  <2> QED BY <2>1, <2>2
<1>3. ASSUME todo = FromShares(r), work = disk
      PROVE  Good
  <2>1. CASE r.shares = Keep
    BY <1>0, <1>2, <1>3, <2>1, BankSteps DEF WithShares
  <2>2. CASE r.shares # Keep
    <3>1. Head(todo) = SharesTask(r) /\ Tail(todo) = FromParent(r)
      BY <1>3, <2>2, BankSteps
    <3>2. EditBankShares /\ Head(todo).value = r.shares /\ Head(todo).bank = r.bank
      BY <3>1, StepOfTheHead DEF SharesTask
    <3>3. CASE Raise
      BY <3>3 DEF Raise, NoWrite, Answer
    <3>4. CASE r.shares # Bad /\ Write(SetBankShares(work, r.bank, r.shares)) /\ GoOn(<<>>)
      <4>1. todo' = FromParent(r) /\ cmd' = cmd
        BY <3>1, <3>4, GoesTo, BankSteps
      <4>2. disk' = disk /\ work' = WithShares(disk, r)
        BY <1>3, <2>2, <3>4 DEF Write, WithShares
      <4> QED BY <3>4, <4>1, <4>2 DEF BankRun
    <3> QED BY <3>2, <3>3, <3>4 DEF EditBankShares
  <2> QED BY <2>1, <2>2
<1> QED BY <1>1, <1>2, <1>3 DEF BankRun

(* edit_config.                                                            *)
KeyTask(r) == [do |-> "config", key |-> r.key, value |-> r.value]
Key2Task(r) == [do |-> "config", key |-> r.key2, value |-> r.value2]
RebinTask == [do |-> "rebin"]
Rebins(r) == {r.key, r.key2} \cap BinKeys # {}
KeyStep(r) == <<KeyTask(r)>>
Key2Step(r) == IF r.key2 # Keep THEN <<Key2Task(r)>> ELSE <<>>
RebinStep(r) == IF Rebins(r) THEN <<RebinTask>> ELSE <<>>
FromRebin(r) == RebinStep(r) \o Last
FromKey2(r) == Key2Step(r) \o FromRebin(r)
FromKey(r) == KeyStep(r) \o FromKey2(r)
WithKey(d, r) == SetKey(d, r.key, r.value)
WithKeys(d, r) == IF r.key2 = Keep THEN WithKey(d, r) ELSE SetKey(WithKey(d, r), r.key2, r.value2)
ConfigRun(r, d, w, s) ==
  \/ s = FromKey(r) /\ w = d
  \/ s = FromKey2(r) /\ w = WithKey(d, r) /\ KnownKey(d, r.key)
  \/ s = FromRebin(r) /\ w = WithKeys(d, r) /\ KnownKey(d, r.key)
  \/ s = Last /\ w = WithKeys(d, r) /\ KnownKey(d, r.key)
  \/ s = Last /\ w = d

LEMMA ConfigSteps ==
  ASSUME NEW r
  PROVE  /\ IsSeq(FromKey2(r)) /\ FromKey2(r) # <<>> /\ IsSeq(FromRebin(r)) /\ FromRebin(r) # <<>>
         /\ Rebins(r) => Head(FromRebin(r)) = RebinTask /\ Tail(FromRebin(r)) = Last
         /\ ~Rebins(r) => FromRebin(r) = Last
         /\ r.key2 # Keep => Head(FromKey2(r)) = Key2Task(r) /\ Tail(FromKey2(r)) = FromRebin(r)
         /\ r.key2 = Keep => FromKey2(r) = FromRebin(r)
         /\ Head(FromKey(r)) = KeyTask(r) /\ Tail(FromKey(r)) = FromKey2(r)
<1>1. /\ IsSeq(FromRebin(r)) /\ FromRebin(r) # <<>>
      /\ Rebins(r) => Head(FromRebin(r)) = RebinTask /\ Tail(FromRebin(r)) = Last
      /\ ~Rebins(r) => FromRebin(r) = Last
  BY Stage, ShortSeqs DEF FromRebin, RebinStep
<1>2. /\ IsSeq(FromKey2(r)) /\ FromKey2(r) # <<>>
      /\ r.key2 # Keep => Head(FromKey2(r)) = Key2Task(r) /\ Tail(FromKey2(r)) = FromRebin(r)
      /\ r.key2 = Keep => FromKey2(r) = FromRebin(r)
  BY <1>1, Stage, ShortSeqs DEF FromKey2, Key2Step
<1>3. Head(FromKey(r)) = KeyTask(r) /\ Tail(FromKey(r)) = FromKey2(r)
  BY <1>2, Stage DEF FromKey, KeyStep
<1> QED BY <1>1, <1>2, <1>3

LEMMA EditConfigRuns ==
  ASSUME cmd \in EditConfigRequests, ConfigRun(cmd, disk, work, todo), Continue
  PROVE  /\ disk' = disk \/ Atomic!ConfigEdited(cmd)
         /\ todo' = <<>> \/ (cmd' = cmd /\ ConfigRun(cmd, disk', work', todo'))
<1> DEFINE r == cmd
           Good == /\ disk' = disk \/ Atomic!ConfigEdited(cmd)
                   /\ todo' = <<>> \/ (cmd' = cmd /\ ConfigRun(cmd, disk', work', todo'))
<1>0. KnownKey(disk, r.key) /\ disk' = WithKeys(disk, r) => Atomic!ConfigEdited(r)
  BY DEF EditConfigRequests, Atomic!ConfigEdited, WithKeys, WithKey, Atomic!KnownKey, KnownKey,
     Atomic!SetKey, SetKey
<1>1. ASSUME todo = Last, work = disk PROVE Good
  BY <1>1, SaveEnds
<1>2. ASSUME todo = Last, work = WithKeys(disk, r), KnownKey(disk, r.key) PROVE Good
  BY <1>0, <1>2, SaveEnds
<1>3. ASSUME todo = FromRebin(r), work = WithKeys(disk, r), KnownKey(disk, r.key) PROVE Good
  <2>1. CASE ~Rebins(r)
    BY <1>2, <1>3, <2>1, ConfigSteps
  <2>2. CASE Rebins(r)
    <3>1. Head(todo) = RebinTask /\ Tail(todo) = Last
      BY <1>3, <2>2, ConfigSteps
    <3>2. ReconfigureBins
      BY <3>1, StepOfTheHead DEF RebinTask
    <3>3. CASE Raise
      BY <3>3 DEF Raise, NoWrite, Answer
    <3>4. CASE Save(work) /\ GoOn(<<>>)
      <4>1. todo' = Last /\ cmd' = cmd
        BY <3>1, <3>4, GoesTo, ShortSeqs
      <4>2. disk' = WithKeys(disk, r) /\ work' = disk'
        BY <1>3, <3>4 DEF Save
      <4> QED BY <1>0, <1>3, <4>1, <4>2 DEF ConfigRun
    <3> QED BY <3>2, <3>3, <3>4 DEF ReconfigureBins
  <2> QED BY <2>1, <2>2
<1>4. ASSUME todo = FromKey2(r), work = WithKey(disk, r), KnownKey(disk, r.key) PROVE Good
  <2>1. CASE r.key2 = Keep
    BY <1>3, <1>4, <2>1, ConfigSteps DEF WithKeys
  <2>2. CASE r.key2 # Keep
    <3>1. Head(todo) = Key2Task(r) /\ Tail(todo) = FromRebin(r)
      BY <1>4, <2>2, ConfigSteps
    <3>2. EditConfigKey /\ Head(todo).key = r.key2 /\ Head(todo).value = r.value2
      BY <3>1, StepOfTheHead DEF Key2Task
    <3>3. CASE Raise \/ (Write(work) /\ Answer("error"))
      BY <3>3 DEF Raise, NoWrite, Answer, Write
    <3>4. CASE Write(SetKey(work, r.key2, r.value2)) /\ GoOn(<<>>)
      <4>1. todo' = FromRebin(r) /\ cmd' = cmd
        BY <3>1, <3>4, GoesTo, ConfigSteps
      <4>2. disk' = disk /\ work' = WithKeys(disk, r)
        BY <1>4, <2>2, <3>4 DEF Write, WithKeys
      <4> QED BY <1>4, <4>1, <4>2 DEF ConfigRun
    <3> QED BY <3>2, <3>3, <3>4 DEF EditConfigKey
  <2> QED BY <2>1, <2>2
<1>5. ASSUME todo = FromKey(r), work = disk PROVE Good
  <2>1. Head(todo) = KeyTask(r) /\ Tail(todo) = FromKey2(r)
    BY <1>5, ConfigSteps
  <2>2. EditConfigKey /\ Head(todo).key = r.key /\ Head(todo).value = r.value
    BY <2>1, StepOfTheHead DEF KeyTask
  <2>3. CASE Raise \/ (Write(work) /\ Answer("error"))
    BY <2>3 DEF Raise, NoWrite, Answer, Write
  <2>4. CASE KnownKey(work, r.key) /\ Write(SetKey(work, r.key, r.value)) /\ GoOn(<<>>)
    <3>1. todo' = FromKey2(r) /\ cmd' = cmd
      BY <2>1, <2>4, GoesTo, ConfigSteps
    <3>2. disk' = disk /\ work' = WithKey(disk, r)
      BY <1>5, <2>4 DEF Write, WithKey
    <3> QED BY <1>5, <2>4, <3>1, <3>2 DEF ConfigRun
  <2> QED BY <2>2, <2>3, <2>4 DEF EditConfigKey
<1> QED BY <1>1, <1>2, <1>3, <1>4, <1>5 DEF ConfigRun

(* pop_db.                                                                 *)
RowTask(x) == [do |-> "row", row |-> x]
RowStep(x) == <<RowTask(x)>>
FromRow2(r) == RowStep(r.row2) \o Last
FromRow(r) == RowStep(r.row) \o FromRow2(r)
WithRows(d, rows) == [d EXCEPT !.assocs = @ \cup rows]
PopulateRun(r, d, w, s) ==
  \/ s = FromRow(r) /\ w = d
  \/ s = FromRow2(r) /\ w = WithRows(d, {r.row})
  \/ s = Last /\ w = WithRows(d, {r.row, r.row2})

LEMMA PopulateRuns ==
  ASSUME TypeOK, cmd \in PopDbRequests, PopulateRun(cmd, disk, work, todo), Continue
  PROVE  /\ disk' = disk \/ Atomic!RowsPopulated(cmd)
         /\ todo' = <<>> \/ (cmd' = cmd /\ PopulateRun(cmd, disk', work', todo'))
<1> DEFINE r == cmd
           Good == /\ disk' = disk \/ Atomic!RowsPopulated(cmd)
                   /\ todo' = <<>> \/ (cmd' = cmd /\ PopulateRun(cmd, disk', work', todo'))
<1>0. r.op = "pop_db" /\ disk \in Tables
  BY DEF PopDbRequests, TypeOK
<1>1. /\ IsSeq(FromRow2(r)) /\ FromRow2(r) # <<>>
      /\ Head(FromRow2(r)) = RowTask(r.row2) /\ Tail(FromRow2(r)) = Last
  BY Stage, ShortSeqs DEF FromRow2, RowStep
<1>2. Head(FromRow(r)) = RowTask(r.row) /\ Tail(FromRow(r)) = FromRow2(r)
  BY <1>1, Stage DEF FromRow, RowStep
<1>3. ASSUME NEW x, Head(todo) = RowTask(x)
      PROVE  \/ disk' = disk /\ todo' = <<>>
             \/ disk' = disk /\ GoOn(<<>>) /\ work' = [work EXCEPT !.assocs = @ \cup {x}]
  <2>1. PopulateRow /\ Head(todo).row = x
    BY <1>3, StepOfTheHead DEF RowTask
  <2> QED BY <2>1 DEF PopulateRow, Write, Answer
<1>4. ASSUME todo = Last, work = WithRows(disk, {r.row, r.row2}) PROVE Good
  BY <1>0, <1>4, SaveEnds DEF Atomic!RowsPopulated, WithRows
<1>5. ASSUME todo = FromRow2(r), work = WithRows(disk, {r.row}) PROVE Good
  <2>1. CASE disk' = disk /\ todo' = <<>>
    BY <2>1
  <2>2. CASE disk' = disk /\ GoOn(<<>>) /\ work' = [work EXCEPT !.assocs = @ \cup {r.row2}]
    <3>1. todo' = Last /\ cmd' = cmd
      BY <1>1, <1>5, <2>2, GoesTo, ShortSeqs
    <3>2. work' = WithRows(disk, {r.row, r.row2})
      <4>1. {r.row} \cup {r.row2} = {r.row, r.row2}
        OBVIOUS
      <4>2. work.assocs = disk.assocs \cup {r.row}
        BY <1>0, <1>5 DEF WithRows, Tables
      <4>3. work.assocs \cup {r.row2} = disk.assocs \cup {r.row, r.row2}
        BY <4>2
      <4> QED BY <1>0, <1>5, <2>2, <4>3 DEF WithRows, Tables
    <3> QED BY <2>2, <3>1, <3>2 DEF PopulateRun
  <2> QED BY <1>1, <1>3, <1>5, <2>1, <2>2
<1>6. ASSUME todo = FromRow(r), work = disk PROVE Good
  <2>1. CASE disk' = disk /\ todo' = <<>>
    BY <2>1
  <2>2. CASE disk' = disk /\ GoOn(<<>>) /\ work' = [work EXCEPT !.assocs = @ \cup {r.row}]
    <3>1. todo' = FromRow2(r) /\ cmd' = cmd
      BY <1>1, <1>2, <1>6, <2>2, GoesTo
    <3> QED BY <1>6, <2>2, <3>1 DEF PopulateRun, WithRows
  <2> QED BY <1>2, <1>3, <1>6, <2>1, <2>2
<1> QED BY <1>4, <1>5, <1>6 DEF PopulateRun

(* edit_user.                                                              *)
ModifyTask(r) == [do |-> "modify_queues", user |-> r.user, bank |-> r.bank,
                  add |-> r.add, del |-> r.del]
DefTask(r) == [do |-> "user_def", user |-> r.user, bank |-> r.bank, value |-> r.def]
UserSharesTask(r) == [do |-> "user_shares", user |-> r.user, bank |-> r.bank, value |-> r.shares]
QueuesTask(r) == [do |-> "user_queues", user |-> r.user, bank |-> r.bank, value |-> r.queues]
ProjectsTask(r) == [do |-> "user_projects", user |-> r.user, bank |-> r.bank, value |-> r.projects]
Modifies(r) == {r.add, r.del} # {Keep}
ModifyStep(r) == IF Modifies(r) THEN <<ModifyTask(r)>> ELSE <<>>
DefStep(r) == IF r.def # Keep THEN <<DefTask(r)>> ELSE <<>>
UserSharesStep(r) == IF r.shares # Keep THEN <<UserSharesTask(r)>> ELSE <<>>
QueuesStep(r) == IF r.queues # Keep THEN <<QueuesTask(r)>> ELSE <<>>
ProjectsStep(r) == IF r.projects # Keep THEN <<ProjectsTask(r)>> ELSE <<>>
FromProjects(r) == ProjectsStep(r) \o Last
FromQueues(r) == QueuesStep(r) \o FromProjects(r)
FromUserShares(r) == UserSharesStep(r) \o FromQueues(r)
FromDef(r) == DefStep(r) \o FromUserShares(r)
FromModify(r) == ModifyStep(r) \o FromDef(r)
OrNothing(value) == IF value = Reset THEN {} ELSE value
Edited1(d, r) == IF Modifies(r) THEN ModifyQueues(d, r.user, r.bank, r.add, r.del) ELSE d
Edited2(d, r) ==
  IF r.def = Keep THEN Edited1(d, r) ELSE SetDefaultBank(Edited1(d, r), r.user, r.bank, r.def)
Edited3(d, r) ==
  IF r.shares = Keep THEN Edited2(d, r) ELSE SetShares(Edited2(d, r), r.user, r.bank, r.shares)
Edited4(d, r) ==
  IF r.queues = Keep THEN Edited3(d, r)
  ELSE SetQueues(Edited3(d, r), r.user, r.bank, OrNothing(r.queues))
Edited5(d, r) ==
  IF r.projects = Keep THEN Edited4(d, r)
  ELSE SetProjects(Edited4(d, r), r.user, r.bank, OrNothing(r.projects))
UserRun(r, d, w, s) ==
  \/ s = FromModify(r) /\ w = d
  \/ s = FromDef(r) /\ w = Edited1(d, r)
  \/ s = FromUserShares(r) /\ w = Edited2(d, r) /\ r.def # Reset
  \/ s = FromQueues(r) /\ w = Edited3(d, r) /\ r.def # Reset
  \/ s = FromProjects(r) /\ w = Edited4(d, r) /\ r.def # Reset
  \/ s = Last /\ w = Edited5(d, r) /\ r.def # Reset
  \/ s = Last /\ w = d

LEMMA UserSteps ==
  ASSUME NEW r
  PROVE  /\ IsSeq(FromProjects(r)) /\ FromProjects(r) # <<>> /\ IsSeq(FromQueues(r))
         /\ FromQueues(r) # <<>> /\ IsSeq(FromUserShares(r)) /\ FromUserShares(r) # <<>>
         /\ IsSeq(FromDef(r)) /\ FromDef(r) # <<>>
         /\ IF r.projects # Keep
              THEN Head(FromProjects(r)) = ProjectsTask(r) /\ Tail(FromProjects(r)) = Last
              ELSE FromProjects(r) = Last
         /\ IF r.queues # Keep
              THEN Head(FromQueues(r)) = QueuesTask(r) /\ Tail(FromQueues(r)) = FromProjects(r)
              ELSE FromQueues(r) = FromProjects(r)
         /\ IF r.shares # Keep
              THEN /\ Head(FromUserShares(r)) = UserSharesTask(r)
                   /\ Tail(FromUserShares(r)) = FromQueues(r)
              ELSE FromUserShares(r) = FromQueues(r)
         /\ IF r.def # Keep
              THEN Head(FromDef(r)) = DefTask(r) /\ Tail(FromDef(r)) = FromUserShares(r)
              ELSE FromDef(r) = FromUserShares(r)
         /\ IF Modifies(r)
              THEN Head(FromModify(r)) = ModifyTask(r) /\ Tail(FromModify(r)) = FromDef(r)
              ELSE FromModify(r) = FromDef(r)
<1>1. /\ IsSeq(FromProjects(r)) /\ FromProjects(r) # <<>>
      /\ IF r.projects # Keep
           THEN Head(FromProjects(r)) = ProjectsTask(r) /\ Tail(FromProjects(r)) = Last
           ELSE FromProjects(r) = Last
  BY Stage, ShortSeqs DEF FromProjects, ProjectsStep
<1>2. /\ IsSeq(FromQueues(r)) /\ FromQueues(r) # <<>>
      /\ IF r.queues # Keep
           THEN Head(FromQueues(r)) = QueuesTask(r) /\ Tail(FromQueues(r)) = FromProjects(r)
           ELSE FromQueues(r) = FromProjects(r)
  BY <1>1, Stage DEF FromQueues, QueuesStep
<1>3. /\ IsSeq(FromUserShares(r)) /\ FromUserShares(r) # <<>>
      /\ IF r.shares # Keep
           THEN /\ Head(FromUserShares(r)) = UserSharesTask(r)
                /\ Tail(FromUserShares(r)) = FromQueues(r)
           ELSE FromUserShares(r) = FromQueues(r)
  BY <1>2, Stage DEF FromUserShares, UserSharesStep
<1>4. /\ IsSeq(FromDef(r)) /\ FromDef(r) # <<>>
      /\ IF r.def # Keep
           THEN Head(FromDef(r)) = DefTask(r) /\ Tail(FromDef(r)) = FromUserShares(r)
           ELSE FromDef(r) = FromUserShares(r)
  BY <1>3, Stage DEF FromDef, DefStep
<1>5. IF Modifies(r)
        THEN Head(FromModify(r)) = ModifyTask(r) /\ Tail(FromModify(r)) = FromDef(r)
        ELSE FromModify(r) = FromDef(r)
  BY <1>4, Stage DEF FromModify, ModifyStep
<1> QED BY <1>1, <1>2, <1>3, <1>4, <1>5

(* What the last commit writes is the whole edit.                          *)
LEMMA EditedIsAtomic ==
  ASSUME NEW r, r.op = "edit_user", r.def # Reset, disk' = Edited5(disk, r)
  PROVE  Atomic!UserEdited(r)
<1> DEFINE u == r.user
           b == r.bank
<1>1. /\ \A d, x, y : Atomic!ModifyQueues(d, u, b, x, y) = ModifyQueues(d, u, b, x, y)
      /\ \A d, x : Atomic!SetDefaultBank(d, u, b, x) = SetDefaultBank(d, u, b, x)
      /\ \A d, x : Atomic!SetShares(d, u, b, x) = SetShares(d, u, b, x)
      /\ \A d, x : Atomic!SetQueues(d, u, b, x) = SetQueues(d, u, b, x)
      /\ \A d, x : Atomic!SetProjects(d, u, b, x) = SetProjects(d, u, b, x)
  BY SameAssociationStatements
<1> DEFINE d1 == IF {r.add, r.del} = {Keep} THEN disk
                 ELSE Atomic!ModifyQueues(disk, u, b, r.add, r.del)
           d2 == IF r.def = Keep THEN d1 ELSE Atomic!SetDefaultBank(d1, u, b, r.def)
           d3 == IF r.shares = Keep THEN d2 ELSE Atomic!SetShares(d2, u, b, r.shares)
           d4 == IF r.queues = Keep THEN d3
                 ELSE Atomic!SetQueues(d3, u, b, IF r.queues = Reset THEN {} ELSE r.queues)
           d5 == IF r.projects = Keep THEN d4
                 ELSE Atomic!SetProjects(d4, u, b, IF r.projects = Reset THEN {} ELSE r.projects)
<1>2. d1 = Edited1(disk, r)
  BY <1>1 DEF Edited1, Modifies
<1> HIDE DEF d1
<1>3. d2 = Edited2(disk, r)
  BY <1>1, <1>2 DEF Edited2
<1> HIDE DEF d2
<1>4. d3 = Edited3(disk, r)
  BY <1>1, <1>3 DEF Edited3
<1> HIDE DEF d3
<1>5. d4 = Edited4(disk, r)
  BY <1>1, <1>4 DEF Edited4, OrNothing
<1> HIDE DEF d4
<1>6. d5 = Edited5(disk, r)
  BY <1>1, <1>5 DEF Edited5, OrNothing
<1> USE DEF d1, d2, d3, d4
<1> QED BY <1>6 DEF Atomic!UserEdited

LEMMA EditUserRuns ==
  ASSUME cmd \in EditUserRequests, cmd.queues = Reset => cmd.projects = Keep,
         UserRun(cmd, disk, work, todo), Continue
  PROVE  /\ disk' = disk \/ Atomic!UserEdited(cmd)
         /\ todo' = <<>> \/ (cmd' = cmd /\ UserRun(cmd, disk', work', todo'))
<1> DEFINE r == cmd
           Good == /\ disk' = disk \/ Atomic!UserEdited(cmd)
                   /\ todo' = <<>> \/ (cmd' = cmd /\ UserRun(cmd, disk', work', todo'))
<1>0. r.op = "edit_user" /\ Keep # Reset
  BY NamesAssumption DEF EditUserRequests
<1>r. Raise => Good
  BY DEF Raise, NoWrite, Answer
<1>1. ASSUME todo = Last, work = disk PROVE Good
  BY <1>1, SaveEnds
<1>2. ASSUME todo = Last, work = Edited5(disk, r), r.def # Reset PROVE Good
  BY <1>0, <1>2, SaveEnds, EditedIsAtomic
<1>3. ASSUME todo = FromProjects(r), work = Edited4(disk, r), r.def # Reset PROVE Good
  <2>1. CASE r.projects = Keep
    BY <1>2, <1>3, <2>1, UserSteps DEF Edited5
  <2>2. CASE r.projects # Keep
    <3>1. Head(todo) = ProjectsTask(r) /\ Tail(todo) = Last
      BY <1>3, <2>2, UserSteps
    <3>2. /\ EditProjects /\ Head(todo).value = r.projects /\ Head(todo).user = r.user
          /\ Head(todo).bank = r.bank
      BY <3>1, StepOfTheHead DEF ProjectsTask
    <3>3. ASSUME GoOn(<<>>) PROVE todo' = Last /\ cmd' = cmd
      BY <3>1, <3>3, GoesTo, ShortSeqs
    <3>4. CASE /\ r.projects = Reset /\ Save(SetProjects(work, r.user, r.bank, {})) /\ GoOn(<<>>)
      <4>1. disk' = Edited5(disk, r) /\ work' = disk'
        BY <1>3, <2>2, <3>4 DEF Save, Edited5, OrNothing
      <4> QED BY <1>0, <1>3, <3>3, <3>4, <4>1, EditedIsAtomic DEF UserRun
    <3>5. CASE /\ r.projects # Reset /\ Write(SetProjects(work, r.user, r.bank, r.projects))
               /\ GoOn(<<>>)
      <4>1. disk' = disk /\ work' = Edited5(disk, r)
        BY <1>3, <2>2, <3>5 DEF Write, Edited5, OrNothing
      <4> QED BY <1>3, <3>3, <3>5, <4>1 DEF UserRun
    <3> HIDE DEF Good
    <3> QED BY <1>r, <3>2, <3>4, <3>5 DEF EditProjects
  <2> QED BY <2>1, <2>2
<1>4. ASSUME todo = FromQueues(r), work = Edited3(disk, r), r.def # Reset PROVE Good
  <2>1. CASE r.queues = Keep
    BY <1>3, <1>4, <2>1, UserSteps DEF Edited4
  <2>2. CASE r.queues # Keep
    <3>1. Head(todo) = QueuesTask(r) /\ Tail(todo) = FromProjects(r)
      BY <1>4, <2>2, UserSteps
    <3>2. /\ EditQueues /\ Head(todo).value = r.queues /\ Head(todo).user = r.user
          /\ Head(todo).bank = r.bank
      BY <3>1, StepOfTheHead DEF QueuesTask
    <3>3. ASSUME GoOn(<<>>) PROVE todo' = FromProjects(r) /\ cmd' = cmd
      BY <3>1, <3>3, GoesTo, UserSteps
    <3>4. CASE /\ r.queues = Reset /\ Save(SetQueues(work, r.user, r.bank, {})) /\ GoOn(<<>>)
      <4>1. disk' = Edited5(disk, r) /\ work' = disk' /\ FromProjects(r) = Last
        BY <1>4, <2>2, <3>4, UserSteps DEF Save, Edited5, Edited4, OrNothing
      <4> QED BY <1>0, <1>4, <3>3, <3>4, <4>1, EditedIsAtomic DEF UserRun
    <3>5. CASE /\ r.queues # Reset /\ Write(SetQueues(work, r.user, r.bank, r.queues))
               /\ GoOn(<<>>)
      <4>1. disk' = disk /\ work' = Edited4(disk, r)
        BY <1>4, <2>2, <3>5 DEF Write, Edited4, OrNothing
      <4> QED BY <1>4, <3>3, <3>5, <4>1 DEF UserRun
    <3> HIDE DEF Good
    <3> QED BY <1>r, <3>2, <3>4, <3>5 DEF EditQueues
  <2> QED BY <2>1, <2>2
<1>5. ASSUME todo = FromUserShares(r), work = Edited2(disk, r), r.def # Reset PROVE Good
  <2>1. CASE r.shares = Keep
    BY <1>4, <1>5, <2>1, UserSteps DEF Edited3
  <2>2. CASE r.shares # Keep
    <3>1. Head(todo) = UserSharesTask(r) /\ Tail(todo) = FromQueues(r)
      BY <1>5, <2>2, UserSteps
    <3>2. /\ EditShares /\ Head(todo).value = r.shares /\ Head(todo).user = r.user
          /\ Head(todo).bank = r.bank
      BY <3>1, StepOfTheHead DEF UserSharesTask
    <3>3. Write(SetShares(work, r.user, r.bank, r.shares)) /\ GoOn(<<>>)
      BY <3>2 DEF EditShares
    <3>4. todo' = FromQueues(r) /\ cmd' = cmd
      BY <3>1, <3>3, GoesTo, UserSteps
    <3>5. disk' = disk /\ work' = Edited3(disk, r)
      BY <1>5, <2>2, <3>3 DEF Write, Edited3
    <3> QED BY <1>5, <3>4, <3>5 DEF UserRun
  <2> QED BY <2>1, <2>2
<1>6. ASSUME todo = FromDef(r), work = Edited1(disk, r) PROVE Good
  <2>1. CASE r.def = Keep
    BY <1>0, <1>5, <1>6, <2>1, UserSteps DEF Edited2
  <2>2. CASE r.def # Keep
    <3>1. Head(todo) = DefTask(r) /\ Tail(todo) = FromUserShares(r)
      BY <1>6, <2>2, UserSteps
    <3>2. /\ EditDefaultBank /\ Head(todo).value = r.def /\ Head(todo).user = r.user
          /\ Head(todo).bank = r.bank
      BY <3>1, StepOfTheHead DEF DefTask
    <3>3. CASE r.def # Reset /\ Write(SetDefaultBank(work, r.user, r.bank, r.def)) /\ GoOn(<<>>)
      <4>1. todo' = FromUserShares(r) /\ cmd' = cmd
        BY <3>1, <3>3, GoesTo, UserSteps
      <4>2. disk' = disk /\ work' = Edited2(disk, r)
        BY <1>6, <2>2, <3>3 DEF Write, Edited2
      <4> QED BY <3>3, <4>1, <4>2 DEF UserRun
    <3> HIDE DEF Good
    <3> QED BY <1>r, <3>2, <3>3 DEF EditDefaultBank
  <2> QED BY <2>1, <2>2
<1>7. ASSUME todo = FromModify(r), work = disk PROVE Good
  <2>1. CASE ~Modifies(r)
    BY <1>6, <1>7, <2>1, UserSteps DEF Edited1
  <2>2. CASE Modifies(r)
    <3>1. Head(todo) = ModifyTask(r) /\ Tail(todo) = FromDef(r)
      BY <1>7, <2>2, UserSteps
    <3>2. /\ EditModifyQueues /\ Head(todo).add = r.add /\ Head(todo).del = r.del
          /\ Head(todo).user = r.user /\ Head(todo).bank = r.bank
      BY <3>1, StepOfTheHead DEF ModifyTask
    <3>3. CASE Write(ModifyQueues(work, r.user, r.bank, r.add, r.del)) /\ GoOn(<<>>)
      <4>1. todo' = FromDef(r) /\ cmd' = cmd
        BY <3>1, <3>3, GoesTo, UserSteps
      <4>2. disk' = disk /\ work' = Edited1(disk, r)
        BY <1>7, <2>2, <3>3 DEF Write, Edited1
      <4> QED BY <4>1, <4>2 DEF UserRun
    <3> HIDE DEF Good
    <3> QED BY <1>r, <3>2, <3>3 DEF EditModifyQueues
  <2> QED BY <2>1, <2>2
<1> QED BY <1>1, <1>2, <1>3, <1>4, <1>5, <1>6, <1>7 DEF UserRun

(* delete_user.                                                            *)
UsersTask(r) == [do |-> "users", names |-> {r.user}, bank |-> r.bank, force |-> r.force]
RemovalRun(r, d, w, s) ==
  /\ w = d
  /\ s = <<UsersTask(r)>> \/ s = <<DefaultTask(r.user, r.bank)>>

LEMMA DeleteUserRuns ==
  ASSUME TypeOK, cmd \in DeleteUserRequests, RemovalRun(cmd, disk, work, todo), Continue
  PROVE  /\ disk' = disk \/ Atomic!UserRemoved(cmd) \/ Atomic!DefaultMoved(cmd)
         /\ todo' = <<>> \/ (cmd' = cmd /\ RemovalRun(cmd, disk', work', todo'))
<1> DEFINE r == cmd
<1>0. r.op = "delete_user" /\ work = disk
  BY DEF DeleteUserRequests, RemovalRun
<1>1. CASE todo = <<UsersTask(r)>>
  <2>1. /\ DisableUser /\ Head(todo).names = {r.user} /\ Head(todo).bank = r.bank
        /\ Head(todo).force = r.force /\ Tail(todo) = <<>>
    BY <1>1, StepOfTheHead DEF UsersTask
  <2> DEFINE next == <<DefaultTask(r.user, r.bank)>>
  <2>2. Save(RemoveAssociation(work, r.user, r.bank, r.force)) /\ GoOn(next \o <<>>)
    BY <2>1 DEF DisableUser, DefaultTask, Removals, OneOf
  <2>3. (next \o <<>>) \o Tail(todo) = next
    <3>1. (next \o <<>>) \o <<>> = next
      OBVIOUS
    <3> QED BY <2>1, <3>1
  <2>4. next # <<>>
    OBVIOUS
  <2> HIDE DEF next
  <2>5. todo' = next /\ cmd' = cmd
    BY <2>2, <2>3, <2>4 DEF GoOn
  <2>6. Atomic!UserRemoved(r)
    BY <1>0, <2>2 DEF Save, Atomic!UserRemoved, Atomic!RemoveAssociation, RemoveAssociation
  <2> QED BY <2>2, <2>5, <2>6 DEF Save, RemovalRun, next
<1>2. CASE todo = <<DefaultTask(r.user, r.bank)>>
  <2>1. /\ UpdateDefaultBank /\ Head(todo).user = r.user /\ Head(todo).bank = r.bank
        /\ Tail(todo) = <<>>
    BY <1>2, StepOfTheHead DEF DefaultTask
  <2>2. todo' = <<>>
    <3>1. GoOn(<<>>) /\ <<>> \o <<>> = <<>>
      BY <2>1 DEF UpdateDefaultBank
    <3> QED BY <2>1, <3>1 DEF GoOn, Answer
  <2>3. CASE NoWrite
    BY <2>2, <2>3 DEF NoWrite
  <2>4. ASSUME DefaultMayMove(Head(todo)), NEW new \in NextDefaults(work, r.user),
               Save(SetDefaultBank(work, r.user, Keep, new))
        PROVE  Atomic!DefaultMoved(r)
    <3>1. PICK x \in disk.assocs : x.user = r.user /\ x.def = r.bank
      BY <1>0, <2>1, <2>4 DEF DefaultMayMove, RowsOf
    <3>2. PICK y \in RowsOf(disk, r.user) : y.active /\ y.bank = new
      BY <1>0, <2>4 DEF NextDefaults
    <3>3. y \in Atomic!RowsOf(disk, x.user)
      BY <3>1, <3>2 DEF Atomic!RowsOf, RowsOf
    <3>4. disk' = Atomic!SetDefaultBank(disk, x.user, Keep, y.bank)
      BY <1>0, <2>4, <3>1, <3>2 DEF Save, Atomic!SetDefaultBank, SetDefaultBank, Atomic!Chosen,
         Chosen
    <3> QED BY <1>0, <3>1, <3>2, <3>3, <3>4 DEF Atomic!DefaultMoved
  <2> QED BY <2>1, <2>2, <2>3, <2>4 DEF UpdateDefaultBank
<1> QED BY <1>1, <1>2 DEF RemovalRun

(* edit_queue.                                                             *)
LimitTask(r, field, value) ==
  [do |-> "queue_limit", queue |-> r.queue, field |-> field, value |-> value]
RunningStep(r) == IF r.running # Keep THEN <<LimitTask(r, "running", r.running)>> ELSE <<>>
NodesStep(r) == IF r.nodes # Keep THEN <<LimitTask(r, "nodes", r.nodes)>> ELSE <<>>
FromRunning(r) == RunningStep(r) \o NodesStep(r)
QueueRun(r, d, w, s) == w = d /\ (s = FromRunning(r) \/ s = NodesStep(r))

LEMMA EditQueueRuns ==
  ASSUME cmd \in EditQueueRequests, QueueRun(cmd, disk, work, todo), Continue
  PROVE  /\ disk' = disk \/ Atomic!QueueEdited(cmd)
         /\ todo' = <<>> \/ (cmd' = cmd /\ QueueRun(cmd, disk', work', todo'))
<1> DEFINE r == cmd
           Good == /\ disk' = disk \/ Atomic!QueueEdited(cmd)
                   /\ todo' = <<>> \/ (cmd' = cmd /\ QueueRun(cmd, disk', work', todo'))
<1>0. /\ r.op = "edit_queue" /\ work = disk /\ ~Idle
      /\ r.running \in Shares \cup {Bad, Keep} /\ r.nodes \in Shares \cup {Bad, Keep}
  BY StepOfTheHead DEF EditQueueRequests, QueueRun, Given
<1>1. ASSUME NEW field \in {"running", "nodes"}, NEW v \in Shares \cup {Bad},
             Head(todo) = LimitTask(r, field, v), IsSeq(Tail(todo)),
             v = IF field = "running" THEN r.running ELSE r.nodes
      PROVE  \/ disk' = disk /\ todo' = <<>>
             \/ /\ Atomic!QueueEdited(r) /\ work' = disk'
                /\ todo' = <<>> \/ (todo' = Tail(todo) /\ cmd' = cmd)
  <2>1. /\ EditQueueLimit /\ Head(todo).queue = r.queue /\ Head(todo).field = field
        /\ Head(todo).value = v
    BY <1>1, StepOfTheHead DEF LimitTask
  <2>2. CASE Raise
    BY <2>2 DEF Raise, NoWrite, Answer
  <2>3. CASE v # Bad /\ Save(SetQueueLimit(work, r.queue, field, v)) /\ GoOn(<<>>)
    <3>1. Atomic!QueueEdited(r) /\ work' = disk'
      BY <1>0, <1>1, <2>3 DEF Save, Atomic!QueueEdited, Atomic!SetQueueLimit, SetQueueLimit
    <3>2. <<>> \o Tail(todo) = Tail(todo)
      BY <1>1, Stage
    <3>3. todo' = <<>> \/ (todo' = Tail(todo) /\ cmd' = cmd)
      BY <2>3, <3>2 DEF GoOn, Answer
    <3> QED BY <3>1, <3>3
  <2> HIDE DEF r
  <2> QED BY <2>1, <2>2, <2>3 DEF EditQueueLimit
<1>2. ASSUME todo = NodesStep(r) PROVE Good
  <2>1. todo = <<LimitTask(r, "nodes", r.nodes)>> /\ r.nodes # Keep
    BY <1>0, <1>2 DEF NodesStep, Idle
  <2>2. Head(todo) = LimitTask(r, "nodes", r.nodes) /\ Tail(todo) = <<>>
    BY <2>1
  <2> QED BY <1>0, <1>1, <2>1, <2>2, ShortSeqs
<1>3. ASSUME todo = FromRunning(r) PROVE Good
  <2>1. IsSeq(NodesStep(r))
    BY ShortSeqs DEF NodesStep
  <2>2. CASE r.running = Keep
    BY <1>2, <1>3, <2>1, <2>2, Stage DEF FromRunning, RunningStep
  <2>3. CASE r.running # Keep
    <3>1. Head(todo) = LimitTask(r, "running", r.running) /\ Tail(todo) = NodesStep(r)
      BY <1>3, <2>1, <2>3, Stage DEF FromRunning, RunningStep
    <3>2. \/ disk' = disk /\ todo' = <<>>
          \/ /\ Atomic!QueueEdited(r) /\ work' = disk'
             /\ todo' = <<>> \/ (todo' = NodesStep(r) /\ cmd' = cmd)
      BY <1>0, <1>1, <2>1, <2>3, <3>1
    <3> QED BY <3>2 DEF QueueRun
  <2> QED BY <2>2, <2>3
<1> QED BY <1>2, <1>3 DEF QueueRun
---------------------------------------------------------------------------
(* Every command, from its request to its answer.                          *)

Run(r, d, w, s) ==
  \/ r \in DeleteBankRequests /\ DeleteRun(r, d, w, s)
  \/ r \in EditBankRequests /\ BankRun(r, d, w, s)
  \/ r \in EditConfigRequests /\ ConfigRun(r, d, w, s)
  \/ r \in PopDbRequests /\ PopulateRun(r, d, w, s)
  \/ r \in EditUserRequests /\ UserRun(r, d, w, s)
  \/ r \in DeleteUserRequests /\ RemovalRun(r, d, w, s)
  \/ r \in EditQueueRequests /\ QueueRun(r, d, w, s)

Underway == Idle \/ (cmd \in Requests /\ Run(cmd, disk, work, todo))

LEMMA ContinueRuns ==
  ASSUME TypeOK, TypeOK', ResetsComeLast, cmd \in Requests, Run(cmd, disk, work, todo), Continue
  PROVE  /\ disk' = disk \/ Atomic!Committed(cmd)
         /\ todo' = <<>> \/ (cmd' = cmd /\ Run(cmd, disk', work', todo'))
<1> DEFINE Good == /\ disk' = disk \/ Atomic!Committed(cmd)
                   /\ todo' = <<>> \/ (cmd' = cmd /\ Run(cmd, disk', work', todo'))
<1> USE DEF Run, Atomic!Committed
<1>1. CASE cmd \in DeleteBankRequests /\ DeleteRun(cmd, disk, work, todo)
  BY <1>1, DeleteRuns DEF GoesOnOrEnds
<1>2. CASE cmd \in EditBankRequests /\ BankRun(cmd, disk, work, todo)
  BY <1>2, EditBankRuns
<1>3. CASE cmd \in EditConfigRequests /\ ConfigRun(cmd, disk, work, todo)
  BY <1>3, EditConfigRuns
<1>4. CASE cmd \in PopDbRequests /\ PopulateRun(cmd, disk, work, todo)
  BY <1>4, PopulateRuns
<1>5. CASE cmd \in EditUserRequests /\ UserRun(cmd, disk, work, todo)
  <2>1. cmd.queues = Reset => cmd.projects = Keep
    BY <1>5 DEF ResetsComeLast, EditUserRequests
  <2> QED BY <1>5, <2>1, EditUserRuns
<1>6. CASE cmd \in DeleteUserRequests /\ RemovalRun(cmd, disk, work, todo)
  BY <1>6, DeleteUserRuns
<1>7. CASE cmd \in EditQueueRequests /\ QueueRun(cmd, disk, work, todo)
  BY <1>7, EditQueueRuns
<1> QED BY <1>1, <1>2, <1>3, <1>4, <1>5, <1>6, <1>7

(* A request that comes in when nothing is left open.                      *)
Started(r) ==
  todo' = <<>> \/ (cmd' = r /\ disk' = disk /\ work' = disk /\ Run(r, disk, disk, todo'))

LEMMA AddBankCommits ==
  ASSUME TypeOK, work = disk, NEW r \in AddBankRequests, AddBank(r)
  PROVE  (disk' = disk \/ Atomic!BankAdded(r)) /\ todo' = <<>>
<1>0. disk \in Tables /\ r.op = "add_bank"
  BY DEF TypeOK, AddBankRequests
<1>1. CASE BankRefused(work, r) /\ Raise
  BY <1>1 DEF Raise, NoWrite, Answer
<1>2. ASSUME ~BankRefused(work, r)
      PROVE  /\ r.parent = NoBank \/ Atomic!KnownBank(disk, r.parent)
             /\ Atomic!MembersOf(disk, r.parent) = {}
  <2>1. r.parent = NoBank \/ (KnownBank(disk, r.parent) /\ MembersOf(disk, r.parent) = {})
    BY <1>2 DEF BankRefused
  <2>2. MembersOf(disk, NoBank) = {}
    BY <1>0, NamesAssumption DEF MembersOf, Tables, AssocRow
  <2> QED BY <2>1, <2>2 DEF Atomic!KnownBank, KnownBank, Atomic!MembersOf, MembersOf
<1>3. CASE ~BankRefused(work, r) /\ Save(ReactivateBank(work, r.bank, r.parent)) /\ Answer("ok")
  BY <1>0, <1>2, <1>3 DEF Save, Answer, Atomic!BankAdded, Atomic!ReactivateBank, ReactivateBank
<1>4. CASE /\ ~BankRefused(work, r) /\ Answer("ok")
           /\ \E i \in 1..MaxBankRows :
                NextId(work, i) /\ Save(InsertBank(work, i, r.bank, r.parent, Default))
  BY <1>0, <1>2, <1>4 DEF Save, Answer, Atomic!BankAdded, Atomic!InsertBank, InsertBank,
     Atomic!NextId, NextId
<1> QED BY <1>1, <1>3, <1>4 DEF AddBank

LEMMA AddUserCommits ==
  ASSUME TypeOK, work = disk, NEW r \in AddUserRequests, AddUser(r)
  PROVE  (disk' = disk \/ Atomic!UserAdded(r)) /\ todo' = <<>>
<1>0. disk \in Tables /\ r.op = "add_user"
  BY DEF TypeOK, AddUserRequests
<1>1. CASE Raise
  BY <1>1 DEF Raise, NoWrite, Answer
<1>2. ~UserRefused(work, r) => Atomic!SubBanks(disk, r.bank) = {}
  BY DEF UserRefused, Atomic!SubBanks, SubBanks
<1>3. CASE /\ ~UserRefused(work, r) /\ Save(ReactivateAssociation(work, r.user, r.bank))
           /\ Answer("ok")
  BY <1>0, <1>2, <1>3 DEF Save, Answer, Atomic!UserAdded, Atomic!ReactivateAssociation,
     ReactivateAssociation
<1>4. ASSUME ~UserRefused(work, r), RowsAt(work, r.user, r.bank) = {}, ~NewUserRefused(work, r),
             NEW def \in DefaultBanks(work, r.user, r.bank),
             Save(InsertAssociation(work, NewRow(r, def))), Answer("ok")
      PROVE  Atomic!UserAdded(r)
  <2> DEFINE row == NewRow(r, def)
  <2>1. /\ row.user = r.user /\ row.bank = r.bank /\ row.active /\ row.def = def
        /\ row.queues = r.queues /\ row.projects = r.projects
    BY DEF NewRow
  <2>2. def \in {r.bank} \cup {x.def : x \in Atomic!RowsOf(disk, r.user)}
    BY <1>4 DEF DefaultBanks, RowsOf, Atomic!RowsOf
  <2>3. Atomic!RowsAt(disk, r.user, r.bank) = {}
    BY <1>4 DEF RowsAt, Atomic!RowsAt
  <2>4. /\ Atomic!KnownBank(disk, r.bank)
        /\ \A q \in r.queues : Atomic!KnownQueue(disk, q)
        /\ r.projects \subseteq disk.projects
    BY <1>4 DEF NewUserRefused, KnownBank, Atomic!KnownBank, KnownQueue, Atomic!KnownQueue
  <2>5. disk' = InsertAssociation(disk, row)
    BY <1>4 DEF Save
  <2> HIDE DEF row
  <2>6. disk' = Atomic!InsertAssociation(disk, row)
    BY <2>5 DEF InsertAssociation, Atomic!InsertAssociation
  <2>7. row \in disk'.assocs
    BY <1>0, <2>5 DEF InsertAssociation, Tables
  <2> QED BY <1>0, <1>2, <1>4, <2>1, <2>2, <2>3, <2>4, <2>6, <2>7 DEF Atomic!UserAdded
<1>5. Answer("ok") => todo' = <<>>
  BY DEF Answer
<1> QED BY <1>1, <1>3, <1>4, <1>5 DEF AddUser

(* The commands of one transaction.                                        *)
LEMMA ShortCommits ==
  ASSUME TypeOK, work = disk, NEW r \in Requests,
         \/ EditAllUsers(r) \/ AddQueue(r) \/ DeleteQueue(r) \/ AddProject(r) \/ DeleteProject(r)
         \/ EditFactor(r) \/ ResetFactors(r) \/ AddConfig(r) \/ DeleteConfig(r)
         \/ SyncUserids(r) \/ ScrubOldJobs(r) \/ ClearUsage(r) \/ TurnedAway(r)
  PROVE  (disk' = disk \/ Atomic!Committed(r)) /\ todo' = <<>>
<1> USE DEF Short, Save, Write, Raise, NoWrite, Answer, Atomic!Committed
<1>1. CASE EditAllUsers(r)
  <2>1. disk' = disk \/ disk' = SetAllUsers(work, r.bank, r.def, r.queues)
    BY <1>1 DEF EditAllUsers
  <2> QED BY <1>1, <2>1 DEF EditAllUsers, Atomic!AllUsersEdited, Atomic!SetAllUsers, SetAllUsers
<1>2. CASE AddQueue(r) \/ DeleteQueue(r)
  BY <1>2 DEF AddQueue, DeleteQueue, Atomic!QueueOrProjectChanged, Atomic!InsertQueue,
     InsertQueue, Atomic!RemoveQueue, RemoveQueue, Atomic!KnownQueue, KnownQueue
<1>3. CASE AddProject(r) \/ DeleteProject(r)
  BY <1>3 DEF AddProject, DeleteProject, Atomic!QueueOrProjectChanged, Atomic!InsertProject,
     InsertProject, Atomic!RemoveProject, RemoveProject
<1>4. CASE EditFactor(r) \/ ResetFactors(r)
  BY <1>4 DEF EditFactor, ResetFactors, Atomic!WeightsChanged, Atomic!SetWeight, SetWeight,
     Atomic!ResetWeights, ResetWeights
<1>5. CASE AddConfig(r) \/ DeleteConfig(r)
  BY <1>5 DEF AddConfig, DeleteConfig
<1>6. CASE SyncUserids(r) \/ ScrubOldJobs(r) \/ ClearUsage(r) \/ TurnedAway(r)
  BY <1>6 DEF SyncUserids, ScrubOldJobs, ClearUsage, TurnedAway
<1> QED BY <1>1, <1>2, <1>3, <1>4, <1>5, <1>6

LEMMA BeginStarts ==
  ASSUME work = disk, NEW r, NEW tasks, Begin(r, tasks)
  PROVE  cmd' = r /\ disk' = disk /\ work' = disk /\ todo' = tasks
BY DEF Begin, NoWrite

LEMMA DeleteBankStarts ==
  ASSUME TypeOK, work = disk, NEW r \in DeleteBankRequests, DeleteBank(r)
  PROVE  disk' = disk /\ cmd' = r /\ work' = disk /\ DeleteRun(r, disk, disk, todo')
<1> DEFINE one == {r.bank}
           visit == Visits(one, 0, r.force)
           usage == OneOf(UsageTask, r.force)
           f == visit \o usage
<1>0. disk \in Tables /\ r.bank \in Banks /\ r.force \in BOOLEAN
  BY DEF TypeOK, DeleteBankRequests
<1>1. OwnBanks(disk, r, one)
  BY <1>0, DoomedFacts DEF OwnBanks, ToGo
<1>2. visit \in Seq(OwnTask(disk, r))
  <2> HIDE DEF one
  <2>1. 0 \in Nat
    OBVIOUS
  <2> QED BY <1>0, <1>1, <2>1, VisitIsOwn
<1>3. usage \in Seq(OwnTask(disk, r))
  <2>1. UsageTask \in OwnTask(disk, r)
    BY SaveIsTask DEF OwnTask, UsageTask
  <2> QED BY <2>1 DEF OneOf
<1>4. Begin(r, (visit \o usage) \o <<SaveTask>>)
  BY DEF DeleteBank, UsageTask, SaveTask
<1> HIDE DEF visit, usage
<1>5. f \in Seq(OwnTask(disk, r))
  BY <1>2, <1>3
<1>6. Begin(r, ThenSave(f))
  BY <1>4 DEF ThenSave
<1> HIDE DEF f
<1>7. cmd' = r /\ disk' = disk /\ work' = disk /\ todo' = ThenSave(f)
  BY <1>6, BeginStarts
<1>8. Visited(disk, r, disk)
  BY <1>0, NothingVisited
<1> QED BY <1>5, <1>7, <1>8 DEF DeleteRun

LEMMA EditUserTasks ==
  ASSUME NEW r, EditUser(r)
  PROVE  (Idle /\ Raise) \/ Begin(r, FromModify(r))
<1> DEFINE a == OneOf(ModifyTask(r), Modifies(r))
           b == OneOf(DefTask(r), r.def # Keep)
           c == OneOf(UserSharesTask(r), r.shares # Keep)
           d == OneOf(QueuesTask(r), r.queues # Keep)
           e == OneOf(ProjectsTask(r), r.projects # Keep)
<1>1. CASE Idle /\ Raise
  BY <1>1
<1>2. CASE Begin(r, ((((a \o b) \o c) \o d) \o e) \o Last)
  <2>1. /\ a = ModifyStep(r) /\ b = DefStep(r) /\ c = UserSharesStep(r) /\ d = QueuesStep(r)
        /\ e = ProjectsStep(r)
    BY DEF OneOf, ModifyStep, DefStep, UserSharesStep, QueuesStep, ProjectsStep
  <2>2. IsSeq(a) /\ IsSeq(b) /\ IsSeq(c) /\ IsSeq(d) /\ IsSeq(e) /\ IsSeq(Last)
    BY ShortSeqs DEF OneOf
  <2> HIDE DEF a, b, c, d, e
  <2>3. IsSeq(a \o b) /\ IsSeq((a \o b) \o c) /\ IsSeq(((a \o b) \o c) \o d)
    BY <2>2, StepsGrouped
  <2>4. ((((a \o b) \o c) \o d) \o e) \o Last = (((a \o b) \o c) \o d) \o FromProjects(r)
    BY <2>1, <2>2, <2>3, StepsGrouped DEF FromProjects
  <2>5. (((a \o b) \o c) \o d) \o FromProjects(r) = ((a \o b) \o c) \o FromQueues(r)
    BY <2>1, <2>2, <2>3, StepsGrouped, UserSteps DEF FromQueues
  <2>6. ((a \o b) \o c) \o FromQueues(r) = (a \o b) \o FromUserShares(r)
    BY <2>1, <2>2, <2>3, StepsGrouped, UserSteps DEF FromUserShares
  <2>7. (a \o b) \o FromUserShares(r) = FromModify(r)
    BY <2>1, <2>2, <2>3, StepsGrouped, UserSteps DEF FromDef, FromModify
  <2> QED BY <1>2, <2>4, <2>5, <2>6, <2>7
<1> QED BY <1>1, <1>2 DEF EditUser, ModifyTask, DefTask, UserSharesTask, QueuesTask, ProjectsTask,
           Modifies, Last, SaveTask

LEMMA EditUserStarts ==
  ASSUME work = disk, NEW r \in EditUserRequests, EditUser(r)
  PROVE  disk' = disk /\ Started(r)
<1>1. CASE Raise
  BY <1>1 DEF Raise, NoWrite, Answer, Started
<1>2. CASE Begin(r, FromModify(r))
  <2>1. cmd' = r /\ disk' = disk /\ work' = disk /\ todo' = FromModify(r)
    BY <1>2, BeginStarts
  <2> QED BY <2>1 DEF Started, Run, UserRun
<1> QED BY <1>1, <1>2, EditUserTasks

LEMMA OtherStarts ==
  ASSUME work = disk, NEW r \in Requests,
         \/ r \in EditBankRequests /\ EditBank(r)
         \/ r \in EditConfigRequests /\ EditConfig(r)
         \/ r \in PopDbRequests /\ PopulateDb(r)
         \/ r \in DeleteUserRequests /\ DeleteUser(r)
         \/ r \in EditQueueRequests /\ EditQueue(r)
  PROVE  disk' = disk /\ Started(r)
<1>1. CASE r \in EditBankRequests /\ EditBank(r)
  <2> DEFINE a == OneOf(SharesTask(r), r.shares # Keep)
             b == OneOf(ParentTask(r), r.parent # Keep)
  <2>1. a = SharesStep(r) /\ b = ParentStep(r)
    BY DEF OneOf, SharesStep, ParentStep
  <2>2. IsSeq(a) /\ IsSeq(b) /\ IsSeq(Last)
    BY ShortSeqs DEF OneOf
  <2>3. Begin(r, (a \o b) \o Last)
    BY <1>1 DEF EditBank, SharesTask, ParentTask, Last, SaveTask
  <2> HIDE DEF a, b
  <2>4. (a \o b) \o Last = FromShares(r)
    BY <2>1, <2>2, StepsGrouped DEF FromShares, FromParent
  <2>5. cmd' = r /\ disk' = disk /\ work' = disk /\ todo' = FromShares(r)
    BY <2>3, <2>4, BeginStarts
  <2> QED BY <1>1, <2>5 DEF Started, Run, BankRun
<1>2. CASE r \in EditConfigRequests /\ EditConfig(r)
  <2> DEFINE a == KeyStep(r)
             b == OneOf(Key2Task(r), r.key2 # Keep)
             c == OneOf(RebinTask, Rebins(r))
  <2>1. b = Key2Step(r) /\ c = RebinStep(r)
    BY DEF OneOf, Key2Step, RebinStep
  <2>2. IsSeq(a) /\ IsSeq(b) /\ IsSeq(c) /\ IsSeq(Last)
    BY ShortSeqs DEF OneOf, KeyStep
  <2>3. Begin(r, ((a \o b) \o c) \o Last)
    BY <1>2 DEF EditConfig, KeyStep, KeyTask, Key2Task, RebinTask, Rebins, Last, SaveTask
  <2> HIDE DEF b, c
  <2>4. IsSeq(a \o b)
    BY <2>2, StepsGrouped
  <2>5. ((a \o b) \o c) \o Last = (a \o b) \o FromRebin(r)
    BY <2>1, <2>2, <2>4, StepsGrouped DEF FromRebin
  <2>6. (a \o b) \o FromRebin(r) = FromKey(r)
    BY <2>1, <2>2, StepsGrouped, ConfigSteps DEF FromKey2, FromKey
  <2>7. cmd' = r /\ disk' = disk /\ work' = disk /\ todo' = FromKey(r)
    BY <2>3, <2>5, <2>6, BeginStarts
  <2> QED BY <1>2, <2>7 DEF Started, Run, ConfigRun
<1>3. CASE r \in PopDbRequests /\ PopulateDb(r)
  <2>1. <<RowTask(r.row), RowTask(r.row2), SaveTask>> = FromRow(r)
    BY DEF FromRow, FromRow2, RowStep, Last
  <2>2. Begin(r, FromRow(r))
    BY <1>3, <2>1 DEF PopulateDb, RowTask, SaveTask
  <2>3. cmd' = r /\ disk' = disk /\ work' = disk /\ todo' = FromRow(r)
    BY <2>2, BeginStarts
  <2> QED BY <1>3, <2>3 DEF Started, Run, PopulateRun
<1>4. CASE r \in DeleteUserRequests /\ DeleteUser(r)
  <2>1. Begin(r, <<UsersTask(r)>>)
    BY <1>4 DEF DeleteUser, Removals, OneOf, UsersTask
  <2>2. cmd' = r /\ disk' = disk /\ work' = disk /\ todo' = <<UsersTask(r)>>
    BY <2>1, BeginStarts
  <2> QED BY <1>4, <2>2 DEF Started, Run, RemovalRun
<1>5. CASE r \in EditQueueRequests /\ EditQueue(r)
  <2>1. Begin(r, FromRunning(r))
    BY <1>5 DEF EditQueue, OneOf, FromRunning, RunningStep, NodesStep, LimitTask
  <2>2. cmd' = r /\ disk' = disk /\ work' = disk /\ todo' = FromRunning(r)
    BY <2>1, BeginStarts
  <2> QED BY <1>5, <2>2 DEF Started, Run, QueueRun
<1> QED BY <1>1, <1>2, <1>3, <1>4, <1>5

LEMMA ReceiveRuns ==
  ASSUME TypeOK, work = disk, NEW r \in Requests, Receive(r)
  PROVE  (disk' = disk \/ Atomic!Committed(r)) /\ Started(r)
<1>0. r \in Edits
  BY BoundsAssumption
<1>1. CASE AddBank(r)
  <2>1. r \in AddBankRequests
    BY <1>0, <1>1, RequestIs DEF AddBank, Short
  <2> QED BY <1>1, <2>1, AddBankCommits DEF Atomic!Committed, Started
<1>2. CASE AddUser(r)
  <2>1. r \in AddUserRequests
    BY <1>0, <1>2, RequestIs DEF AddUser, Short
  <2> QED BY <1>2, <2>1, AddUserCommits DEF Atomic!Committed, Started
<1>3. CASE DeleteBank(r)
  <2>1. r \in DeleteBankRequests
    BY <1>0, <1>3, RequestIs DEF DeleteBank
  <2> QED BY <1>3, <2>1, DeleteBankStarts DEF Started, Run
<1>4. CASE EditUser(r)
  <2>1. r \in EditUserRequests
    BY <1>0, <1>4, RequestIs DEF EditUser
  <2> QED BY <1>4, <2>1, EditUserStarts
<1>5. CASE EditBank(r) \/ EditConfig(r) \/ PopulateDb(r) \/ DeleteUser(r) \/ EditQueue(r)
  <2>1. \/ r \in EditBankRequests /\ EditBank(r)
        \/ r \in EditConfigRequests /\ EditConfig(r)
        \/ r \in PopDbRequests /\ PopulateDb(r)
        \/ r \in DeleteUserRequests /\ DeleteUser(r)
        \/ r \in EditQueueRequests /\ EditQueue(r)
    BY <1>0, <1>5, RequestIs DEF EditBank, EditConfig, PopulateDb, DeleteUser, EditQueue
  <2> QED BY <2>1, OtherStarts
<1>6. CASE \/ EditAllUsers(r) \/ AddQueue(r) \/ DeleteQueue(r) \/ AddProject(r) \/ DeleteProject(r)
           \/ EditFactor(r) \/ ResetFactors(r) \/ AddConfig(r) \/ DeleteConfig(r)
           \/ SyncUserids(r) \/ ScrubOldJobs(r) \/ ClearUsage(r) \/ TurnedAway(r)
  BY <1>6, ShortCommits DEF Started
<1> QED BY <1>1, <1>2, <1>3, <1>4, <1>5, <1>6 DEF Receive

LEMMA SameTables == Atomic!Tables = Tables
BY DEF Atomic!Tables, Tables, Atomic!BankRow, BankRow, Atomic!AssocRow, AssocRow, Atomic!QueueRow,
       QueueRow

(***************************************************************************)
(* What another process reads of the database changes by whole commands,   *)
(* or whole removals of delete_user and delete_bank, whatever kills,       *)
(* timeouts and other writers come in between: as long as no command is    *)
(* refused half-way and leaves its transaction to the next one, and no     *)
(* edit_user goes on after it has cleared the queues.                      *)
(***************************************************************************)
THEOREM ChangesAreWhole ==
  ResetsComeLast /\ Spec /\ []NothingLeftOpen => WholeCommands
<1> SUFFICES ASSUME ResetsComeLast PROVE Spec /\ []NothingLeftOpen => WholeCommands
  OBVIOUS
<1>1. Init => Underway /\ Atomic!Init
  <2>1. Init => disk = NewTables /\ todo = <<>>
    BY DEF Init, InitWith
  <2> QED BY <2>1, NewTablesType, SameTables DEF Underway, Idle, Atomic!Init
<1>2. TypeOK /\ TypeOK' /\ NothingLeftOpen /\ Underway /\ [Next]_vars
        => Underway' /\ [Atomic!Next]_disk
  <2> SUFFICES ASSUME TypeOK, TypeOK', NothingLeftOpen, Underway, [Next]_vars
               PROVE  Underway' /\ [Atomic!Next]_disk
    OBVIOUS
  <2>1. ASSUME NEW r \in Requests, Receive(r) PROVE Underway' /\ [Atomic!Next]_disk
    <3>1. Idle
      BY <2>1 DEF Receive, AddBank, DeleteBank, EditBank, AddUser, DeleteUser, EditUser,
         EditAllUsers, AddQueue, DeleteQueue, EditQueue, AddProject, DeleteProject, EditFactor,
         ResetFactors, AddConfig, DeleteConfig, EditConfig, PopulateDb, SyncUserids, ScrubOldJobs,
         ClearUsage, TurnedAway, Short, Begin
    <3>2. work = disk
      BY <3>1 DEF NothingLeftOpen
    <3>3. (disk' = disk \/ Atomic!Committed(r)) /\ Started(r)
      BY <2>1, <3>2, ReceiveRuns
    <3>4. [Atomic!Next]_disk
      BY <2>1, <3>3 DEF Atomic!Next
    <3>5. Underway'
      BY <2>1, <3>3 DEF Underway, Started, Idle
    <3> QED BY <3>4, <3>5
  <2>2. CASE Continue
    <3>1. cmd \in Requests /\ Run(cmd, disk, work, todo)
      BY <2>2, StepOfTheHead DEF Underway
    <3>2. /\ disk' = disk \/ Atomic!Committed(cmd)
          /\ todo' = <<>> \/ (cmd' = cmd /\ Run(cmd, disk', work', todo'))
      BY <2>2, <3>1, ContinueRuns
    <3>3. [Atomic!Next]_disk
      BY <3>1, <3>2 DEF Atomic!Next
    <3>4. Underway'
      BY <3>1, <3>2 DEF Underway, Idle
    <3> QED BY <3>3, <3>4
  <2>3. CASE LockedOut \/ Restart
    <3>1. disk' = disk /\ todo' = <<>>
      BY <2>3 DEF LockedOut, Restart, Raise, NoWrite, Answer
    <3> QED BY <3>1 DEF Underway, Idle
  <2>4. CASE OtherLocks \/ OtherUnlocks \/ Tick \/ UNCHANGED vars
    <3>1. disk' = disk /\ work' = work /\ todo' = todo /\ cmd' = cmd
      BY <2>4 DEF OtherLocks, OtherUnlocks, Tick, vars
    <3> QED BY <3>1 DEF Underway, Idle
  <2> QED BY <2>1, <2>2, <2>3, <2>4 DEF Next
<1> QED BY <1>1, <1>2, TablesTypesOK, PTL DEF Spec, WholeCommands, Atomic!Spec
---------------------------------------------------------------------------
(* delete_user and delete_bank, from the request to the answer.            *)

RemovalCommands == {"delete_bank", "delete_user"}
Removing ==
  /\ Idle => before = disk
  /\ cmd.op = "delete_bank" =>
       cmd \in DeleteBankRequests /\ DeleteRun(cmd, disk, work, todo) /\ reply = "none"
  /\ cmd.op = "delete_user" =>
       cmd \in DeleteUserRequests /\ RemovalRun(cmd, disk, work, todo) /\ reply = "none"

(* Whatever the command: it answers, or it goes on and is the same.        *)
GoesOnOrAnswers ==
  \/ todo' = <<>> /\ cmd' = NoCommand /\ before' = disk'
  \/ todo' # <<>> /\ cmd' = cmd /\ before' = before /\ reply' = reply

LEMMA ContinueGoesOn == ASSUME Continue \/ LockedOut PROVE GoesOnOrAnswers
<1>1. ASSUME NEW a, Answer(a) PROVE GoesOnOrAnswers
  BY <1>1 DEF Answer, GoesOnOrAnswers
<1>2. ASSUME NEW tasks, GoOn(tasks) PROVE GoesOnOrAnswers
  BY <1>2 DEF GoOn, Answer, GoesOnOrAnswers
<1>3. (\E a : Answer(a)) \/ (\E tasks : GoOn(tasks))
  <2> USE DEF Raise
  <2>1. CASE VisitBank
    BY <2>1 DEF VisitBank
  <2>2. CASE RecalculateUsage \/ SaveAll
    BY <2>2 DEF RecalculateUsage, SaveAll
  <2>3. CASE EditBankShares \/ EditBankParent
    BY <2>3 DEF EditBankShares, EditBankParent
  <2>4. CASE DisableUser
    BY <2>4 DEF DisableUser
  <2>5. CASE UpdateDefaultBank
    BY <2>5 DEF UpdateDefaultBank
  <2>6. CASE EditModifyQueues \/ EditDefaultBank \/ EditShares
    BY <2>6 DEF EditModifyQueues, EditDefaultBank, EditShares
  <2>7. CASE EditQueues \/ EditProjects
    BY <2>7 DEF EditQueues, EditProjects
  <2>8. CASE EditQueueLimit \/ EditConfigKey
    BY <2>8 DEF EditQueueLimit, EditConfigKey
  <2>9. CASE ReconfigureBins \/ PopulateRow
    BY <2>9 DEF ReconfigureBins, PopulateRow
  <2>10. CASE LockedOut
    BY <2>10 DEF LockedOut
  <2> QED BY <2>1, <2>2, <2>3, <2>4, <2>5, <2>6, <2>7, <2>8, <2>9, <2>10 DEF Continue
<1> QED BY <1>1, <1>2, <1>3

(* A request that comes in is over at once, or the command of what follows. *)
LEMMA ReceiveBegins ==
  ASSUME NEW r, Receive(r)
  PROVE  /\ Idle
         /\ \/ todo' = <<>> /\ cmd' = NoCommand /\ before' = disk'
            \/ cmd' = r /\ before' = before /\ disk' = disk /\ work' = work /\ reply' = "none"
<1>1. ASSUME NEW a, Answer(a) PROVE todo' = <<>> /\ cmd' = NoCommand /\ before' = disk'
  BY <1>1 DEF Answer
<1>2. ASSUME NEW tasks, Begin(r, tasks)
      PROVE  /\ Idle /\ cmd' = r /\ before' = before /\ disk' = disk /\ work' = work
             /\ reply' = "none"
  BY <1>2 DEF Begin, NoWrite
<1>3. (Idle /\ \E a : Answer(a)) \/ (\E tasks : Begin(r, tasks))
  <2> USE DEF Raise, Short
  <2>1. CASE AddBank(r)
    BY <2>1 DEF AddBank
  <2>2. CASE DeleteBank(r) \/ EditBank(r) \/ DeleteUser(r)
    BY <2>2 DEF DeleteBank, EditBank, DeleteUser
  <2>3. CASE AddUser(r)
    BY <2>3 DEF AddUser
  <2>4. CASE EditUser(r) \/ EditAllUsers(r)
    BY <2>4 DEF EditUser, EditAllUsers
  <2>5. CASE EditQueue(r) \/ EditConfig(r) \/ PopulateDb(r)
    BY <2>5 DEF EditQueue, EditConfig, PopulateDb
  <2>6. CASE \/ AddQueue(r) \/ DeleteQueue(r) \/ AddProject(r) \/ DeleteProject(r)
             \/ EditFactor(r) \/ ResetFactors(r) \/ AddConfig(r) \/ DeleteConfig(r)
    BY <2>6 DEF AddQueue, DeleteQueue, AddProject, DeleteProject, EditFactor, ResetFactors,
       AddConfig, DeleteConfig
  <2>7. CASE SyncUserids(r) \/ ScrubOldJobs(r) \/ ClearUsage(r) \/ TurnedAway(r)
    BY <2>7 DEF SyncUserids, ScrubOldJobs, ClearUsage, TurnedAway
  <2> QED BY <2>1, <2>2, <2>3, <2>4, <2>5, <2>6, <2>7 DEF Receive
<1> QED BY <1>1, <1>2, <1>3

LEMMA RemovalsBegin ==
  ASSUME NEW r, Receive(r), cmd' = r
  PROVE  /\ r.op = "delete_bank" => DeleteBank(r)
         /\ r.op = "delete_user" => DeleteUser(r)
<1>1. ASSUME TurnedAway(r) PROVE r.op \notin RemovalCommands
  BY <1>1 DEF TurnedAway, RemovalCommands
<1> QED BY <1>1 DEF RemovalCommands, Receive, Short, AddBank, DeleteBank, EditBank, AddUser,
   DeleteUser, EditUser, EditAllUsers, AddQueue, DeleteQueue, EditQueue, AddProject, DeleteProject,
   EditFactor, ResetFactors, AddConfig, DeleteConfig, EditConfig, PopulateDb, SyncUserids,
   ScrubOldJobs, ClearUsage

LEMMA RemovalHead ==
  ASSUME \/ cmd \in DeleteBankRequests /\ DeleteRun(cmd, disk, work, todo)
         \/ cmd \in DeleteUserRequests /\ RemovalRun(cmd, disk, work, todo)
  PROVE  /\ todo # <<>> /\ IsSeq(todo) /\ IsSeq(Tail(todo))
         /\ Head(todo).do \in {"banks", "users", "usage", "default", "save"}
         /\ cmd.op = "delete_bank" => /\ Head(todo).do = "save" => todo = Last
                                      /\ Head(todo).do # "save" => Tail(todo) # <<>>
         /\ cmd.op = "delete_user" => Head(todo).do \in {"users", "default"} /\ work = disk
<1>1. ASSUME NEW f \in Seq(OwnTask(disk, cmd))
      PROVE  /\ ThenSave(f) # <<>> /\ IsSeq(ThenSave(f)) /\ IsSeq(Tail(ThenSave(f)))
             /\ f = <<>> => ThenSave(f) = Last
             /\ f # <<>> => /\ Tail(ThenSave(f)) # <<>>
                            /\ Head(ThenSave(f)).do \in {"banks", "users", "usage"}
  <2>1. IsSeq(f) /\ IsSeq(ThenSave(f)) /\ ThenSave(f) # <<>>
    BY ShortSeqs, StepsGrouped, ToTheSave DEF IsSeq, ThenSave, Last
  <2>2. CASE f = <<>>
    <3>1. ThenSave(f) = Last /\ Tail(ThenSave(f)) = <<>>
      BY <2>2, ToTheSave DEF ThenSave, Last
    <3> QED BY <2>1, <2>2, <3>1, ShortSeqs
  <2>3. CASE f # <<>>
    <3>1. PICK g \in Seq(OwnTask(disk, cmd)) : g = Tail(f) /\ Tail(ThenSave(f)) = ThenSave(g)
      BY <2>3, ToTheSave
    <3>2. IsSeq(g) /\ IsSeq(ThenSave(g)) /\ ThenSave(g) # <<>>
      BY ShortSeqs, StepsGrouped, ToTheSave DEF IsSeq, ThenSave, Last
    <3>3. Head(ThenSave(f)) = Head(f) /\ Head(f) \in OwnTask(disk, cmd)
      BY <2>3, ToTheSave
    <3>4. Head(ThenSave(f)).do \in {"banks", "users", "usage"}
      BY <3>3 DEF OwnTask
    <3> QED BY <2>1, <2>3, <3>1, <3>2, <3>4
  <2> QED BY <2>2, <2>3
<1>2. CASE cmd \in DeleteBankRequests /\ DeleteRun(cmd, disk, work, todo)
  <2>0. cmd.op = "delete_bank"
    BY <1>2 DEF DeleteBankRequests
  <2>1. ASSUME NEW f \in Seq(OwnTask(disk, cmd)), f = <<>>, todo = ThenSave(f)
        PROVE  /\ todo # <<>> /\ IsSeq(todo) /\ IsSeq(Tail(todo)) /\ todo = Last
               /\ Head(todo).do = "save"
    <3>1. todo # <<>> /\ IsSeq(todo) /\ IsSeq(Tail(todo)) /\ todo = Last
      BY <1>1, <2>1
    <3>2. Head(Last).do = "save"
      BY DEF Last, SaveTask
    <3> QED BY <3>1, <3>2
  <2>2. ASSUME NEW f \in Seq(OwnTask(disk, cmd)), f # <<>>, todo = ThenSave(f)
        PROVE  /\ todo # <<>> /\ IsSeq(todo) /\ IsSeq(Tail(todo)) /\ Tail(todo) # <<>>
               /\ Head(todo).do \in {"banks", "users", "usage"}
    BY <1>1, <2>2
  <2>3. ASSUME NEW f \in Seq(OwnTask(disk, cmd)), NEW u, NEW b,
               todo = <<DefaultTask(u, b)>> \o ThenSave(f)
        PROVE  /\ todo # <<>> /\ IsSeq(todo) /\ IsSeq(Tail(todo)) /\ Tail(todo) # <<>>
               /\ Head(todo).do = "default"
    <3>1. IsSeq(ThenSave(f)) /\ ThenSave(f) # <<>>
      BY <1>1
    <3>2. /\ todo # <<>> /\ Head(todo) = DefaultTask(u, b) /\ Tail(todo) = ThenSave(f)
          /\ IsSeq(todo)
      BY <2>3, <3>1, Stage
    <3>3. DefaultTask(u, b).do = "default"
      BY DEF DefaultTask
    <3> QED BY <3>1, <3>2, <3>3
  <2>4. "save" \notin {"banks", "users", "usage"} /\ "save" # "default"
    OBVIOUS
  <2>5. PICK f \in Seq(OwnTask(disk, cmd)) :
          todo = ThenSave(f) \/ \E u, b : todo = <<DefaultTask(u, b)>> \o ThenSave(f)
    BY <1>2 DEF DeleteRun
  <2>6. CASE todo = ThenSave(f) /\ f = <<>>
    BY <2>0, <2>1, <2>6
  <2>7. CASE todo = ThenSave(f) /\ f # <<>>
    BY <2>0, <2>2, <2>4, <2>7
  <2>8. CASE \E u, b : todo = <<DefaultTask(u, b)>> \o ThenSave(f)
    BY <2>0, <2>3, <2>4, <2>8
  <2> QED BY <2>5, <2>6, <2>7, <2>8
<1>3. CASE cmd \in DeleteUserRequests /\ RemovalRun(cmd, disk, work, todo)
  <2>1. cmd.op = "delete_user"
    BY <1>3 DEF DeleteUserRequests
  <2>2. PICK t : todo = <<t>> /\ t.do \in {"users", "default"} /\ work = disk
    BY <1>3 DEF RemovalRun, UsersTask, DefaultTask
  <2>3. todo # <<>> /\ IsSeq(todo) /\ Tail(todo) = <<>> /\ Head(todo) = t
    BY <2>2, ShortSeqs
  <2> QED BY <2>1, <2>2, <2>3, ShortSeqs
<1> QED BY <1>2, <1>3

LEMMA NextKeepsRemoving ==
  ASSUME TypeOK, TypeOK', NothingLeftOpen, Removing, [Next]_vars
  PROVE  Removing'
<1>n. NoCommand.op \notin RemovalCommands
  BY DEF NoCommand, RemovalCommands
<1>1. ASSUME NEW r \in Requests, Receive(r) PROVE Removing'
  <2>1. /\ Idle
        /\ \/ todo' = <<>> /\ cmd' = NoCommand /\ before' = disk'
           \/ cmd' = r /\ before' = before /\ disk' = disk /\ work' = work /\ reply' = "none"
    BY <1>1, ReceiveBegins
  <2>2. work = disk /\ before = disk
    BY <2>1 DEF NothingLeftOpen, Removing
  <2>3. CASE todo' = <<>> /\ cmd' = NoCommand /\ before' = disk'
    BY <1>n, <2>3 DEF Removing, Idle, RemovalCommands
  <2>4. CASE cmd' = r /\ before' = before /\ disk' = disk /\ work' = work /\ reply' = "none"
    <3>0. r \in Edits /\ before' = disk' /\ work' = disk'
      BY <2>2, <2>4, BoundsAssumption
    <3>1. ASSUME r.op = "delete_bank"
          PROVE  r \in DeleteBankRequests /\ DeleteRun(r, disk', work', todo')
      <4>1. r \in DeleteBankRequests /\ DeleteBank(r)
        BY <1>1, <2>4, <3>0, <3>1, RequestIs, RemovalsBegin
      <4> QED BY <2>2, <2>4, <4>1, DeleteBankStarts
    <3>2. ASSUME r.op = "delete_user"
          PROVE  r \in DeleteUserRequests /\ RemovalRun(r, disk', work', todo')
      <4>1. r \in DeleteUserRequests /\ DeleteUser(r)
        BY <1>1, <2>4, <3>0, <3>2, RequestIs, RemovalsBegin
      <4>2. todo' = <<UsersTask(r)>>
        BY <4>1 DEF DeleteUser, Removals, OneOf, UsersTask, Begin
      <4> QED BY <3>0, <4>1, <4>2 DEF RemovalRun
    <3> QED BY <2>4, <3>0, <3>1, <3>2 DEF Removing
  <2> QED BY <2>1, <2>3, <2>4
<1>2. CASE Continue
  <2>1. GoesOnOrAnswers
    BY <1>2, ContinueGoesOn
  <2>2. CASE todo' = <<>> /\ cmd' = NoCommand /\ before' = disk'
    BY <1>n, <2>2 DEF Removing, Idle, RemovalCommands
  <2>3. CASE todo' # <<>> /\ cmd' = cmd /\ before' = before /\ reply' = reply
    <3>1. ASSUME cmd.op = "delete_bank" PROVE DeleteRun(cmd, disk', work', todo')
      BY <1>2, <2>3, <3>1, DeleteRuns DEF Removing, GoesOnOrEnds
    <3>2. ASSUME cmd.op = "delete_user" PROVE RemovalRun(cmd, disk', work', todo')
      BY <1>2, <2>3, <3>2, DeleteUserRuns DEF Removing
    <3> QED BY <2>3, <3>1, <3>2 DEF Removing, Idle
  <2> QED BY <2>1, <2>2, <2>3 DEF GoesOnOrAnswers
<1>3. CASE LockedOut \/ Restart
  BY <1>n, <1>3 DEF LockedOut, Restart, Raise, NoWrite, Answer, Removing, Idle, RemovalCommands
<1>4. CASE OtherLocks \/ OtherUnlocks \/ Tick \/ UNCHANGED vars
  <2>1. UNCHANGED <<disk, work, todo, cmd, reply, before>>
    BY <1>4 DEF OtherLocks, OtherUnlocks, Tick, vars
  <2> QED BY <2>1 DEF Removing, Idle
<1> QED BY <1>1, <1>2, <1>3, <1>4 DEF Next

LEMMA RemovalsRun == Spec /\ []NothingLeftOpen => []Removing
<1>1. Init => Removing
  BY DEF Init, InitWith, Removing, NoCommand, Idle
<1>2. TypeOK /\ TypeOK' /\ NothingLeftOpen /\ Removing /\ [Next]_vars => Removing'
  BY NextKeepsRemoving
<1> QED BY <1>1, <1>2, TablesTypesOK, PTL DEF Spec
---------------------------------------------------------------------------
(* The default banks, from a removal to its answer.                        *)

LEMMA RemovedRows ==
  ASSUME NEW d \in Tables, NEW u, NEW b, NEW force,
         NEW e, e = RemoveAssociation(d, u, b, force)
  PROVE  /\ e.banks = d.banks
         /\ \A x \in e.assocs :
              \E y \in d.assocs :
                /\ y.user = x.user /\ y.bank = x.bank /\ y.def = x.def
                /\ x.active => y.active /\ ~(x.user = u /\ x.bank = b)
         /\ \A y \in d.assocs : ~(y.user = u /\ y.bank = b) => y \in e.assocs
<1>0. d.assocs \in SUBSET AssocRow
  BY DEF Tables
<1>1. /\ e.banks = d.banks
      /\ e.assocs = IF force THEN {x \in d.assocs : ~(x.user = u /\ x.bank = b)}
                    ELSE {IF x.user = u /\ x.bank = b
                            THEN [x EXCEPT !.active = FALSE] ELSE x : x \in d.assocs}
  BY DEF RemoveAssociation, Tables
<1>2. ASSUME NEW y \in d.assocs
      PROVE  LET x == [y EXCEPT !.active = FALSE]
             IN y.user = x.user /\ y.bank = x.bank /\ y.def = x.def /\ ~x.active
  BY <1>0 DEF AssocRow
<1>3. CASE force
  BY <1>1, <1>3
<1>4. CASE ~force
  <2>1. ASSUME NEW x \in e.assocs
        PROVE  \E y \in d.assocs :
                 /\ y.user = x.user /\ y.bank = x.bank /\ y.def = x.def
                 /\ x.active => y.active /\ ~(x.user = u /\ x.bank = b)
    <3>1. PICK y \in d.assocs :
            x = IF y.user = u /\ y.bank = b THEN [y EXCEPT !.active = FALSE] ELSE y
      BY <1>1, <1>4
    <3>2. CASE y.user = u /\ y.bank = b
      BY <1>2, <3>1, <3>2
    <3>3. CASE ~(y.user = u /\ y.bank = b)
      BY <3>1, <3>3
    <3> QED BY <3>2, <3>3
  <2>2. \A y \in d.assocs : ~(y.user = u /\ y.bank = b) => y \in e.assocs
    BY <1>1, <1>4
  <2> QED BY <1>1, <2>1, <2>2
<1> QED BY <1>3, <1>4

LEMMA MovedRows ==
  ASSUME NEW d \in Tables, NEW u, NEW new, NEW e, e = SetDefaultBank(d, u, Keep, new)
  PROVE  /\ e.banks = d.banks
         /\ \A x \in e.assocs :
              \E y \in d.assocs :
                /\ y.user = x.user /\ y.bank = x.bank /\ (x.active => y.active)
                /\ x.user = u => x.def = new
                /\ x.user # u => x = y
         /\ \A y \in d.assocs :
              \E x \in e.assocs :
                y.user = x.user /\ y.bank = x.bank /\ (y.active => x.active) /\ (x.user # u => x = y)
<1>0. d.assocs \in SUBSET AssocRow
  BY DEF Tables
<1>1. /\ e.banks = d.banks
      /\ e.assocs = {IF x.user = u THEN [x EXCEPT !.def = new] ELSE x : x \in d.assocs}
  BY DEF SetDefaultBank, Chosen, Tables
<1>2. ASSUME NEW y \in d.assocs
      PROVE  LET x == [y EXCEPT !.def = new]
             IN y.user = x.user /\ y.bank = x.bank /\ (x.active <=> y.active) /\ x.def = new
  BY <1>0 DEF AssocRow
<1>3. ASSUME NEW x \in e.assocs
      PROVE  \E y \in d.assocs :
               /\ y.user = x.user /\ y.bank = x.bank /\ (x.active => y.active)
               /\ x.user = u => x.def = new
               /\ x.user # u => x = y
  <2>1. PICK y \in d.assocs : x = IF y.user = u THEN [y EXCEPT !.def = new] ELSE y
    BY <1>1
  <2>2. CASE y.user = u
    BY <1>2, <2>1, <2>2
  <2>3. CASE y.user # u
    BY <2>1, <2>3
  <2> QED BY <2>2, <2>3
<1>4. ASSUME NEW y \in d.assocs
      PROVE  \E x \in e.assocs :
               y.user = x.user /\ y.bank = x.bank /\ (y.active => x.active) /\ (x.user # u => x = y)
  <2>1. CASE y.user = u
    BY <1>1, <1>2, <2>1
  <2>2. CASE y.user # u
    BY <1>1, <2>2
  <2> QED BY <2>1, <2>2
<1> QED BY <1>1, <1>3, <1>4

(* A user with an active association has an oldest one.                    *)
LEMMA SomeAreOldest ==
  ASSUME NEW d \in Tables, NEW u, NextDefaults(d, u) = {}
  PROVE  \A x \in RowsOf(d, u) : ~x.active
<1> DEFINE active == {x \in RowsOf(d, u) : x.active}
           G == {n \in Nat : \A x \in active : x.created > n}
<1>0. \A x \in active : x.created \in Nat
  BY DEF Tables, AssocRow, RowsOf
<1>1. \A y \in active : \E z \in active : ~(y.created <= z.created)
  BY DEF NextDefaults
<1> HIDE DEF active
<1>2. \A y \in active : \E z \in active : z.created < y.created
  BY <1>0, <1>1
<1>3. 0 \in G
  <2>1. ASSUME NEW y \in active PROVE y.created > 0
    <3>1. PICK z \in active : z.created < y.created
      BY <1>2
    <3> QED BY <1>0, <3>1
  <2> QED BY <2>1
<1>4. ASSUME NEW n \in Nat, n \in G PROVE n + 1 \in G
  <2>1. ASSUME NEW y \in active PROVE y.created > n + 1
    <3>1. PICK z \in active : z.created < y.created
      BY <1>2
    <3>2. z.created > n
      BY <1>4
    <3> QED BY <1>0, <3>1, <3>2
  <2> QED BY <2>1
<1>5. Nat \subseteq G
  <2> HIDE DEF G
  <2> QED BY <1>3, <1>4, NatSetInduction
<1>6. active = {}
  <2> SUFFICES ASSUME NEW x \in active PROVE FALSE
    OBVIOUS
  <2>1. x.created > x.created /\ x.created \in Nat
    BY <1>0, <1>5
  <2> QED BY <2>1
<1> QED BY <1>6 DEF active

(* A default bank that was active when the command began is active, or the *)
(* user has nothing active left, or what comes next is to look for another *)
(* one.                                                                    *)
NothingActive(w, u) == \A x \in RowsOf(w, u) : ~x.active
NextToMove(w, s, u) ==
  \E b : s # <<>> /\ Head(s) = DefaultTask(u, b) /\ \A x \in RowsOf(w, u) : x.def = b
Follows(past, w, s, u) ==
  DefaultActive(past, u) => DefaultActive(w, u) \/ NothingActive(w, u) \/ NextToMove(w, s, u)

LEMMA FollowsSameRows ==
  ASSUME NEW w, NEW v, NEW s, NEW x, NEW past, NEW u, RowsOf(v, u) = RowsOf(w, u),
         ~NextToMove(w, s, u), Follows(past, w, s, u)
  PROVE  Follows(past, v, x, u)
<1>1. \A b : RowsAt(v, u, b) = {y \in RowsOf(v, u) : y.bank = b}
  BY DEF RowsAt, RowsOf
<1>2. \A b : RowsAt(w, u, b) = {y \in RowsOf(w, u) : y.bank = b}
  BY DEF RowsAt, RowsOf
<1>3. \A b : RowsAt(v, u, b) = RowsAt(w, u, b)
  BY <1>1, <1>2
<1> QED BY <1>3 DEF Follows, DefaultActive, NothingActive, AssociationIsActive

LEMMA RemovalFollows ==
  ASSUME NEW w \in Tables, Agreed(w), NEW past, NEW s, NEW u, NEW b, NEW force,
         NEW v, v = RemoveAssociation(w, u, b, force),
         NEW next, next # <<>>, Head(next) = DefaultTask(u, b),
         ~NextToMove(w, s, u), Follows(past, w, s, u)
  PROVE  Follows(past, v, next, u)
<1>0. /\ \A x \in v.assocs :
           \E y \in w.assocs : /\ y.user = x.user /\ y.bank = x.bank /\ y.def = x.def
                               /\ x.active => y.active /\ ~(x.user = u /\ x.bank = b)
      /\ \A y \in w.assocs : ~(y.user = u /\ y.bank = b) => y \in v.assocs
  BY RemovedRows
<1>1. CASE NothingActive(w, u)
  BY <1>0, <1>1 DEF NothingActive, Follows, RowsOf
<1>2. CASE DefaultActive(w, u) /\ \A y \in RowsOf(w, u) : y.def = b
  <2>1. \A x \in RowsOf(v, u) : x.def = b
    BY <1>0, <1>2 DEF RowsOf
  <2> QED BY <2>1 DEF Follows, NextToMove
<1>3. ASSUME DefaultActive(w, u), NEW y \in RowsOf(w, u), y.def # b
      PROVE  DefaultActive(v, u)
  <2>1. PICK z \in w.assocs : z.user = u /\ z.bank = y.def /\ z.active
    BY <1>3 DEF DefaultActive, AssociationIsActive, RowsAt
  <2>2. z \in v.assocs
    BY <1>0, <1>3, <2>1
  <2>3. \A x \in RowsOf(v, u) : x.def = y.def
    BY <1>0, <1>3 DEF RowsOf, Agreed
  <2> QED BY <2>1, <2>2, <2>3 DEF DefaultActive, AssociationIsActive, RowsAt
<1> QED BY <1>1, <1>2, <1>3 DEF Follows

LEMMA MoveFollows ==
  ASSUME NEW w \in Tables, NEW u, NEW new \in NextDefaults(w, u),
         NEW v, v = SetDefaultBank(w, u, Keep, new)
  PROVE  DefaultActive(v, u)
<1>1. PICK y \in w.assocs : y.user = u /\ y.active /\ y.bank = new
  BY DEF NextDefaults, RowsOf
<1>2. /\ \A x \in v.assocs : x.user = u => x.def = new
      /\ \E x \in v.assocs : x.user = u /\ x.bank = new /\ x.active
  BY <1>1, MovedRows
<1> QED BY <1>2 DEF DefaultActive, AssociationIsActive, RowsAt, RowsOf

LEMMA OtherRowsStay ==
  ASSUME NEW w \in Tables, NEW u, NEW v, NEW x, NEW b, NEW force, u # x,
         \/ v = RemoveAssociation(w, x, b, force)
         \/ v = SetDefaultBank(w, x, Keep, b)
  PROVE  RowsOf(v, u) = RowsOf(w, u)
<1>1. CASE v = RemoveAssociation(w, x, b, force)
  BY <1>1 DEF RemoveAssociation, RowsOf, Tables, AssocRow
<1>2. CASE v = SetDefaultBank(w, x, Keep, b)
  BY <1>2, MovedRows DEF RowsOf
<1> QED BY <1>1, <1>2

(* A step of a removal: the task at the head says which.                   *)
LEMMA RemovalStep ==
  ASSUME TypeOK, Removing, cmd.op \in RemovalCommands, Continue
  PROVE  /\ todo # <<>> /\ IsSeq(todo) /\ IsSeq(Tail(todo)) /\ Head(todo) \in Task
         /\ reply = "none"
         /\ \/ Head(todo).do = "banks" /\ VisitBank
            \/ Head(todo).do = "users" /\ DisableUser
            \/ Head(todo).do = "usage" /\ RecalculateUsage
            \/ Head(todo).do = "default" /\ UpdateDefaultBank
            \/ Head(todo).do = "save" /\ SaveAll
         /\ cmd.op = "delete_bank" => /\ Head(todo).do = "save" => todo = Last
                                      /\ Head(todo).do # "save" => Tail(todo) # <<>>
         /\ cmd.op = "delete_user" => Head(todo).do \in {"users", "default"} /\ work = disk
<1>1. \/ cmd \in DeleteBankRequests /\ DeleteRun(cmd, disk, work, todo)
      \/ cmd \in DeleteUserRequests /\ RemovalRun(cmd, disk, work, todo)
  BY DEF Removing, RemovalCommands
<1>2. /\ todo # <<>> /\ IsSeq(todo) /\ IsSeq(Tail(todo))
      /\ Head(todo).do \in {"banks", "users", "usage", "default", "save"}
      /\ cmd.op = "delete_bank" => /\ Head(todo).do = "save" => todo = Last
                                   /\ Head(todo).do # "save" => Tail(todo) # <<>>
      /\ cmd.op = "delete_user" => Head(todo).do \in {"users", "default"} /\ work = disk
  BY <1>1, RemovalHead
<1>3. reply = "none" /\ Head(todo) \in Task
  BY <1>2, HeadIsTask DEF Removing, RemovalCommands, Idle
<1> QED BY <1>2, <1>3, StepOfTheHead

LEMMA VisitKeepsRows ==
  ASSUME work \in Tables, VisitBank \/ RecalculateUsage \/ SaveAll
  PROVE  work'.assocs = work.assocs
<1>1. CASE VisitBank
  <2>1. PICK b : work' = RemoveBank(work, b, Head(todo).force)
    BY <1>1 DEF VisitBank, Write
  <2> QED BY <2>1 DEF RemoveBank, Tables
<1>2. CASE RecalculateUsage
  BY <1>2 DEF RecalculateUsage, Write, Raise, NoWrite
<1>3. CASE SaveAll
  BY <1>3 DEF SaveAll, Save, NoWrite
<1> QED BY <1>1, <1>2, <1>3

LEMMA NextInLine ==
  ASSUME NEW t, NEW more, GoOn(<<t>> \o more), IsSeq(more), IsSeq(Tail(todo))
  PROVE  todo' # <<>> /\ Head(todo') = t
<1>2. (<<t>> \o more) \o Tail(todo) = <<t>> \o (more \o Tail(todo)) /\ IsSeq(more \o Tail(todo))
  <2>1. PICK A, B : more \in Seq(A) /\ Tail(todo) \in Seq(B)
    BY DEF IsSeq
  <2>2. PICK S : S = A \cup B \cup {t}
    OBVIOUS
  <2>3. <<t>> \in Seq(S) /\ more \in Seq(S) /\ Tail(todo) \in Seq(S)
    BY <2>1, <2>2
  <2>4. /\ (<<t>> \o more) \o Tail(todo) = <<t>> \o (more \o Tail(todo))
        /\ more \o Tail(todo) \in Seq(S)
    BY <2>3, Regrouped
  <2> QED BY <2>4 DEF IsSeq
<1> DEFINE rest == more \o Tail(todo)
<1>3. todo' = <<t>> \o rest \/ (<<t>> \o rest = <<>>)
  BY <1>2 DEF GoOn
<1>4. IsSeq(rest)
  BY <1>2
<1> HIDE DEF rest
<1>5. <<t>> \o rest # <<>> /\ Head(<<t>> \o rest) = t
  BY <1>4, Stage
<1> QED BY <1>3, <1>5

LEMMA StepFollows ==
  ASSUME TypeOK, Removing, cmd.op \in RemovalCommands, Continue, Agreed(work), NEW u \in Users,
         Follows(before, work, todo, u)
  PROVE  Follows(before, work', todo', u)
<1>0. work \in Tables
  BY DEF TypeOK
<1>1. /\ todo # <<>> /\ IsSeq(Tail(todo)) /\ Head(todo) \in Task
      /\ \/ Head(todo).do = "banks" /\ VisitBank
         \/ Head(todo).do = "users" /\ DisableUser
         \/ Head(todo).do = "usage" /\ RecalculateUsage
         \/ Head(todo).do = "default" /\ UpdateDefaultBank
         \/ Head(todo).do = "save" /\ SaveAll
  BY RemovalStep
<1>2. ASSUME NextToMove(work, todo, u) PROVE Head(todo).do = "default" /\ Head(todo).user = u
  BY <1>2 DEF NextToMove, DefaultTask
<1>3. CASE Head(todo).do # "default" /\ (VisitBank \/ RecalculateUsage \/ SaveAll)
  <2>1. RowsOf(work', u) = RowsOf(work, u)
    BY <1>0, <1>3, VisitKeepsRows DEF RowsOf
  <2> QED BY <1>2, <1>3, <2>1, FollowsSameRows
<1>4. CASE Head(todo).do # "default" /\ DisableUser
  <2> DEFINE t == Head(todo)
  <2>1. PICK x \in t.names :
          /\ Save(RemoveAssociation(work, x, t.bank, t.force))
          /\ GoOn(<<[do |-> "default", user |-> x, bank |-> t.bank]>>
                    \o Removals(t.names \ {x}, t.bank, t.force))
    BY <1>4 DEF DisableUser
  <2> DEFINE more == Removals(t.names \ {x}, t.bank, t.force)
  <2>2. IsSeq(more)
    <3>1. \A v : IsSeq(<<v>>)
      BY ShortSeqs
    <3> QED BY <3>1, ShortSeqs DEF Removals, OneOf
  <2>3. GoOn(<<DefaultTask(x, t.bank)>> \o more)
    BY <2>1 DEF DefaultTask
  <2> HIDE DEF more
  <2>4. todo' # <<>> /\ Head(todo') = DefaultTask(x, t.bank)
    BY <1>1, <2>2, <2>3, NextInLine
  <2>5. work' = RemoveAssociation(work, x, t.bank, t.force)
    BY <2>1 DEF Save
  <2> HIDE DEF t
  <2>6. CASE x = u
    BY <1>0, <1>2, <1>4, <2>4, <2>5, <2>6, RemovalFollows
  <2>7. CASE x # u
    <3>1. RowsOf(work', u) = RowsOf(work, u)
      BY <1>0, <2>5, <2>7, OtherRowsStay
    <3> QED BY <1>2, <1>4, <3>1, FollowsSameRows
  <2> QED BY <2>6, <2>7
<1>5. CASE UpdateDefaultBank
  <2> DEFINE t == Head(todo)
  <2>1. ASSUME DefaultMayMove(t), NEW new \in NextDefaults(work, t.user),
               Save(SetDefaultBank(work, t.user, Keep, new))
        PROVE  Follows(before, work', todo', u)
    <3>1. work' = SetDefaultBank(work, t.user, Keep, new)
      BY <2>1 DEF Save
    <3>2. CASE t.user = u
      BY <1>0, <2>1, <3>1, <3>2, MoveFollows DEF Follows
    <3>3. CASE t.user # u
      <4>1. RowsOf(work', u) = RowsOf(work, u)
        BY <1>0, <3>1, <3>3, OtherRowsStay
      <4> QED BY <1>2, <3>3, <4>1, FollowsSameRows
    <3> QED BY <3>2, <3>3
  <2>2. CASE DefaultMayStay(t) /\ NoWrite
    <3>1. work' = work
      BY <2>2 DEF NoWrite
    <3>2. CASE ~NextToMove(work, todo, u)
      BY <3>1, <3>2, FollowsSameRows
    <3>3. ASSUME NEW b, t = DefaultTask(u, b), \A x \in RowsOf(work, u) : x.def = b
          PROVE  NothingActive(work, u)
      <4>1. t.user = u /\ t.bank = b
        BY <3>3 DEF DefaultTask
      <4>2. RowsOf(work, u) = {} \/ NextDefaults(work, u) = {}
        BY <2>2, <3>3, <4>1 DEF DefaultMayStay
      <4> QED BY <1>0, <4>2, SomeAreOldest DEF NothingActive
    <3>4. NextToMove(work, todo, u) => NothingActive(work, u)
      BY <3>3 DEF NextToMove
    <3> QED BY <3>1, <3>2, <3>4 DEF Follows
  <2> QED BY <1>5, <2>1, <2>2 DEF UpdateDefaultBank
<1> QED BY <1>1, <1>3, <1>4, <1>5

(* A removal that answers with success has committed what its connection   *)
(* saw; a delete_bank has then nothing left to visit or to remove.         *)
LEMMA RemovalAnswers ==
  ASSUME TypeOK, Removing, CleanUnlessLocked, cmd.op \in RemovalCommands, [Next]_vars,
         reply' = "ok"
  PROVE  /\ Continue /\ disk' = work' /\ todo' = <<>>
         /\ cmd.op = "delete_bank" => todo = Last /\ work' = work
<1>0. ~Idle /\ reply = "none"
  <2>1. \/ cmd \in DeleteBankRequests /\ DeleteRun(cmd, disk, work, todo)
        \/ cmd \in DeleteUserRequests /\ RemovalRun(cmd, disk, work, todo)
    BY DEF Removing, RemovalCommands
  <2> QED BY <2>1, RemovalHead DEF Removing, RemovalCommands, Idle
<1>1. ~\E r \in Requests : Receive(r)
  BY <1>0, ReceiveBegins
<1>2. ~(LockedOut \/ Restart)
  BY DEF LockedOut, Restart, Raise, Answer
<1>3. ~(OtherLocks \/ OtherUnlocks \/ Tick \/ UNCHANGED vars)
  BY <1>0 DEF OtherLocks, OtherUnlocks, Tick, vars
<1>4. Continue
  BY <1>1, <1>2, <1>3 DEF Next
<1>5. todo' = <<>>
  BY <1>0, <1>4, ContinueGoesOn DEF GoesOnOrAnswers
<1>6. /\ IsSeq(Tail(todo))
      /\ \/ Head(todo).do = "banks" /\ VisitBank
         \/ Head(todo).do = "users" /\ DisableUser
         \/ Head(todo).do = "usage" /\ RecalculateUsage
         \/ Head(todo).do = "default" /\ UpdateDefaultBank
         \/ Head(todo).do = "save" /\ SaveAll
      /\ cmd.op = "delete_bank" => /\ Head(todo).do = "save" => todo = Last
                                   /\ Head(todo).do # "save" => Tail(todo) # <<>>
      /\ cmd.op = "delete_user" => Head(todo).do \in {"users", "default"} /\ work = disk
  BY <1>4, RemovalStep
<1>7. CASE cmd.op = "delete_user"
  <2>1. DisableUser \/ UpdateDefaultBank
    BY <1>6, <1>7
  <2>2. (NoWrite /\ work = disk) \/ \E d : Save(d)
    <3>1. CASE DisableUser
      BY <3>1 DEF DisableUser
    <3>2. CASE UpdateDefaultBank
      BY <1>6, <1>7, <3>2 DEF UpdateDefaultBank
    <3> QED BY <2>1, <3>1, <3>2
  <2>3. disk' = work'
    BY <2>2 DEF Save, NoWrite
  <2> QED BY <1>4, <1>5, <1>7, <2>3
<1>8. CASE cmd.op = "delete_bank"
  <2>1. ASSUME NEW tasks, IsSeq(tasks), GoOn(tasks), Tail(todo) # <<>> PROVE FALSE
    <3>1. tasks \o Tail(todo) = <<>>
      BY <1>5, <2>1 DEF GoOn
    <3>2. PICK A, B : tasks \in Seq(A) /\ Tail(todo) \in Seq(B)
      BY <1>6, <2>1 DEF IsSeq
    <3>3. tasks \o Tail(todo) # <<>>
      <4>1. PICK S : S = A \cup B
        OBVIOUS
      <4>2. tasks \in Seq(S) /\ Tail(todo) \in Seq(S)
        BY <3>2, <4>1
      <4> QED BY <2>1, <4>2
    <3> QED BY <3>1, <3>3
  <2>2. Head(todo).do = "save" /\ SaveAll
    <3>1. \A names, n, force, b : /\ IsSeq(Visits(names, n, force))
                                  /\ IsSeq(Removals(names, b, force))
      <4>1. \A v : IsSeq(<<v>>)
        BY ShortSeqs
      <4> QED BY <4>1, ShortSeqs DEF Visits, Removals, OneOf
    <3>2. ~Answer("error")
      BY DEF Answer
    <3>3. ASSUME VisitBank, Tail(todo) # <<>> PROVE FALSE
      <4>1. PICK a, b : GoOn(a \o b) /\ IsSeq(a) /\ IsSeq(b)
        BY <3>1, <3>2, <3>3 DEF VisitBank
      <4> QED BY <2>1, <3>3, <4>1, StepsGrouped
    <3>4. ASSUME DisableUser, Tail(todo) # <<>> PROVE FALSE
      <4>1. PICK v, b : GoOn(<<v>> \o b) /\ IsSeq(b)
        BY <3>1, <3>4 DEF DisableUser
      <4> QED BY <1>5, <1>6, <4>1, NextInLine
    <3>5. ASSUME RecalculateUsage \/ UpdateDefaultBank, Tail(todo) # <<>> PROVE FALSE
      <4>1. GoOn(<<>>)
        BY <3>2, <3>5 DEF RecalculateUsage, UpdateDefaultBank, Raise
      <4> QED BY <2>1, <3>5, <4>1, ShortSeqs
    <3> QED BY <1>6, <1>8, <3>3, <3>4, <3>5
  <2>3. disk' = work' /\ work' = work
    BY <2>2 DEF SaveAll, Save, NoWrite, CleanUnlessLocked
  <2> QED BY <1>4, <1>5, <1>6, <1>8, <2>2, <2>3
<1> QED BY <1>7, <1>8 DEF RemovalCommands

(* The invariant, and the theorem.                                         *)
DefaultsFollowed ==
  cmd.op \in RemovalCommands => \A u \in Users : Follows(before, work, todo, u)

LEMMA NextKeepsDefaultsFollowed ==
  ASSUME TypeOK, NothingLeftOpen, Removing, OneDefaultBank, DefaultsFollowed, [Next]_vars
  PROVE  DefaultsFollowed'
<1>n. NoCommand.op \notin RemovalCommands
  BY DEF NoCommand, RemovalCommands
<1>1. ASSUME NEW r \in Requests, Receive(r) PROVE DefaultsFollowed'
  <2>1. /\ Idle
        /\ \/ todo' = <<>> /\ cmd' = NoCommand /\ before' = disk'
           \/ cmd' = r /\ before' = before /\ disk' = disk /\ work' = work /\ reply' = "none"
    BY <1>1, ReceiveBegins
  <2>2. CASE cmd' = NoCommand
    BY <1>n, <2>2 DEF DefaultsFollowed
  <2>3. CASE before' = before /\ work' = work
    <3>1. work' = before'
      BY <2>1, <2>3 DEF NothingLeftOpen, Removing
    <3> QED BY <3>1 DEF DefaultsFollowed, Follows
  <2> QED BY <2>1, <2>2, <2>3
<1>2. CASE Continue
  <2>1. GoesOnOrAnswers
    BY <1>2, ContinueGoesOn
  <2>2. CASE cmd' = NoCommand
    BY <1>n, <2>2 DEF DefaultsFollowed
  <2>3. CASE cmd' = cmd /\ before' = before
    <3> SUFFICES ASSUME cmd.op \in RemovalCommands, NEW u \in Users
                 PROVE  Follows(before, work', todo', u)
      BY <2>3 DEF DefaultsFollowed
    <3> QED BY <1>2, StepFollows DEF OneDefaultBank, DefaultsFollowed
  <2> QED BY <2>1, <2>2, <2>3 DEF GoesOnOrAnswers
<1>3. CASE LockedOut \/ Restart
  BY <1>n, <1>3 DEF LockedOut, Restart, Raise, Answer, DefaultsFollowed
<1>4. CASE OtherLocks \/ OtherUnlocks \/ Tick \/ UNCHANGED vars
  <2>1. UNCHANGED <<work, todo, cmd, before>>
    BY <1>4 DEF OtherLocks, OtherUnlocks, Tick, vars
  <2> QED BY <2>1 DEF DefaultsFollowed
<1> QED BY <1>1, <1>2, <1>3, <1>4 DEF Next

(* A removal that is answered leaves no user with an active association,   *)
(* whose default bank was active before it, with one that is not: however  *)
(* many removals and commits a delete_bank goes through, and whoever else  *)
(* takes the lock of the file between two of them.                         *)
THEOREM DefaultsFollow ==
  DefaultsGoTogether /\ Spec /\ []NothingLeftOpen => DefaultFollows
<1> SUFFICES ASSUME DefaultsGoTogether PROVE Spec /\ []NothingLeftOpen => DefaultFollows
  OBVIOUS
<1>1. Init => DefaultsFollowed
  BY DEF Init, InitWith, DefaultsFollowed, NoCommand, RemovalCommands
<1>2. TypeOK /\ NothingLeftOpen /\ Removing /\ OneDefaultBank /\ DefaultsFollowed /\ [Next]_vars
        => DefaultsFollowed'
  BY NextKeepsDefaultsFollowed
<1> DEFINE A == cmd.op \in {"delete_user", "delete_bank"} /\ reply' = "ok" =>
                  \A u \in Users :
                    /\ DefaultActive(before, u)
                    /\ \E x \in RowsOf(disk', u) : x.active
                    => DefaultActive(disk', u)
<1>3. TypeOK /\ Removing /\ CleanUnlessLocked /\ OneDefaultBank /\ DefaultsFollowed /\ [Next]_vars
        => A
  <2> SUFFICES ASSUME TypeOK, Removing, CleanUnlessLocked, OneDefaultBank, DefaultsFollowed,
                      [Next]_vars, cmd.op \in RemovalCommands, reply' = "ok", NEW u \in Users,
                      DefaultActive(before, u), NEW x \in RowsOf(disk', u), x.active
               PROVE  DefaultActive(disk', u)
    BY DEF RemovalCommands
  <2>1. Continue /\ disk' = work' /\ todo' = <<>>
    BY RemovalAnswers
  <2>2. Follows(before, work', todo', u)
    BY <2>1, StepFollows DEF OneDefaultBank, DefaultsFollowed
  <2> QED BY <2>1, <2>2 DEF Follows, NothingActive, NextToMove
<1> HIDE DEF A
<1>4. Spec => []OneDefaultBank
  BY DefaultBanksAgree
<1>5. Spec /\ []NothingLeftOpen => [][A]_vars
  BY <1>1, <1>2, <1>3, <1>4, TablesTypesOK, RemovalsRun, OpenTransactionsAreLocked, PTL DEF Spec
<1> QED BY <1>5 DEF DefaultFollows, A
---------------------------------------------------------------------------
(* The walk of delete_bank, from the request to the answer.                *)

Tasks(s) == {s[i] : i \in 1..Len(s)}

LEMMA TasksOf ==
  /\ Tasks(<<>>) = {}
  /\ \A t : Tasks(<<t>>) = {t}
  /\ \A a, b : IsSeq(a) /\ IsSeq(b) => \A t : t \in Tasks(a \o b) <=> t \in Tasks(a) \/ t \in Tasks(b)
  /\ \A s : IsSeq(s) /\ s # <<>> => \A t : t \in Tasks(s) <=> t = Head(s) \/ t \in Tasks(Tail(s))
<1> USE DEF Tasks
<1>1. Tasks(<<>>) = {}
  OBVIOUS
<1>2. ASSUME NEW t PROVE Tasks(<<t>>) = {t}
  OBVIOUS
<1>3. ASSUME NEW a, NEW b, IsSeq(a), IsSeq(b), NEW t
      PROVE  t \in Tasks(a \o b) <=> t \in Tasks(a) \/ t \in Tasks(b)
  <2>1. PICK A, B : a \in Seq(A) /\ b \in Seq(B)
    BY <1>3 DEF IsSeq
  <2>2. PICK S : S = A \cup B
    OBVIOUS
  <2>3. a \in Seq(S) /\ b \in Seq(S)
    BY <2>1, <2>2
  <2>4. /\ Len(a) \in Nat /\ Len(b) \in Nat /\ Len(a \o b) = Len(a) + Len(b)
        /\ \A i \in 1..Len(a) : (a \o b)[i] = a[i]
        /\ \A i \in 1..Len(b) : (a \o b)[i + Len(a)] = b[i]
    BY <2>3
  <2>5. ASSUME t \in Tasks(a \o b) PROVE t \in Tasks(a) \/ t \in Tasks(b)
    <3>1. PICK i \in 1..(Len(a) + Len(b)) : t = (a \o b)[i]
      BY <2>4, <2>5
    <3>2. CASE i <= Len(a)
      BY <2>4, <3>1, <3>2
    <3>3. CASE i > Len(a)
      <4>1. i - Len(a) \in 1..Len(b) /\ (i - Len(a)) + Len(a) = i
        BY <2>4, <3>1, <3>3
      <4> QED BY <2>4, <3>1, <4>1
    <3> QED BY <2>4, <3>1, <3>2, <3>3
  <2>6. ASSUME t \in Tasks(a) PROVE t \in Tasks(a \o b)
    <3>1. PICK i \in 1..Len(a) : t = a[i]
      BY <2>6
    <3>2. i \in 1..Len(a \o b)
      BY <2>4
    <3> QED BY <2>4, <3>1, <3>2
  <2>7. ASSUME t \in Tasks(b) PROVE t \in Tasks(a \o b)
    <3>1. PICK i \in 1..Len(b) : t = b[i]
      BY <2>7
    <3>2. i + Len(a) \in 1..Len(a \o b)
      BY <2>4
    <3> QED BY <2>4, <3>1, <3>2
  <2> QED BY <2>5, <2>6, <2>7
<1>4. ASSUME NEW s, IsSeq(s), s # <<>>, NEW t
      PROVE  t \in Tasks(s) <=> t = Head(s) \/ t \in Tasks(Tail(s))
  <2>1. PICK S : s \in Seq(S)
    BY <1>4 DEF IsSeq
  <2>2. /\ Len(s) \in Nat /\ Len(s) >= 1 /\ Head(s) = s[1] /\ Len(Tail(s)) = Len(s) - 1
        /\ \A i \in 1..(Len(s) - 1) : Tail(s)[i] = s[i + 1]
    BY <1>4, <2>1
  <2>3. ASSUME t \in Tasks(s) PROVE t = Head(s) \/ t \in Tasks(Tail(s))
    <3>1. PICK i \in 1..Len(s) : t = s[i]
      BY <2>3
    <3>2. CASE i # 1
      <4>1. i - 1 \in 1..(Len(s) - 1) /\ (i - 1) + 1 = i
        BY <2>2, <3>1, <3>2
      <4> QED BY <2>2, <3>1, <4>1
    <3> QED BY <2>2, <3>1, <3>2
  <2>4. ASSUME t \in Tasks(Tail(s)) PROVE t \in Tasks(s)
    <3>1. PICK i \in 1..(Len(s) - 1) : t = Tail(s)[i]
      BY <2>2, <2>4
    <3>2. i + 1 \in 1..Len(s)
      BY <2>2
    <3> QED BY <2>2, <3>1, <3>2
  <2>5. Head(s) \in Tasks(s)
    <3>1. 1 \in 1..Len(s)
      BY <2>2
    <3> QED BY <2>2, <3>1
  <2> QED BY <2>3, <2>4, <2>5
<1> HIDE DEF Tasks
<1> QED BY <1>1, <1>2, <1>3, <1>4

(* What the tasks still have to visit, and to remove.                      *)
ToVisit(s, b) == \E t \in Tasks(s) : t.do = "banks" /\ b \in t.names
ToRemove(s, u, b) == \E t \in Tasks(s) : t.do = "users" /\ t.bank = b /\ u \in t.names

(* The visited banks: whatever was below them is visited or will be, their *)
(* rows are not active, nor are their associations but for those that are  *)
(* next to be removed.                                                     *)
Cut(visited, b, past, w, s) ==
  /\ b \in visited \/ ToVisit(s, b)
  /\ \A x \in past.banks : x.parent \in visited => x.bank \in visited \/ ToVisit(s, x.bank)
  /\ \A x \in past.banks : x.bank \in visited \/
       \E y \in w.banks : y.bank = x.bank /\ y.parent = x.parent
  /\ \A x \in w.banks : x.bank \in visited => ~x.active
  /\ \A x \in w.assocs : x.bank \in visited /\ x.active => ToRemove(s, x.user, x.bank)
CutBelow(b, past, w, s) == \E visited : Cut(visited, b, past, w, s)

LEMMA CutIsGone ==
  ASSUME NEW b, NEW past, NEW w, CutBelow(b, past, w, Last)
  PROVE  /\ \A x \in w.banks : x.bank \in Below(past, {b}) => ~x.active
         /\ \A x \in w.assocs : x.bank \in Below(past, {b}) => ~x.active
<1>1. PICK visited : Cut(visited, b, past, w, Last)
  BY DEF CutBelow
<1>2. \A c, u : ~ToVisit(Last, c) /\ ~ToRemove(Last, u, c)
  <2>1. Tasks(Last) = {SaveTask}
    BY TasksOf DEF Last
  <2> QED BY <2>1 DEF ToVisit, ToRemove, SaveTask
<1>3. b \in visited /\ Closed(past, visited)
  BY <1>1, <1>2 DEF Cut, Closed, SubBanks
<1>4. Below(past, {b}) \subseteq visited
  <2> PICK one : one = {b}
    OBVIOUS
  <2>1. Below(past, one) \subseteq visited
    BY <1>3, BelowLeast
  <2> QED BY <2>1
<1> QED BY <1>1, <1>2, <1>4 DEF Cut

(* A task that is done is not needed, and one that has yet to be done is.  *)
LEMMA TasksLeft ==
  ASSUME NEW s, IsSeq(s), s # <<>>, NEW tasks, IsSeq(tasks), NEW t, t = Head(s),
         NEW next, next = tasks \o Tail(s), IsSeq(Tail(s))
  PROVE  /\ \A b : ToVisit(tasks, b) => ToVisit(next, b)
         /\ \A u, b : ToRemove(tasks, u, b) => ToRemove(next, u, b)
         /\ \A b : ToVisit(s, b) => (t.do = "banks" /\ b \in t.names) \/ ToVisit(next, b)
         /\ \A u, b : ToRemove(s, u, b) =>
              (t.do = "users" /\ t.bank = b /\ u \in t.names) \/ ToRemove(next, u, b)
<1>1. \A x : x \in Tasks(next) <=> x \in Tasks(tasks) \/ x \in Tasks(Tail(s))
  <2> PICK rest : rest = Tail(s)
    OBVIOUS
  <2>1. IsSeq(rest)
    OBVIOUS
  <2>2. \A x : x \in Tasks(tasks \o rest) <=> x \in Tasks(tasks) \/ x \in Tasks(rest)
    BY <2>1, TasksOf
  <2> QED BY <2>2
<1>2. \A x : x \in Tasks(s) <=> x = t \/ x \in Tasks(Tail(s))
  BY TasksOf
<1> QED BY <1>1, <1>2 DEF ToVisit, ToRemove

LEMMA VisitsAndRemovals ==
  ASSUME NEW names, NEW n, NEW force, NEW b
  PROVE  /\ IsSeq(Visits(names, n, force)) /\ IsSeq(Removals(names, b, force))
         /\ \A c : ToVisit(Visits(names, n, force), c) <=> c \in names
         /\ \A u : u \in names => ToRemove(Removals(names, b, force), u, b)
<1> DEFINE visit == [do |-> "banks", names |-> names, depth |-> n, force |-> force]
           removal == [do |-> "users", names |-> names, bank |-> b, force |-> force]
<1>2. /\ visit.do = "banks" /\ visit.names = names
      /\ removal.do = "users" /\ removal.names = names /\ removal.bank = b
  OBVIOUS
<1>3. /\ Visits(names, n, force) = IF names # {} THEN <<visit>> ELSE <<>>
      /\ Removals(names, b, force) = IF names # {} THEN <<removal>> ELSE <<>>
  BY DEF Visits, Removals, OneOf
<1> HIDE DEF visit, removal
<1>4. /\ Tasks(Visits(names, n, force)) = IF names # {} THEN {visit} ELSE {}
      /\ Tasks(Removals(names, b, force)) = IF names # {} THEN {removal} ELSE {}
      /\ IsSeq(Visits(names, n, force)) /\ IsSeq(Removals(names, b, force))
  <2>1. CASE names = {}
    BY <1>3, <2>1, TasksOf, ShortSeqs
  <2>2. CASE names # {}
    <3>1. \A t : Tasks(<<t>>) = {t} /\ IsSeq(<<t>>)
      BY TasksOf, ShortSeqs
    <3>2. /\ Tasks(<<visit>>) = {visit} /\ IsSeq(<<visit>>)
          /\ Tasks(<<removal>>) = {removal} /\ IsSeq(<<removal>>)
      BY <3>1
    <3> QED BY <1>3, <2>2, <3>2
  <2> QED BY <2>1, <2>2
<1> QED BY <1>2, <1>4 DEF ToVisit, ToRemove

LEMMA VisitedRows ==
  ASSUME NEW d \in Tables, NEW b, NEW force, NEW e, e = RemoveBank(d, b, force)
  PROVE  /\ e.assocs = d.assocs
         /\ \A x \in e.banks :
              \E y \in d.banks :
                /\ y.bank = x.bank /\ y.parent = x.parent
                /\ x.active => y.active /\ x.bank # b
         /\ \A y \in d.banks : y.bank # b => y \in e.banks
<1>0. d.banks \in SUBSET BankRow
  BY DEF Tables
<1>1. /\ e.assocs = d.assocs
      /\ e.banks = IF force THEN {x \in d.banks : x.bank # b}
                   ELSE {IF x.bank = b THEN [x EXCEPT !.active = FALSE] ELSE x : x \in d.banks}
  BY DEF RemoveBank, Tables
<1>2. CASE force
  BY <1>1, <1>2
<1>3. CASE ~force
  <2>1. ASSUME NEW x \in e.banks
        PROVE  \E y \in d.banks : /\ y.bank = x.bank /\ y.parent = x.parent
                                  /\ x.active => y.active /\ x.bank # b
    <3>1. PICK y \in d.banks : x = IF y.bank = b THEN [y EXCEPT !.active = FALSE] ELSE y
      BY <1>1, <1>3
    <3>2. CASE y.bank = b
      BY <1>0, <3>1, <3>2, DisabledRow
    <3>3. CASE y.bank # b
      BY <3>1, <3>3
    <3> QED BY <3>2, <3>3
  <2>2. \A y \in d.banks : y.bank # b => y \in e.banks
    BY <1>1, <1>3
  <2> QED BY <1>1, <2>1, <2>2
<1> QED BY <1>2, <1>3

(* One bank visited: what is below it, or its associations, come next.     *)
LEMMA OneCutMore ==
  ASSUME NEW w \in Tables, Unmixed(w), NEW top, NEW past, NEW s, CutBelow(top, past, w, s),
         NEW b, NEW force, NEW v, v = RemoveBank(w, b, force), NEW next,
         \A c : ToVisit(s, c) => c = b \/ ToVisit(next, c),
         \A u, c : ToRemove(s, u, c) => ToRemove(next, u, c),
         \/ \A c \in SubBanks(v, b) : ToVisit(next, c)
         \/ SubBanks(v, b) = {},
         SubBanks(v, b) = {} => \A x \in MembersOf(v, b) : ToRemove(next, x.user, b)
  PROVE  CutBelow(top, past, v, next)
<1>1. PICK visited : Cut(visited, top, past, w, s)
  BY DEF CutBelow
<1> DEFINE more == visited \cup {b}
<1>2. /\ v.assocs = w.assocs
      /\ \A x \in v.banks : \E y \in w.banks : /\ y.bank = x.bank /\ y.parent = x.parent
                                               /\ x.active => y.active /\ x.bank # b
      /\ \A y \in w.banks : y.bank # b => y \in v.banks
  BY VisitedRows
<1>m. \A c : c \in more <=> c \in visited \/ c = b
  OBVIOUS
<1> HIDE DEF more
<1>3. top \in more \/ ToVisit(next, top)
  BY <1>1, <1>m DEF Cut
<1>4. ASSUME NEW x \in past.banks
      PROVE  x.bank \in more \/ \E y \in v.banks : y.bank = x.bank /\ y.parent = x.parent
  <2>1. x.bank \in visited \/ \E y \in w.banks : y.bank = x.bank /\ y.parent = x.parent
    BY <1>1 DEF Cut
  <2> QED BY <1>2, <1>m, <2>1
<1>5. ASSUME NEW x \in past.banks, x.parent \in more
      PROVE  x.bank \in more \/ ToVisit(next, x.bank)
  <2>1. CASE x.parent \in visited
    BY <1>1, <1>m, <2>1 DEF Cut
  <2>2. CASE x.parent = b
    <3>1. x.bank \in more \/ x.bank \in SubBanks(v, b)
      BY <1>4, <2>2 DEF SubBanks
    <3> QED BY <3>1
  <2> QED BY <1>m, <1>5, <2>1, <2>2
<1>6. ASSUME NEW x \in v.banks, x.bank \in more PROVE ~x.active
  <2>1. PICK y \in w.banks : y.bank = x.bank /\ y.parent = x.parent
                             /\ (x.active => y.active /\ x.bank # b)
    BY <1>2
  <2> QED BY <1>1, <1>m, <1>6, <2>1 DEF Cut
<1>7. ASSUME NEW x \in v.assocs, x.bank \in more, x.active PROVE ToRemove(next, x.user, x.bank)
  <2>1. CASE x.bank \in visited
    BY <1>1, <1>2, <1>7, <2>1 DEF Cut
  <2>2. CASE x.bank = b
    <3>1. SubBanks(v, b) = {}
      <4>1. \A y \in v.banks : y.parent # b
        BY <1>2, <2>2 DEF Unmixed
      <4> QED BY <4>1 DEF SubBanks
    <3> QED BY <2>2, <3>1 DEF MembersOf
  <2> QED BY <1>m, <1>7, <2>1, <2>2
<1>8. Cut(more, top, past, v, next)
  BY <1>3, <1>4, <1>5, <1>6, <1>7 DEF Cut
<1> QED BY <1>8 DEF CutBelow

(* A step that visits no bank.                                             *)
LEMMA CutStays ==
  ASSUME NEW w, NEW top, NEW past, NEW s, CutBelow(top, past, w, s), NEW v, NEW next,
         v.banks = w.banks,
         \A c : ToVisit(s, c) => ToVisit(next, c),
         \A x \in v.assocs :
           x.active => \E y \in w.assocs :
                         /\ y.user = x.user /\ y.bank = x.bank /\ y.active
                         /\ ToRemove(s, x.user, x.bank) => ToRemove(next, x.user, x.bank)
  PROVE  CutBelow(top, past, v, next)
<1>1. PICK visited : Cut(visited, top, past, w, s)
  BY DEF CutBelow
<1>2. ASSUME NEW x \in v.assocs, x.bank \in visited, x.active
      PROVE  ToRemove(next, x.user, x.bank)
  BY <1>1, <1>2 DEF Cut
<1>3. Cut(visited, top, past, v, next)
  BY <1>1, <1>2 DEF Cut
<1> QED BY <1>3 DEF CutBelow

LEMMA VisitCuts ==
  ASSUME TypeOK, VisitBank, todo # <<>>, IsSeq(todo), IsSeq(Tail(todo)), Head(todo).do = "banks",
         Unmixed(work), NEW top, CutBelow(top, before, work, todo), todo' # <<>>
  PROVE  CutBelow(top, before, work', todo')
<1> DEFINE t == Head(todo)
<1>1. PICK b \in t.names :
        LET d == RemoveBank(work, b, t.force)
            subs == SubBanks(d, b)
            members == {x.user : x \in MembersOf(d, b)}
        IN IF t.depth >= MaxDepth
             THEN Write(d) /\ Answer("error")
             ELSE /\ Write(d)
                  /\ GoOn((IF subs # {} THEN Visits(subs, t.depth + 1, t.force)
                           ELSE Removals(members, b, t.force))
                            \o Visits(t.names \ {b}, t.depth, t.force))
  BY DEF VisitBank
<1> DEFINE d == RemoveBank(work, b, t.force)
           subs == SubBanks(d, b)
           members == {x.user : x \in MembersOf(d, b)}
           others == t.names \ {b}
           level == t.depth + 1
           first == IF subs # {} THEN Visits(subs, level, t.force)
                    ELSE Removals(members, b, t.force)
           rest == Visits(others, t.depth, t.force)
           tasks == first \o rest
           next == tasks \o Tail(todo)
<1>2. work' = d /\ (todo' = <<>> \/ GoOn(tasks))
  BY <1>1 DEF Write, Answer
<1>3. work \in Tables
  BY DEF TypeOK
<1>4. \A c : c \in t.names => c = b \/ c \in others
  OBVIOUS
<1>5. \A x \in MembersOf(d, b) : x.user \in members
  OBVIOUS
<1>6. \A c \in SubBanks(d, b) : c \in subs
  OBVIOUS
<1> HIDE DEF members, others, level, d, t, subs
<1>7. /\ IsSeq(first) /\ IsSeq(rest)
      /\ subs # {} => \A c \in subs : ToVisit(first, c)
      /\ subs = {} => \A u \in members : ToRemove(first, u, b)
      /\ \A c \in others : ToVisit(rest, c)
  BY VisitsAndRemovals
<1> HIDE DEF first, rest
<1>8. /\ IsSeq(tasks)
      /\ \A c : ToVisit(first, c) \/ ToVisit(rest, c) => ToVisit(tasks, c)
      /\ \A u, c : ToRemove(first, u, c) => ToRemove(tasks, u, c)
  <2>1. IsSeq(tasks)
    BY <1>7, ShortSeqs, StepsGrouped
  <2>2. \A x : x \in Tasks(first) \/ x \in Tasks(rest) => x \in Tasks(tasks)
    BY <1>7, TasksOf
  <2> HIDE DEF tasks
  <2> QED BY <2>1, <2>2 DEF ToVisit, ToRemove
<1> HIDE DEF tasks
<1>9. todo' = next
  BY <1>2 DEF GoOn, Answer
<1>10. /\ \A c : ToVisit(tasks, c) => ToVisit(next, c)
       /\ \A u, c : ToRemove(tasks, u, c) => ToRemove(next, u, c)
       /\ \A c : ToVisit(todo, c) => c \in t.names \/ ToVisit(next, c)
       /\ \A u, c : ToRemove(todo, u, c) => ToRemove(next, u, c)
  <2>1. t = Head(todo) /\ t.do # "users"
    BY DEF t
  <2> PICK s, n : s = todo /\ n = next
    OBVIOUS
  <2>2. /\ \A c : ToVisit(tasks, c) => ToVisit(n, c)
        /\ \A u, c : ToRemove(tasks, u, c) => ToRemove(n, u, c)
        /\ \A c : ToVisit(s, c) => (t.do = "banks" /\ c \in t.names) \/ ToVisit(n, c)
        /\ \A u, c : ToRemove(s, u, c) =>
             (t.do = "users" /\ t.bank = c /\ u \in t.names) \/ ToRemove(n, u, c)
    BY <1>8, <2>1, TasksLeft
  <2> QED BY <2>1, <2>2
<1> HIDE DEF next
<1>11. /\ \A c : ToVisit(todo, c) => c = b \/ ToVisit(next, c)
       /\ \/ \A c \in SubBanks(d, b) : ToVisit(next, c)
          \/ SubBanks(d, b) = {}
       /\ SubBanks(d, b) = {} => \A x \in MembersOf(d, b) : ToRemove(next, x.user, b)
  <2>1. \A c : ToVisit(todo, c) => c = b \/ ToVisit(next, c)
    BY <1>4, <1>7, <1>8, <1>10
  <2>2. CASE subs # {}
    BY <1>6, <1>7, <1>8, <1>10, <2>1, <2>2 DEF subs
  <2>3. CASE subs = {}
    BY <1>5, <1>7, <1>8, <1>10, <2>1, <2>3 DEF subs
  <2> QED BY <2>2, <2>3
<1>12. CutBelow(top, before, d, next)
  BY <1>3, <1>10, <1>11, OneCutMore DEF d
<1> QED BY <1>2, <1>9, <1>12

LEMMA StepCuts ==
  ASSUME TypeOK, Removing, cmd.op = "delete_bank", Continue, Unmixed(work),
         CutBelow(cmd.bank, before, work, todo), todo' # <<>>
  PROVE  CutBelow(cmd.bank, before, work', todo')
<1>0. work \in Tables
  BY DEF TypeOK
<1>1. /\ todo # <<>> /\ IsSeq(todo) /\ IsSeq(Tail(todo)) /\ Head(todo) \in Task
      /\ \/ Head(todo).do = "banks" /\ VisitBank
         \/ Head(todo).do = "users" /\ DisableUser
         \/ Head(todo).do = "usage" /\ RecalculateUsage
         \/ Head(todo).do = "default" /\ UpdateDefaultBank
         \/ Head(todo).do = "save" /\ SaveAll
  BY RemovalStep DEF RemovalCommands
<1> DEFINE t == Head(todo)
<1>2. ASSUME NEW tasks, IsSeq(tasks), GoOn(tasks), t.do # "banks"
      PROVE  /\ \A u, b : ToRemove(tasks, u, b) => ToRemove(todo', u, b)
             /\ \A b : ToVisit(todo, b) => ToVisit(todo', b)
             /\ \A u, b : ToRemove(todo, u, b) =>
                  (t.do = "users" /\ t.bank = b /\ u \in t.names) \/ ToRemove(todo', u, b)
  <2>1. todo' = tasks \o Tail(todo)
    BY <1>2 DEF GoOn, Answer
  <2>2. PICK n : n = todo'
    OBVIOUS
  <2> QED BY <1>1, <1>2, <2>1, <2>2, TasksLeft
<1>3. ASSUME GoOn(<<>>), t.do \notin {"banks", "users"}
      PROVE  /\ \A b : ToVisit(todo, b) => ToVisit(todo', b)
             /\ \A u, b : ToRemove(todo, u, b) => ToRemove(todo', u, b)
  BY <1>2, <1>3, ShortSeqs
<1>4. CASE t.do = "banks"
  BY <1>1, <1>4, VisitCuts
<1>5. CASE t.do \in {"usage", "save"} /\ (RecalculateUsage \/ SaveAll)
  <2>1. GoOn(<<>>) /\ work' = work
    BY <1>5 DEF RecalculateUsage, SaveAll, Write, Save, NoWrite, Raise, Answer
  <2> PICK v, n : v = work' /\ n = todo'
    OBVIOUS
  <2>2. CutBelow(cmd.bank, before, v, n)
    BY <1>3, <1>5, <2>1, CutStays
  <2> QED BY <2>2
<1>6. CASE t.do = "default" /\ UpdateDefaultBank
  <2>1. GoOn(<<>>)
    BY <1>6 DEF UpdateDefaultBank
  <2>2. /\ work'.banks = work.banks
        /\ \A x \in work'.assocs :
             \E y \in work.assocs : y.user = x.user /\ y.bank = x.bank /\ (x.active => y.active)
    <3>1. CASE NoWrite
      BY <3>1 DEF NoWrite
    <3>2. ASSUME NEW u, NEW new, Save(SetDefaultBank(work, u, Keep, new))
          PROVE  /\ work'.banks = work.banks
                 /\ \A x \in work'.assocs :
                      \E y \in work.assocs :
                        y.user = x.user /\ y.bank = x.bank /\ (x.active => y.active)
      <4> PICK v : v = work'
        OBVIOUS
      <4>1. v = SetDefaultBank(work, u, Keep, new)
        BY <3>2 DEF Save
      <4>2. /\ v.banks = work.banks
            /\ \A x \in v.assocs :
                 \E y \in work.assocs :
                   y.user = x.user /\ y.bank = x.bank /\ (x.active => y.active)
        BY <1>0, <4>1, MovedRows
      <4> QED BY <4>2
    <3> QED BY <1>6, <3>1, <3>2 DEF UpdateDefaultBank
  <2> PICK v, n : v = work' /\ n = todo'
    OBVIOUS
  <2>3. \A x \in v.assocs :
          x.active => \E y \in work.assocs :
                        /\ y.user = x.user /\ y.bank = x.bank /\ y.active
                        /\ ToRemove(todo, x.user, x.bank) => ToRemove(n, x.user, x.bank)
    BY <1>3, <1>6, <2>1, <2>2
  <2>4. v.banks = work.banks /\ \A c : ToVisit(todo, c) => ToVisit(n, c)
    BY <1>3, <1>6, <2>1, <2>2
  <2>5. CutBelow(cmd.bank, before, v, n)
    BY <2>3, <2>4, CutStays
  <2> QED BY <2>5
<1>7. CASE t.do = "users" /\ DisableUser
  <2>1. PICK u \in t.names :
          /\ Save(RemoveAssociation(work, u, t.bank, t.force))
          /\ GoOn(<<[do |-> "default", user |-> u, bank |-> t.bank]>>
                    \o Removals(t.names \ {u}, t.bank, t.force))
    BY <1>7 DEF DisableUser
  <2> DEFINE others == t.names \ {u}
             more == Removals(others, t.bank, t.force)
             one == <<DefaultTask(u, t.bank)>>
             tasks == one \o more
  <2>2. GoOn(tasks)
    BY <2>1 DEF DefaultTask
  <2>3. \A x : x \in t.names => x = u \/ x \in others
    OBVIOUS
  <2>4. IsSeq(one)
    BY ShortSeqs
  <2> HIDE DEF others, one
  <2>5. IsSeq(more) /\ \A x \in others : ToRemove(more, x, t.bank)
    BY VisitsAndRemovals
  <2> HIDE DEF more
  <2>6. IsSeq(tasks) /\ \A x \in others : ToRemove(tasks, x, t.bank)
    <3>1. IsSeq(tasks)
      BY <2>4, <2>5, ShortSeqs, StepsGrouped
    <3>2. \A x : x \in Tasks(more) => x \in Tasks(tasks)
      BY <2>4, <2>5, TasksOf
    <3> HIDE DEF tasks
    <3> QED BY <2>5, <3>1, <3>2 DEF ToRemove
  <2> HIDE DEF tasks
  <2> PICK v, n : v = work' /\ n = todo'
    OBVIOUS
  <2>7. v = RemoveAssociation(work, u, t.bank, t.force)
    BY <2>1 DEF Save
  <2>8. /\ \A x : ToRemove(tasks, x, t.bank) => ToRemove(n, x, t.bank)
        /\ \A b : ToVisit(todo, b) => ToVisit(n, b)
        /\ \A x, b : ToRemove(todo, x, b) =>
             (t.bank = b /\ x \in t.names) \/ ToRemove(n, x, b)
    BY <1>2, <1>7, <2>2, <2>6
  <2>9. /\ v.banks = work.banks
        /\ \A x \in v.assocs :
             \E y \in work.assocs : /\ y.user = x.user /\ y.bank = x.bank
                                    /\ x.active => y.active /\ ~(x.user = u /\ x.bank = t.bank)
    BY <1>0, <2>7, RemovedRows
  <2> HIDE DEF t
  <2>10. ASSUME NEW x \in v.assocs, x.active
         PROVE  \E y \in work.assocs :
                  /\ y.user = x.user /\ y.bank = x.bank /\ y.active
                  /\ ToRemove(todo, x.user, x.bank) => ToRemove(n, x.user, x.bank)
    <3>1. PICK y \in work.assocs : /\ y.user = x.user /\ y.bank = x.bank
                                   /\ y.active /\ ~(x.user = u /\ x.bank = t.bank)
      BY <2>9, <2>10
    <3>2. ToRemove(todo, x.user, x.bank) => ToRemove(n, x.user, x.bank)
      BY <2>3, <2>6, <2>8, <3>1
    <3> QED BY <3>1, <3>2
  <2>11. CutBelow(cmd.bank, before, v, n)
    BY <2>8, <2>9, <2>10, CutStays
  <2> QED BY <2>11
<1> QED BY <1>1, <1>4, <1>5, <1>6, <1>7

(* The invariant, and the theorem.                                         *)
CutSoFar == cmd.op = "delete_bank" => CutBelow(cmd.bank, before, work, todo)

LEMMA DeleteBankCuts ==
  ASSUME work = disk, before = disk, NEW r, DeleteBank(r)
  PROVE  CutBelow(r.bank, before, work, todo')
<1> DEFINE one == {r.bank}
           visit == Visits(one, 0, r.force)
           usage == OneOf([do |-> "usage"], r.force)
           rest == usage \o Last
<1>1. todo' = (visit \o usage) \o Last
  BY DEF DeleteBank, Begin, Last, SaveTask
<1>2. IsSeq(usage)
  <2>1. \A t : IsSeq(<<t>>)
    BY ShortSeqs
  <2> QED BY <2>1, ShortSeqs DEF OneOf
<1>3. r.bank \in one
  OBVIOUS
<1> HIDE DEF one, usage
<1>4. IsSeq(visit) /\ ToVisit(visit, r.bank)
  BY <1>3, VisitsAndRemovals
<1> HIDE DEF visit
<1>5. todo' = visit \o rest /\ IsSeq(rest)
  <2>1. IsSeq(Last)
    BY ShortSeqs
  <2>2. (visit \o usage) \o Last = visit \o (usage \o Last) /\ IsSeq(usage \o Last)
    BY <1>2, <1>4, <2>1, StepsGrouped
  <2> QED BY <1>1, <2>2
<1> HIDE DEF rest
<1>6. \A x : x \in Tasks(visit) => x \in Tasks(visit \o rest)
  BY <1>4, <1>5, TasksOf
<1>7. ToVisit(todo', r.bank)
  BY <1>4, <1>5, <1>6 DEF ToVisit
<1>8. Cut({}, r.bank, before, work, todo')
  BY <1>7 DEF Cut
<1> QED BY <1>8 DEF CutBelow

LEMMA NextKeepsCutting ==
  ASSUME TypeOK, NothingLeftOpen, Removing, NoMixedBank, CutSoFar, [Next]_vars
  PROVE  CutSoFar'
<1>n. NoCommand.op # "delete_bank"
  BY DEF NoCommand
<1>1. ASSUME NEW r \in Requests, Receive(r) PROVE CutSoFar'
  <2>1. /\ Idle
        /\ \/ todo' = <<>> /\ cmd' = NoCommand /\ before' = disk'
           \/ cmd' = r /\ before' = before /\ disk' = disk /\ work' = work /\ reply' = "none"
    BY <1>1, ReceiveBegins
  <2>2. CASE cmd' = NoCommand
    BY <1>n, <2>2 DEF CutSoFar
  <2>3. CASE cmd' = r /\ before' = before /\ work' = work
    <3> SUFFICES ASSUME r.op = "delete_bank" PROVE CutBelow(r.bank, before, work, todo')
      BY <2>3 DEF CutSoFar
    <3>1. DeleteBank(r)
      BY <1>1, <2>3, RemovalsBegin
    <3> QED BY <2>1, <3>1, DeleteBankCuts DEF NothingLeftOpen, Removing
  <2> QED BY <2>1, <2>2, <2>3
<1>2. CASE Continue
  <2>1. GoesOnOrAnswers
    BY <1>2, ContinueGoesOn
  <2>2. CASE cmd' = NoCommand
    BY <1>n, <2>2 DEF CutSoFar
  <2>3. CASE cmd' = cmd /\ before' = before /\ todo' # <<>>
    <3> SUFFICES ASSUME cmd.op = "delete_bank" PROVE CutBelow(cmd.bank, before, work', todo')
      BY <2>3 DEF CutSoFar
    <3> QED BY <1>2, <2>3, StepCuts DEF NoMixedBank, CutSoFar
  <2> QED BY <2>1, <2>2, <2>3 DEF GoesOnOrAnswers
<1>3. CASE LockedOut \/ Restart
  BY <1>n, <1>3 DEF LockedOut, Restart, Raise, Answer, CutSoFar
<1>4. CASE OtherLocks \/ OtherUnlocks \/ Tick \/ UNCHANGED vars
  <2>1. UNCHANGED <<work, todo, cmd, before>>
    BY <1>4 DEF OtherLocks, OtherUnlocks, Tick, vars
  <2> QED BY <2>1 DEF CutSoFar
<1> QED BY <1>1, <1>2, <1>3, <1>4 DEF Next

(* After delete_bank has answered with success nothing from the named bank *)
(* down is active: the walk stops at banks without sub-banks, and removes  *)
(* associations there only, which is enough because no bank holds both.    *)
THEOREM SubtreesAreTaken ==
  AllRowsStay /\ ParentsStayEmpty /\ Spec /\ []NothingLeftOpen => DeleteTakesSubtree
<1> SUFFICES ASSUME AllRowsStay, ParentsStayEmpty
             PROVE  Spec /\ []NothingLeftOpen => DeleteTakesSubtree
  OBVIOUS
<1>1. Init => CutSoFar
  BY DEF Init, InitWith, CutSoFar, NoCommand
<1>2. TypeOK /\ NothingLeftOpen /\ Removing /\ NoMixedBank /\ CutSoFar /\ [Next]_vars => CutSoFar'
  BY NextKeepsCutting
<1> DEFINE A == cmd.op = "delete_bank" /\ reply' = "ok" => SubtreeGone(cmd.bank)
<1>3. TypeOK /\ Removing /\ CleanUnlessLocked /\ CutSoFar /\ [Next]_vars => A
  <2> SUFFICES ASSUME TypeOK, Removing, CleanUnlessLocked, CutSoFar, [Next]_vars,
                      cmd.op = "delete_bank", reply' = "ok"
               PROVE  SubtreeGone(cmd.bank)
    OBVIOUS
  <2>1. disk' = work /\ todo = Last
    BY RemovalAnswers DEF RemovalCommands
  <2>2. CutBelow(cmd.bank, before, work, Last)
    BY <2>1 DEF CutSoFar
  <2>3. /\ \A x \in work.banks : x.bank \in Below(before, {cmd.bank}) => ~x.active
        /\ \A x \in work.assocs : x.bank \in Below(before, {cmd.bank}) => ~x.active
    BY <2>2, CutIsGone
  <2> QED BY <2>1, <2>3 DEF SubtreeGone
<1> HIDE DEF A
<1>4. Spec => []NoMixedBank
  BY BanksStayUnmixed
<1>5. Spec /\ []NothingLeftOpen => [][A]_vars
  BY <1>1, <1>2, <1>3, <1>4, TablesTypesOK, RemovalsRun, OpenTransactionsAreLocked, PTL DEF Spec
<1> QED BY <1>5 DEF DeleteTakesSubtree, A

---------------------------------------------------------------------------
(* The requests that leave nothing open.  h is a height as TreeStays has   *)
(* it: a bank is below a higher one, and a root of the tables is one of    *)
(* the banks that requests add as the root.                                *)

Roots == NewRoots(Requests)
Heights == {h \in [Banks -> 0..MaxDepth - 1] : \A r \in Requests : BelowHigher(r, h, Roots)}

(* The tables as such commands leave them.                                 *)
Ordered(h, d) ==
  /\ \A x \in d.banks : x.parent = NoBank => x.bank \in Roots
  /\ \A x \in d.banks : x.parent # NoBank => x.bank \notin Roots /\ h[x.bank] < h[x.parent]
  /\ d.banks # {} => HasRoot(d)
  /\ \A k \in LockedKeys : KnownKey(d, k)

LEMMA SameBanksOrdered ==
  ASSUME NEW h, NEW d, Ordered(h, d), NEW e, e.banks = d.banks, e.config = d.config
  PROVE  Ordered(h, e)
BY DEF Ordered, HasRoot, KnownKey

(* Rows that change in other columns, or whose bank is not a root.         *)
LEMMA RowsChangedOrdered ==
  ASSUME NEW h, NEW d \in Tables, Ordered(h, d), NEW e, e.config = d.config,
         NEW new, e.banks = {new[x] : x \in d.banks},
         \A x \in d.banks :
           /\ new[x].bank = x.bank
           /\ \/ new[x].parent = x.parent
              \/ x.parent # NoBank /\ new[x].parent # NoBank /\ h[x.bank] < h[new[x].parent]
  PROVE  Ordered(h, e)
<1>1. \A k \in LockedKeys : KnownKey(e, k)
  BY DEF Ordered, KnownKey
<1>2. ASSUME e.banks # {} PROVE HasRoot(e)
  <2>1. PICK x \in d.banks : x.parent = NoBank
    BY <1>2 DEF Ordered, HasRoot
  <2>2. new[x].parent = NoBank /\ new[x] \in e.banks
    BY <2>1
  <2> QED BY <2>2 DEF HasRoot
<1>3. ASSUME NEW y \in e.banks
      PROVE  /\ y.parent = NoBank => y.bank \in Roots
             /\ y.parent # NoBank => y.bank \notin Roots /\ h[y.bank] < h[y.parent]
  <2>1. PICK x \in d.banks : y = new[x]
    OBVIOUS
  <2> QED BY <2>1 DEF Ordered
<1> QED BY <1>1, <1>2, <1>3 DEF Ordered

LEMMA BankStatementsOrdered ==
  ASSUME NEW h, NEW d \in Tables, Ordered(h, d), NEW b \in Banks
  PROVE  /\ \A p : Ordered(h, ReactivateBank(d, b, p))
         /\ \A s \in Shares : Ordered(h, SetBankShares(d, b, s))
         /\ \A p \in Banks : b \notin Roots /\ h[b] < h[p] => Ordered(h, SetBankParent(d, b, p))
<1>0. d.banks \in SUBSET BankRow
  BY DEF Tables
<1>1. ASSUME NEW p PROVE Ordered(h, ReactivateBank(d, b, p))
  <2> DEFINE e == ReactivateBank(d, b, p)
             new == [x \in BankRow |->
                       IF x.bank = b /\ x.parent = p THEN [x EXCEPT !.active = TRUE] ELSE x]
  <2>1. e.banks = {new[x] : x \in d.banks} /\ e.config = d.config
    BY <1>0 DEF ReactivateBank, Tables
  <2>2. \A x \in d.banks : new[x].bank = x.bank /\ new[x].parent = x.parent
    BY <1>0 DEF BankRow
  <2> HIDE DEF new, e
  <2>3. Ordered(h, e)
    BY <2>1, <2>2, RowsChangedOrdered
  <2> QED BY <2>3 DEF e
<1>2. ASSUME NEW s \in Shares PROVE Ordered(h, SetBankShares(d, b, s))
  <2> DEFINE e == SetBankShares(d, b, s)
             new == [x \in BankRow |-> IF x.bank = b THEN [x EXCEPT !.shares = s] ELSE x]
  <2>1. e.banks = {new[x] : x \in d.banks} /\ e.config = d.config
    BY <1>0 DEF SetBankShares, Tables
  <2>2. \A x \in d.banks : new[x].bank = x.bank /\ new[x].parent = x.parent
    BY <1>0 DEF BankRow
  <2> HIDE DEF new, e
  <2>3. Ordered(h, e)
    BY <2>1, <2>2, RowsChangedOrdered
  <2> QED BY <2>3 DEF e
<1>3. ASSUME NEW p \in Banks, b \notin Roots, h[b] < h[p] PROVE Ordered(h, SetBankParent(d, b, p))
  <2> DEFINE e == SetBankParent(d, b, p)
             new == [x \in BankRow |-> IF x.bank = b THEN [x EXCEPT !.parent = p] ELSE x]
  <2>1. e.banks = {new[x] : x \in d.banks} /\ e.config = d.config
    BY <1>0 DEF SetBankParent, Tables
  <2>2. ASSUME NEW x \in d.banks
        PROVE  /\ new[x].bank = x.bank
               /\ \/ new[x].parent = x.parent
                  \/ x.parent # NoBank /\ new[x].parent # NoBank /\ h[x.bank] < h[new[x].parent]
    <3>1. x.bank = b => x.parent # NoBank
      BY <1>3 DEF Ordered
    <3>2. x \in BankRow /\ p # NoBank
      BY <1>0, NamesAssumption
    <3>3. new[x].bank = x.bank /\ new[x].parent = IF x.bank = b THEN p ELSE x.parent
      BY <3>2 DEF BankRow
    <3> QED BY <1>3, <3>1, <3>2, <3>3
  <2> HIDE DEF new, e
  <2>3. Ordered(h, e)
    BY <2>1, <2>2, RowsChangedOrdered
  <2> QED BY <2>3 DEF e
<1> QED BY <1>1, <1>2, <1>3

LEMMA InsertBankOrdered ==
  ASSUME NEW h, NEW d \in Tables, Ordered(h, d), NEW b \in Banks, NEW p, NEW i, NEW s,
         p = NoBank => b \in Roots,
         p # NoBank => b \notin Roots /\ h[b] < h[p] /\ KnownBank(d, p)
  PROVE  Ordered(h, InsertBank(d, i, b, p, s))
<1> DEFINE row == [id |-> i, bank |-> b, parent |-> p, active |-> TRUE, shares |-> s]
           e == InsertBank(d, i, b, p, s)
<1>1. e.banks = d.banks \cup {row} /\ e.config = d.config
  BY DEF InsertBank, Tables
<1>2. row.bank = b /\ row.parent = p
  OBVIOUS
<1> HIDE DEF row, e
<1>3. HasRoot(e)
  <2>1. CASE p = NoBank
    BY <1>1, <1>2, <2>1 DEF HasRoot
  <2>2. CASE p # NoBank
    BY <1>1, <2>2 DEF HasRoot, KnownBank, Ordered
  <2> QED BY <2>1, <2>2
<1>4. Ordered(h, e)
  BY <1>1, <1>2, <1>3 DEF Ordered, KnownKey
<1> QED BY <1>4 DEF e

(* A removal leaves the root where it is.                                  *)
LEMMA RemoveBankOrdered ==
  ASSUME NEW h, NEW d \in Tables, Ordered(h, d), NEW b \in Banks, NEW force \in BOOLEAN,
         force => b \notin Roots
  PROVE  /\ Ordered(h, RemoveBank(d, b, force))
         /\ RemoveBank(d, b, force).banks = {} => RemoveBank(d, b, force) = d
<1> DEFINE e == RemoveBank(d, b, force)
<1>0. d.banks \in SUBSET BankRow
  BY DEF Tables
<1>1. CASE force
  <2>1. e.banks = {x \in d.banks : x.bank # b} /\ e.config = d.config
    BY <1>1 DEF RemoveBank, Tables
  <2>2. e.banks = {} => d.banks = {}
    BY <1>1, <2>1 DEF Ordered, HasRoot
  <2>3. d.banks = {} => e = d
    BY <1>1, <2>1 DEF RemoveBank, Tables
  <2> HIDE DEF e
  <2>4. Ordered(h, e)
    BY <1>1, <2>1, <2>2 DEF Ordered, HasRoot, KnownKey
  <2> QED BY <2>2, <2>3, <2>4 DEF e
<1>2. CASE ~force
  <2> DEFINE new == [x \in BankRow |-> IF x.bank = b THEN [x EXCEPT !.active = FALSE] ELSE x]
  <2>1. e.banks = {new[x] : x \in d.banks} /\ e.config = d.config
    BY <1>0, <1>2 DEF RemoveBank, Tables
  <2>2. \A x \in d.banks : new[x].bank = x.bank /\ new[x].parent = x.parent
    BY <1>0 DEF BankRow
  <2>3. d.banks = {} => e = d
    BY <1>2 DEF RemoveBank, Tables
  <2> HIDE DEF new, e
  <2>4. e.banks = {} => d.banks = {}
    BY <2>1
  <2>5. Ordered(h, e)
    BY <2>1, <2>2, RowsChangedOrdered
  <2> QED BY <2>3, <2>4, <2>5 DEF e
<1> QED BY <1>1, <1>2

LEMMA AssociationStatementsOrdered ==
  ASSUME NEW h, NEW d \in Tables, Ordered(h, d), NEW u, NEW b, NEW v
  PROVE  /\ \A row : Ordered(h, InsertAssociation(d, row))
         /\ Ordered(h, ReactivateAssociation(d, u, b))
         /\ Ordered(h, RemoveAssociation(d, u, b, v))
         /\ Ordered(h, SetDefaultBank(d, u, b, v))
         /\ Ordered(h, SetShares(d, u, b, v))
         /\ Ordered(h, SetQueues(d, u, b, v))
         /\ Ordered(h, SetProjects(d, u, b, v))
         /\ \A w : Ordered(h, ModifyQueues(d, u, b, v, w))
         /\ Ordered(h, SetAllUsers(d, b, u, v))
<1> DEFINE Same(e) == e.banks = d.banks /\ e.config = d.config
<1>1. \A row : Same(InsertAssociation(d, row))
  BY DEF InsertAssociation, Tables
<1>2. Same(ReactivateAssociation(d, u, b)) /\ Same(RemoveAssociation(d, u, b, v))
  BY DEF ReactivateAssociation, RemoveAssociation, Tables
<1>3. Same(SetDefaultBank(d, u, b, v)) /\ Same(SetShares(d, u, b, v))
  BY DEF SetDefaultBank, SetShares, Tables
<1>4. Same(SetQueues(d, u, b, v)) /\ Same(SetProjects(d, u, b, v))
  BY DEF SetQueues, SetProjects, Tables
<1>5. \A w : Same(ModifyQueues(d, u, b, v, w))
  BY DEF ModifyQueues, Tables
<1>6. Same(SetAllUsers(d, b, u, v))
  BY DEF SetAllUsers, Tables
<1>7. ASSUME NEW e, Same(e) PROVE Ordered(h, e)
  BY <1>7, SameBanksOrdered
<1> HIDE DEF Same
<1> QED BY <1>1, <1>2, <1>3, <1>4, <1>5, <1>6, <1>7

LEMMA OtherStatementsOrdered ==
  ASSUME NEW h, NEW d \in Tables, Ordered(h, d), NEW k, NEW v, NEW w
  PROVE  /\ Ordered(h, InsertQueue(d, k, v, w))
         /\ Ordered(h, RemoveQueue(d, k))
         /\ Ordered(h, SetQueueLimit(d, k, v, w))
         /\ Ordered(h, InsertProject(d, k))
         /\ Ordered(h, RemoveProject(d, k))
         /\ Ordered(h, SetKey(d, k, v))
         /\ Ordered(h, SetWeight(d, k, v))
         /\ Ordered(h, ResetWeights(d))
<1> DEFINE Same(e) == e.banks = d.banks /\ e.config = d.config
<1>1. Same(InsertQueue(d, k, v, w)) /\ Same(RemoveQueue(d, k))
  BY DEF InsertQueue, RemoveQueue, Tables
<1>2. Same(SetQueueLimit(d, k, v, w))
  BY DEF SetQueueLimit, Tables
<1>3. Same(InsertProject(d, k)) /\ Same(RemoveProject(d, k))
  BY DEF InsertProject, RemoveProject, Tables
<1>5. Same(SetWeight(d, k, v)) /\ Same(ResetWeights(d))
  BY DEF SetWeight, ResetWeights, Tables
<1>6. Ordered(h, SetKey(d, k, v))
  <2> DEFINE e == SetKey(d, k, v)
  <2>1. e.banks = d.banks /\ e.config = {IF x[1] = k THEN <<k, v>> ELSE x : x \in d.config}
    BY DEF SetKey, Tables
  <2>2. ASSUME NEW c, KnownKey(d, c) PROVE KnownKey(e, c)
    <3>1. PICK x \in d.config : x[1] = c
      BY <2>2 DEF KnownKey
    <3>2. (IF x[1] = k THEN <<k, v>> ELSE x) \in e.config /\ (IF x[1] = k THEN <<k, v>> ELSE x)[1] = c
      BY <2>1, <3>1
    <3> QED BY <3>2 DEF KnownKey
  <2> HIDE DEF e
  <2>3. Ordered(h, e)
    BY <2>1, <2>2 DEF Ordered, HasRoot
  <2> QED BY <2>3 DEF e
<1>7. ASSUME NEW e, Same(e) PROVE Ordered(h, e)
  BY <1>7, SameBanksOrdered
<1> HIDE DEF Same
<1> QED BY <1>1, <1>2, <1>3, <1>5, <1>6, <1>7

(* A walk down goes to lower banks only.                                   *)
LEMMA WalksEnd ==
  ASSUME NEW h \in Heights, NEW d \in Tables, Ordered(h, d), NEW b \in Banks
  PROVE  ~EndlessBelow(d, b)
<1>1. ASSUME NEW x \in Banks PROVE x \notin Below(d, SubBanks(d, x))
  <2> DEFINE T == {c \in Banks : h[c] < h[x]}
  <2>1. ASSUME NEW c \in Banks PROVE \A y \in SubBanks(d, c) : y \in Banks /\ h[y] < h[c]
    BY <2>1, NamesAssumption DEF SubBanks, Ordered, Tables, BankRow
  <2>2. \A c \in Banks : h[c] \in Int
    BY DEF Heights
  <2>3. SubBanks(d, x) \subseteq T /\ Closed(d, T)
    <3>1. SubBanks(d, x) \subseteq T
      BY <2>1
    <3>2. ASSUME NEW c \in T, NEW y \in SubBanks(d, c) PROVE y \in T
      <4>1. c \in Banks /\ h[c] < h[x] /\ y \in Banks /\ h[y] < h[c]
        BY <2>1, <3>2
      <4> QED BY <2>2, <4>1
    <3> QED BY <3>1, <3>2 DEF Closed
  <2>4. Below(d, SubBanks(d, x)) \subseteq T
    BY <2>3, BelowLeast
  <2> QED BY <2>2, <2>4
<1>2. Below(d, {b}) \subseteq Banks
  BY BelowCloses
<1> QED BY <1>1, <1>2 DEF EndlessBelow

---------------------------------------------------------------------------
(* The tasks that are not refused, and those that may be as long as        *)
(* nothing has been written.                                               *)
OfCommand(op, t) ==
  /\ op = "edit_queue" <=> t.do = "queue_limit"
  /\ op = "delete_bank" => t.do \in {"banks", "users", "default", "usage", "save"}
  /\ t.do = "usage" => op = "delete_bank"
SureTask(h, op) ==
  {t \in Task :
     /\ OfCommand(op, t)
     /\ t.do \in {"banks", "users", "usage", "save", "user_def", "user_shares", "user_queues",
                  "user_projects", "queue_limit", "rebin"}
     /\ t.do = "banks" => \A b \in t.names : h[b] + t.depth < MaxDepth /\ (t.force => b \notin Roots)
     /\ t.do = "user_def" => t.value # Reset
     /\ t.do \in {"user_queues", "user_projects"} => t.value = Reset}
FirstTask(h, op) ==
  {t \in Task :
     /\ OfCommand(op, t)
     /\ t.do \in {"default", "bank_shares", "bank_parent", "modify_queues", "user_def",
                  "user_queues", "user_projects", "config"}
     /\ t.do = "bank_parent" => t.bank \notin Roots /\ h[t.bank] < h[t.value]}

(* A list of tasks commits what it writes.                                 *)
Closing(t) == t.do \in {"save", "users", "default", "queue_limit"}
Closes(s) == s # <<>> => Closing(s[Len(s)])
SureEnd(h, op, s) == s \in Seq(SureTask(h, op)) /\ s # <<>> /\ Closes(s)
SureList(h, op, s, clean) ==
  s # <<>> => /\ Tail(s) \in Seq(SureTask(h, op))
              /\ Head(s) \in SureTask(h, op) \/ (clean /\ Head(s) \in FirstTask(h, op))
              /\ Closes(s)

LEMMA PutBefore ==
  ASSUME NEW h, NEW op, NEW s, SureEnd(h, op, s), NEW t, NEW cond, cond => t \in SureTask(h, op)
  PROVE  SureEnd(h, op, (IF cond THEN <<t>> ELSE <<>>) \o s)
<1>1. CASE cond
  <2>1. <<t>> \o s \in Seq(SureTask(h, op)) /\ <<t>> \o s # <<>>
    BY <1>1 DEF SureEnd
  <2>2. (<<t>> \o s)[Len(<<t>> \o s)] = s[Len(s)]
    BY <1>1 DEF SureEnd
  <2> QED BY <1>1, <2>1, <2>2 DEF SureEnd, Closes
<1>2. CASE ~cond
  <2>1. <<>> \o s = s
    BY DEF SureEnd
  <2> QED BY <1>2, <2>1
<1> QED BY <1>1, <1>2

LEMMA PutFirst ==
  ASSUME NEW h, NEW op, NEW s \in Seq(SureTask(h, op)), Closes(s), NEW t,
         s = <<>> => Closing(t), t \in SureTask(h, op) \cup FirstTask(h, op)
  PROVE  SureList(h, op, <<t>> \o s, TRUE)
<1> DEFINE S == SureTask(h, op) \cup FirstTask(h, op)
<1>1. s \in Seq(S) /\ <<t>> \in Seq(S)
  OBVIOUS
<1>2. Tail(<<t>> \o s) = s /\ Head(<<t>> \o s) = t
  BY <1>1
<1>3. (<<t>> \o s)[Len(<<t>> \o s)] = IF s = <<>> THEN t ELSE s[Len(s)]
  BY <1>1
<1>4. Closes(<<t>> \o s)
  BY <1>3 DEF Closes
<1> QED BY <1>2, <1>4 DEF SureList

LEMMA SureEndIsSure ==
  ASSUME NEW h, NEW op, NEW s, SureEnd(h, op, s), NEW clean
  PROVE  SureList(h, op, s, clean)
BY DEF SureEnd, SureList

---------------------------------------------------------------------------
Steady(h) ==
  /\ Ordered(h, disk) /\ Ordered(h, work)
  /\ Idle => work = disk
  /\ cmd.op = "edit_queue" => work = disk
  /\ cmd.op = "delete_bank" /\ work.banks = {} => work = disk
  /\ SureList(h, cmd.op, todo, work = disk)

(* The ways a step ends.                                                   *)
LEMMA AnsweredSteady ==
  ASSUME NEW h, NEW a, Answer(a), Ordered(h, disk'), work' = disk'
  PROVE  Steady(h)'
BY DEF Answer, Steady, Idle, SureList

LEMMA BegunSteady ==
  ASSUME NEW h, Steady(h), NEW r, NEW tasks, Begin(r, tasks), SureList(h, r.op, tasks, TRUE)
  PROVE  Steady(h)'
<1>1. disk' = disk /\ work' = disk /\ todo' = tasks /\ cmd' = r
  BY DEF Begin, NoWrite, Steady
<1> QED BY <1>1 DEF Steady

(* The tasks that are left after the first.                                *)
LEMMA LeftSure ==
  ASSUME NEW h, TypeOK, Steady(h), ~Idle
  PROVE  /\ Tail(todo) \in Seq(SureTask(h, cmd.op)) /\ Closes(Tail(todo))
         /\ Tail(todo) = <<>> => Closing(Head(todo))
         /\ Head(todo) \in Task
         /\ \/ Head(todo) \in SureTask(h, cmd.op)
            \/ work = disk /\ Head(todo) \in FirstTask(h, cmd.op)
<1>1. todo \in Seq(Task) /\ todo # <<>>
  BY DEF TypeOK, Idle
<1>2. Closes(todo) /\ Tail(todo) \in Seq(SureTask(h, cmd.op))
  BY <1>1 DEF Steady, SureList
<1>3. CASE Tail(todo) = <<>>
  <2>1. Len(Tail(todo)) = Len(todo) - 1 /\ Len(todo) \in Nat /\ Len(<<>>) = 0
    BY <1>1
  <2>2. Len(todo) = 1
    <3>1. Len(Tail(todo)) = 0
      BY <1>3, <2>1, Zenon
    <3> QED BY <2>1, <3>1
  <2>3. todo[Len(todo)] = Head(todo) /\ Head(todo) \in Task
    BY <1>1, <2>2
  <2> QED BY <1>1, <1>2, <1>3, <2>3 DEF Closes, Steady, SureList
<1>4. CASE Tail(todo) # <<>>
  <2>1. Tail(todo)[Len(Tail(todo))] = todo[Len(todo)]
    BY <1>1, <1>4
  <2> QED BY <1>1, <1>2, <1>4, <2>1 DEF Closes, Steady, SureList
<1> QED BY <1>3, <1>4

LEMMA Joined ==
  ASSUME NEW S, NEW a \in Seq(S), NEW b \in Seq(S), Closes(a) \/ b # <<>>, Closes(b)
  PROVE  a \o b \in Seq(S) /\ Closes(a \o b)
<1>1. CASE b = <<>>
  <2>1. a \o b = a
    BY <1>1
  <2> QED BY <1>1, <2>1
<1>2. CASE b # <<>>
  <2>1. (a \o b)[Len(a \o b)] = b[Len(b)]
    BY <1>2
  <2> QED BY <1>2, <2>1 DEF Closes
<1> QED BY <1>1, <1>2

(* Tasks that are not refused come before those that are left.             *)
LEMMA WentOnSteady ==
  ASSUME NEW h, TypeOK, Steady(h), ~Idle, NEW tasks \in Seq(SureTask(h, cmd.op)), GoOn(tasks),
         Closes(tasks) \/ Tail(todo) # <<>>,
         tasks = <<>> /\ Tail(todo) = <<>> => work' = disk',
         Ordered(h, disk'), Ordered(h, work'),
         cmd.op = "edit_queue" => work' = disk',
         cmd.op = "delete_bank" /\ work'.banks = {} => work' = disk'
  PROVE  Steady(h)'
<1> DEFINE S == SureTask(h, cmd.op)
           all == tasks \o Tail(todo)
<1>1. Tail(todo) \in Seq(S) /\ Closes(Tail(todo))
  BY LeftSure
<1>2. all \in Seq(S) /\ Closes(all)
  BY <1>1, Joined
<1>3. CASE all = <<>>
  <2>1. tasks = <<>> /\ Tail(todo) = <<>>
    BY <1>1, <1>3
  <2>2. Answer("ok")
    BY <1>3 DEF GoOn
  <2> QED BY <2>1, <2>2, AnsweredSteady
<1>4. CASE all # <<>>
  <2>1. todo' = all /\ cmd' = cmd
    BY <1>4 DEF GoOn
  <2> HIDE DEF all
  <2>2. SureList(h, cmd.op, all, work' = disk')
    BY <1>2, <1>4 DEF SureList
  <2>3. ~Idle'
    BY <1>4, <2>1 DEF Idle
  <2> QED BY <2>1, <2>2, <2>3 DEF Steady
<1> QED BY <1>3, <1>4

(* The last task of the two, or any other that adds nothing.               *)
LEMMA DoneSteady ==
  ASSUME NEW h, TypeOK, Steady(h), ~Idle, GoOn(<<>>),
         Closing(Head(todo)) => work' = disk',
         Ordered(h, disk'), Ordered(h, work'),
         cmd.op = "edit_queue" => work' = disk',
         cmd.op = "delete_bank" /\ work'.banks = {} => work' = disk'
  PROVE  Steady(h)'
<1>1. <<>> \in Seq(SureTask(h, cmd.op)) /\ Closes(<<>>)
  BY DEF Closes
<1>2. Tail(todo) = <<>> => work' = disk'
  BY LeftSure
<1> QED BY <1>1, <1>2, WentOnSteady

---------------------------------------------------------------------------
(* A request that comes in.                                                *)
LEMMA SaveIsSure == ASSUME NEW h, NEW op, op # "edit_queue" PROVE SureEnd(h, op, Last)
<1>1. SaveTask \in SureTask(h, op) /\ SaveTask.do = "save"
  BY SaveIsTask DEF SaveTask, SureTask, OfCommand
<1> QED BY <1>1 DEF SureEnd, Last, Closes, Closing

LEMMA DeleteBankSteady ==
  ASSUME NEW h \in Heights, Steady(h), NEW r \in Requests, DeleteBank(r)
  PROVE  Steady(h)'
<1>1. r \in DeleteBankRequests /\ r.op = "delete_bank"
  BY BoundsAssumption, RequestIs DEF DeleteBank
<1>2. BelowHigher(r, h, Roots) /\ h[r.bank] \in 0..MaxDepth - 1 /\ MaxDepth \in Nat
  BY <1>1, BoundsAssumption DEF Heights, DeleteBankRequests
<1> DEFINE first == [do |-> "banks", names |-> {r.bank}, depth |-> 0, force |-> r.force]
           rest == (IF r.force THEN <<UsageTask>> ELSE <<>>) \o Last
<1>3. first \in SureTask(h, r.op)
  <2>1. first \in Task
    BY <1>1 DEF DeleteBankRequests, Task
  <2> QED BY <1>1, <1>2, <2>1 DEF SureTask, BelowHigher, OfCommand
<1>4. UsageTask \in SureTask(h, r.op)
  BY <1>1, SaveIsTask DEF UsageTask, SureTask, OfCommand
<1>5. SureEnd(h, r.op, rest)
  BY <1>1, <1>4, SaveIsSure, PutBefore
<1>6. Begin(r, (<<first>> \o OneOf(UsageTask, r.force)) \o Last)
  BY DEF DeleteBank, Visits, OneOf, UsageTask, SaveTask, Last
<1>7. (<<first>> \o OneOf(UsageTask, r.force)) \o Last = <<first>> \o rest
  <2>1. IsSeq(<<first>>) /\ IsSeq(OneOf(UsageTask, r.force)) /\ IsSeq(Last)
    BY ShortSeqs DEF OneOf
  <2> HIDE DEF first
  <2> QED BY <2>1, StepsGrouped DEF OneOf
<1> HIDE DEF first, rest
<1>8. SureList(h, r.op, <<first>> \o rest, TRUE)
  BY <1>3, <1>5, PutFirst DEF SureEnd
<1> QED BY <1>6, <1>7, <1>8, BegunSteady

(* A command that is over with one transaction.                            *)
LEMMA ShortSteady ==
  ASSUME NEW h, Steady(h), Idle, NEW a, Answer(a),
         NoWrite \/ Write(work) \/ \E d : Ordered(h, d) /\ Save(d)
  PROVE  Steady(h)'
<1>1. Ordered(h, disk') /\ work' = disk'
  BY DEF NoWrite, Write, Save, Steady
<1> QED BY <1>1, AnsweredSteady

LEMMA AddBankSteady ==
  ASSUME NEW h \in Heights, TypeOK, Steady(h), NEW r \in Requests, AddBank(r)
  PROVE  Steady(h)'
<1>1. r \in AddBankRequests /\ r.op = "add_bank" /\ Idle
  BY BoundsAssumption, RequestIs DEF AddBank, Short
<1>2. r.bank \in Banks /\ BelowHigher(r, h, Roots) /\ work \in Tables /\ Ordered(h, work)
  BY <1>1 DEF Heights, AddBankRequests, TypeOK, Steady
<1>3. CASE Raise
  BY <1>1, <1>3, ShortSteady DEF Raise
<1>4. CASE Save(ReactivateBank(work, r.bank, r.parent)) /\ Answer("ok")
  BY <1>1, <1>2, <1>4, ShortSteady, BankStatementsOrdered
<1>5. ASSUME NEW i, Save(InsertBank(work, i, r.bank, r.parent, Default)), Answer("ok"),
             ~BankRefused(work, r)
      PROVE  Steady(h)'
  <2>1. r.parent = NoBank => r.bank \in Roots
    BY <1>1 DEF Roots, NewRoots
  <2>2. r.parent # NoBank => /\ r.bank \notin Roots /\ h[r.bank] < h[r.parent]
                             /\ KnownBank(work, r.parent)
    BY <1>1, <1>2, <1>5 DEF BelowHigher, BankRefused
  <2>3. Ordered(h, InsertBank(work, i, r.bank, r.parent, Default))
    BY <1>2, <2>1, <2>2, InsertBankOrdered
  <2> QED BY <1>1, <1>5, <2>3, ShortSteady
<1> QED BY <1>3, <1>4, <1>5 DEF AddBank

LEMMA ShortCommandsSteady ==
  ASSUME NEW h, TypeOK, Steady(h), RefusedAtOnce(Requests), NEW r \in Requests,
         \/ AddUser(r) \/ EditAllUsers(r) \/ AddQueue(r) \/ DeleteQueue(r)
         \/ AddProject(r) \/ DeleteProject(r) \/ EditFactor(r) \/ ResetFactors(r)
         \/ AddConfig(r) \/ DeleteConfig(r) \/ SyncUserids(r) \/ ScrubOldJobs(r)
         \/ ClearUsage(r) \/ TurnedAway(r)
  PROVE  Steady(h)'
<1> DEFINE Over == \E a : Answer(a) /\ \/ NoWrite \/ Write(work)
                                       \/ \E d : Ordered(h, d) /\ Save(d)
<1>0. work \in Tables /\ Ordered(h, work)
  BY DEF TypeOK, Steady
<1>a. r.op \notin {"add_config", "delete_config", "pop_db"}
  BY DEF RefusedAtOnce
<1>b. Raise => Over
  BY DEF Raise
<1>1. CASE AddUser(r)
  <2>1. \/ Raise
        \/ Answer("ok") /\ Save(ReactivateAssociation(work, r.user, r.bank))
        \/ Answer("ok") /\ \E row : Save(InsertAssociation(work, row))
    BY <1>1 DEF AddUser
  <2>2. Over
    BY <1>0, <1>b, <2>1, AssociationStatementsOrdered
  <2> QED BY <1>1, <2>2, ShortSteady DEF AddUser, Short
<1>2. CASE EditAllUsers(r)
  <2>1. \/ Raise
        \/ Write(work) /\ Answer("error")
        \/ Save(SetAllUsers(work, r.bank, r.def, r.queues)) /\ Answer("ok")
    BY <1>2 DEF EditAllUsers
  <2>2. Over
    BY <1>0, <1>b, <2>1, AssociationStatementsOrdered
  <2> QED BY <1>2, <2>2, ShortSteady DEF EditAllUsers, Short
<1>3. CASE AddQueue(r) \/ DeleteQueue(r)
  <2>1. \/ Write(work) /\ Answer("error")
        \/ Save(InsertQueue(work, r.queue, Default, Default)) /\ Answer("ok")
        \/ Save(RemoveQueue(work, r.queue)) /\ Answer("ok")
    BY <1>3 DEF AddQueue, DeleteQueue
  <2>2. Over
    BY <1>0, <2>1, OtherStatementsOrdered
  <2> QED BY <1>3, <2>2, ShortSteady DEF AddQueue, DeleteQueue, Short
<1>4. CASE AddProject(r) \/ DeleteProject(r)
  <2>1. \/ Raise
        \/ Save(InsertProject(work, r.project)) /\ Answer("ok")
        \/ Save(RemoveProject(work, r.project)) /\ Answer("ok")
    BY <1>4 DEF AddProject, DeleteProject
  <2>2. Over
    BY <1>0, <1>b, <2>1, OtherStatementsOrdered
  <2> QED BY <1>4, <2>2, ShortSteady DEF AddProject, DeleteProject, Short
<1>5. CASE EditFactor(r) \/ ResetFactors(r)
  <2>1. \/ Raise
        \/ Save(SetWeight(work, r.factor, r.weight)) /\ Answer("ok")
        \/ Save(ResetWeights(work)) /\ Answer("ok")
    BY <1>5 DEF EditFactor, ResetFactors
  <2>2. Over
    BY <1>0, <1>b, <2>1, OtherStatementsOrdered
  <2> QED BY <1>5, <2>2, ShortSteady DEF EditFactor, ResetFactors, Short
<1>6. CASE AddConfig(r) \/ DeleteConfig(r)
  BY <1>6, <1>a DEF AddConfig, DeleteConfig, Short
<1>7. CASE SyncUserids(r) \/ ScrubOldJobs(r) \/ ClearUsage(r)
  <2>1. Over
    BY <1>0, <1>7 DEF SyncUserids, ScrubOldJobs, ClearUsage
  <2> QED BY <1>7, <2>1, ShortSteady DEF SyncUserids, ScrubOldJobs, ClearUsage, Short
<1>8. CASE TurnedAway(r)
  BY <1>8, <1>b, ShortSteady DEF TurnedAway
<1> QED BY <1>1, <1>2, <1>3, <1>4, <1>5, <1>6, <1>7, <1>8

LEMMA EditBankSteady ==
  ASSUME NEW h \in Heights, Steady(h), RefusedAtOnce(Requests), NEW r \in Requests, EditBank(r)
  PROVE  Steady(h)'
<1>1. r \in EditBankRequests /\ r.op = "edit_bank"
  BY BoundsAssumption, RequestIs DEF EditBank
<1>2. /\ BelowHigher(r, h, Roots) /\ Keep \in {r.shares, r.parent} /\ Keep \notin Banks
      /\ r.bank \in Banks /\ r.shares \in Given(Shares \cup {Bad}) /\ r.parent \in Given(Banks)
  BY <1>1, NamesAssumption DEF Heights, RefusedAtOnce, EditBankRequests
<1> DEFINE a == OneOf(SharesTask(r), r.shares # Keep)
           b == OneOf(ParentTask(r), r.parent # Keep)
<1>3. Begin(r, (a \o b) \o Last)
  BY DEF EditBank, SharesTask, ParentTask, Last, SaveTask
<1>4. SureEnd(h, r.op, Last)
  BY <1>1, SaveIsSure
<1>5. IsSeq(a) /\ IsSeq(b) /\ IsSeq(Last)
  BY ShortSeqs DEF OneOf
<1>6. (a \o b) \o Last = a \o (b \o Last)
  <2> HIDE DEF a, b
  <2> QED BY <1>5, StepsGrouped
<1>7. CASE r.shares # Keep
  <2>1. SharesTask(r) \in FirstTask(h, r.op)
    <3>1. SharesTask(r) \in Task
      BY <1>2, <1>7 DEF SharesTask, Task, Given
    <3> QED BY <1>1, <3>1 DEF SharesTask, FirstTask, OfCommand
  <2>2. a = <<SharesTask(r)>> /\ b = <<>>
    BY <1>2, <1>7 DEF OneOf
  <2>3. <<>> \o Last = Last
    BY ShortSeqs, Stage
  <2>4. SureList(h, r.op, <<SharesTask(r)>> \o Last, TRUE)
    BY <1>4, <2>1, PutFirst DEF SureEnd
  <2> QED BY <1>3, <1>6, <2>2, <2>3, <2>4, BegunSteady
<1>8. CASE r.shares = Keep
  <2>1. a = <<>>
    BY <1>8 DEF OneOf
  <2>2. <<>> \o (b \o Last) = b \o Last
    <3>1. IsSeq(b \o Last)
      <4> HIDE DEF a, b
      <4> QED BY <1>5, StepsGrouped
    <3> HIDE DEF b
    <3> QED BY <3>1, Stage
  <2>3. SureList(h, r.op, b \o Last, TRUE)
    <3>1. CASE r.parent = Keep
      <4>1. b = <<>> /\ <<>> \o Last = Last
        BY <3>1, ShortSeqs, Stage DEF OneOf
      <4> QED BY <1>4, <4>1, SureEndIsSure
    <3>2. CASE r.parent # Keep
      <4>1. ParentTask(r) \in Task
        BY <1>2, <3>2 DEF ParentTask, Task, Given
      <4>2. ParentTask(r) \in FirstTask(h, r.op)
        BY <1>1, <1>2, <3>2, <4>1 DEF ParentTask, FirstTask, OfCommand, BelowHigher
      <4>3. b = <<ParentTask(r)>>
        BY <3>2 DEF OneOf
      <4> QED BY <1>4, <4>2, <4>3, PutFirst DEF SureEnd
    <3> QED BY <3>1, <3>2
  <2> HIDE DEF a, b
  <2> QED BY <1>3, <1>6, <2>1, <2>2, <2>3, BegunSteady
<1> QED BY <1>7, <1>8

LEMMA EditConfigSteady ==
  ASSUME NEW h, Steady(h), RefusedAtOnce(Requests), NEW r \in Requests, EditConfig(r)
  PROVE  Steady(h)'
<1>1. r \in EditConfigRequests /\ r.op = "edit_config"
  BY BoundsAssumption, RequestIs DEF EditConfig
<1>2. r.key2 = Keep /\ r.key \in Keys /\ r.value \in Shares \cup {Bad}
  BY <1>1 DEF RefusedAtOnce, EditConfigRequests
<1> DEFINE b == OneOf(Key2Task(r), r.key2 # Keep)
           c == OneOf(RebinTask, Rebins(r))
<1>3. Begin(r, ((KeyStep(r) \o b) \o c) \o Last)
  BY DEF EditConfig, KeyStep, KeyTask, Key2Task, RebinTask, Rebins, Last, SaveTask
<1>4. b = <<>> /\ c = RebinStep(r)
  BY <1>2 DEF OneOf, RebinStep
<1>5. IsSeq(KeyStep(r)) /\ IsSeq(b) /\ IsSeq(c) /\ IsSeq(Last)
  BY <1>4, ShortSeqs DEF KeyStep, RebinStep
<1> HIDE DEF b, c
<1>6. KeyStep(r) \o b = KeyStep(r)
  BY <1>4 DEF KeyStep
<1>7. (KeyStep(r) \o c) \o Last = <<KeyTask(r)>> \o FromRebin(r)
  BY <1>4, <1>5, StepsGrouped DEF FromRebin, KeyStep
<1>8. RebinTask \in SureTask(h, r.op)
  BY <1>1 DEF RebinTask, SureTask, OfCommand, Task
<1>9. SureEnd(h, r.op, FromRebin(r))
  BY <1>1, <1>8, SaveIsSure, PutBefore DEF FromRebin, RebinStep
<1>10. KeyTask(r) \in FirstTask(h, r.op)
  <2>1. KeyTask(r) \in Task
    BY <1>2 DEF KeyTask, Task
  <2> QED BY <1>1, <2>1 DEF KeyTask, FirstTask, OfCommand
<1>11. SureList(h, r.op, <<KeyTask(r)>> \o FromRebin(r), TRUE)
  BY <1>9, <1>10, PutFirst DEF SureEnd
<1> QED BY <1>3, <1>6, <1>7, <1>11, BegunSteady

LEMMA DeleteUserSteady ==
  ASSUME NEW h, Steady(h), NEW r \in Requests, DeleteUser(r)
  PROVE  Steady(h)'
<1>1. r \in DeleteUserRequests /\ r.op = "delete_user"
  BY BoundsAssumption, RequestIs DEF DeleteUser
<1>2. UsersTask(r) \in SureTask(h, r.op)
  <2>1. UsersTask(r) \in Task
    BY <1>1 DEF UsersTask, DeleteUserRequests, Task
  <2> QED BY <1>1, <2>1 DEF UsersTask, SureTask, OfCommand
<1>3. SureEnd(h, r.op, <<UsersTask(r)>>)
  BY <1>2 DEF SureEnd, Closes, Closing, UsersTask
<1>4. Begin(r, <<UsersTask(r)>>)
  BY DEF DeleteUser, Removals, OneOf, UsersTask
<1> QED BY <1>3, <1>4, SureEndIsSure, BegunSteady

LEMMA EditQueueSteady ==
  ASSUME NEW h, Steady(h), NEW r \in Requests, EditQueue(r)
  PROVE  Steady(h)'
<1>1. r \in EditQueueRequests /\ r.op = "edit_queue" /\ {r.running, r.nodes} # {Keep}
  BY BoundsAssumption, RequestIs DEF EditQueue
<1>2. ASSUME NEW field \in {"running", "nodes"}, NEW value \in Shares \cup {Bad}
      PROVE  /\ LimitTask(r, field, value) \in SureTask(h, r.op)
             /\ LimitTask(r, field, value).do = "queue_limit"
  <2>1. LimitTask(r, field, value) \in Task
    BY <1>1 DEF LimitTask, EditQueueRequests, Task
  <2> QED BY <1>1, <2>1 DEF LimitTask, SureTask, OfCommand
<1>3. Begin(r, FromRunning(r))
  BY DEF EditQueue, OneOf, FromRunning, RunningStep, NodesStep, LimitTask
<1>4. r.running \in Given(Shares \cup {Bad}) /\ r.nodes \in Given(Shares \cup {Bad})
  BY <1>1 DEF EditQueueRequests
<1>5. SureEnd(h, r.op, FromRunning(r))
  <2>1. CASE r.nodes # Keep
    <3>1. SureEnd(h, r.op, NodesStep(r))
      BY <1>2, <1>4, <2>1 DEF NodesStep, SureEnd, Closes, Closing, Given
    <3>2. r.running # Keep => LimitTask(r, "running", r.running) \in SureTask(h, r.op)
      BY <1>2, <1>4 DEF Given
    <3> QED BY <3>1, <3>2, PutBefore DEF FromRunning, RunningStep
  <2>2. CASE r.nodes = Keep
    <3>1. r.running # Keep
      BY <1>1, <2>2
    <3>2. FromRunning(r) = <<LimitTask(r, "running", r.running)>>
      BY <2>2, <3>1 DEF FromRunning, RunningStep, NodesStep
    <3> QED BY <1>2, <1>4, <3>1, <3>2 DEF SureEnd, Closes, Closing, Given
  <2> QED BY <2>1, <2>2
<1> QED BY <1>3, <1>5, SureEndIsSure, BegunSteady

LEMMA EditUserSteady ==
  ASSUME NEW h, Steady(h), RefusedAtOnce(Requests), NEW r \in Requests, EditUser(r)
  PROVE  Steady(h)'
<1>1. r \in EditUserRequests /\ r.op = "edit_user"
  BY BoundsAssumption, RequestIs DEF EditUser
<1>2. /\ r.def = Reset => ~Modifies(r)
      /\ r.queues \notin {Keep, Reset} => ~Modifies(r) /\ r.def = Keep /\ r.shares = Keep
      /\ r.projects \notin {Keep, Reset} =>
           ~Modifies(r) /\ r.def = Keep /\ r.shares = Keep /\ r.queues = Keep
  BY <1>1 DEF RefusedAtOnce, Modifies
<1>3. /\ ModifyTask(r) \in Task
      /\ r.def # Keep => DefTask(r) \in Task
      /\ r.shares # Keep => UserSharesTask(r) \in Task
      /\ r.queues # Keep => QueuesTask(r) \in Task
      /\ r.projects # Keep => ProjectsTask(r) \in Task
  <2>0. /\ r.user \in Users /\ r.bank \in Banks \cup {Keep}
        /\ r.add \in Queues \cup {Keep} /\ r.del \in Queues \cup {Keep}
        /\ r.def # Keep => r.def \in Banks \cup {Reset}
        /\ r.shares # Keep => r.shares \in Shares
        /\ r.queues # Keep => r.queues \in (SUBSET Queues) \cup {Reset}
        /\ r.projects # Keep => r.projects \in (SUBSET Projects) \cup {Reset}
    BY <1>1 DEF EditUserRequests, Given
  <2>1. ModifyTask(r) \in Task
    BY <2>0 DEF ModifyTask, Task
  <2>2. r.def # Keep => DefTask(r) \in Task
    BY <2>0 DEF DefTask, Task
  <2>3. r.shares # Keep => UserSharesTask(r) \in Task
    BY <2>0 DEF UserSharesTask, Task
  <2>4. r.queues # Keep => QueuesTask(r) \in Task
    BY <2>0 DEF QueuesTask, Task
  <2>5. r.projects # Keep => ProjectsTask(r) \in Task
    BY <2>0 DEF ProjectsTask, Task
  <2> QED BY <2>1, <2>2, <2>3, <2>4, <2>5
<1>4. /\ ModifyTask(r) \in FirstTask(h, r.op)
      /\ r.def # Keep => DefTask(r) \in FirstTask(h, r.op)
      /\ r.queues # Keep => QueuesTask(r) \in FirstTask(h, r.op)
      /\ r.projects # Keep => ProjectsTask(r) \in FirstTask(h, r.op)
  BY <1>1, <1>3 DEF FirstTask, OfCommand, ModifyTask, DefTask, QueuesTask, ProjectsTask
<1>5. /\ r.def \notin {Keep, Reset} => DefTask(r) \in SureTask(h, r.op)
      /\ r.shares # Keep => UserSharesTask(r) \in SureTask(h, r.op)
      /\ r.queues = Reset => QueuesTask(r) \in SureTask(h, r.op)
      /\ r.projects = Reset => ProjectsTask(r) \in SureTask(h, r.op)
  <2>1. Keep # Reset
    BY NamesAssumption
  <2> QED BY <1>1, <1>3, <2>1
          DEF SureTask, OfCommand, DefTask, UserSharesTask, QueuesTask, ProjectsTask
<1>6. r.projects \in {Keep, Reset} => SureEnd(h, r.op, FromProjects(r))
  BY <1>1, <1>5, SaveIsSure, PutBefore DEF FromProjects, ProjectsStep
<1>7. r.projects \in {Keep, Reset} /\ r.queues \in {Keep, Reset} =>
        SureEnd(h, r.op, FromQueues(r)) /\ SureEnd(h, r.op, FromUserShares(r))
  <2> SUFFICES ASSUME r.projects \in {Keep, Reset}, r.queues \in {Keep, Reset}
               PROVE  SureEnd(h, r.op, FromQueues(r)) /\ SureEnd(h, r.op, FromUserShares(r))
    OBVIOUS
  <2>1. SureEnd(h, r.op, FromQueues(r))
    BY <1>5, <1>6, PutBefore DEF FromQueues, QueuesStep
  <2>2. SureEnd(h, r.op, FromUserShares(r))
    BY <1>5, <2>1, PutBefore DEF FromUserShares, UserSharesStep
  <2> QED BY <2>1, <2>2
<1>8. SureList(h, r.op, FromModify(r), TRUE)
  <2>1. CASE r.projects \notin {Keep, Reset}
    <3>1. FromModify(r) = FromProjects(r)
      BY <1>2, <2>1, UserSteps
    <3>2. FromProjects(r) = <<ProjectsTask(r)>> \o Last
      BY <2>1 DEF FromProjects, ProjectsStep
    <3> QED BY <1>1, <1>4, <2>1, <3>1, <3>2, SaveIsSure, PutFirst DEF SureEnd
  <2>2. CASE r.projects \in {Keep, Reset} /\ r.queues \notin {Keep, Reset}
    <3>1. FromModify(r) = FromQueues(r)
      BY <1>2, <2>2, UserSteps
    <3>2. FromQueues(r) = <<QueuesTask(r)>> \o FromProjects(r)
      BY <2>2 DEF FromQueues, QueuesStep
    <3> QED BY <1>4, <1>6, <2>2, <3>1, <3>2, PutFirst DEF SureEnd
  <2>3. CASE r.projects \in {Keep, Reset} /\ r.queues \in {Keep, Reset} /\ r.def = Reset
    <3>1. r.def # Keep /\ FromModify(r) = FromDef(r)
      BY <1>2, <2>3, NamesAssumption, UserSteps
    <3>2. FromDef(r) = <<DefTask(r)>> \o FromUserShares(r)
      BY <3>1 DEF FromDef, DefStep
    <3> QED BY <1>4, <1>7, <2>3, <3>1, <3>2, PutFirst DEF SureEnd
  <2>4. CASE r.projects \in {Keep, Reset} /\ r.queues \in {Keep, Reset} /\ r.def # Reset
    <3>1. SureEnd(h, r.op, FromDef(r))
      BY <1>5, <1>7, <2>4, PutBefore DEF FromDef, DefStep
    <3>2. CASE Modifies(r)
      <4>1. FromModify(r) = <<ModifyTask(r)>> \o FromDef(r)
        BY <3>2 DEF FromModify, ModifyStep
      <4> QED BY <1>4, <3>1, <4>1, PutFirst DEF SureEnd
    <3>3. CASE ~Modifies(r)
      <4>1. FromModify(r) = FromDef(r)
        BY <3>3, UserSteps
      <4> QED BY <3>1, <4>1, SureEndIsSure
    <3> QED BY <3>2, <3>3
  <2> QED BY <2>1, <2>2, <2>3, <2>4
<1>9. (Idle /\ Raise) \/ Begin(r, FromModify(r))
  BY EditUserTasks
<1>10. CASE Idle /\ Raise
  BY <1>10, ShortSteady DEF Raise
<1>11. CASE Begin(r, FromModify(r))
  BY <1>8, <1>11, BegunSteady
<1> QED BY <1>9, <1>10, <1>11

LEMMA ReceiveSteady ==
  ASSUME NEW h \in Heights, TypeOK, Steady(h), RefusedAtOnce(Requests),
         NEW r \in Requests, Receive(r)
  PROVE  Steady(h)'
<1>1. ~PopulateDb(r)
  BY DEF PopulateDb, RefusedAtOnce
<1> QED
  BY <1>1, AddBankSteady, DeleteBankSteady, EditBankSteady, DeleteUserSteady, EditUserSteady,
     EditQueueSteady, EditConfigSteady, ShortCommandsSteady DEF Receive

---------------------------------------------------------------------------
(* A command that goes on.                                                 *)
LEMMA VisitSteady ==
  ASSUME NEW h \in Heights, TypeOK, Steady(h), VisitBank
  PROVE  Steady(h)'
<1> DEFINE t == Head(todo)
           S == SureTask(h, cmd.op)
<1>1. ~Idle /\ t.do = "banks"
  BY DEF VisitBank, Doing
<1>2. t \in S /\ t \in Task /\ Tail(todo) # <<>>
  BY <1>1, LeftSure DEF FirstTask, Closing
<1>3. /\ t \in [do: {"banks"}, names: SUBSET Banks, depth: Nat, force: BOOLEAN]
      /\ \A b \in t.names : h[b] + t.depth < MaxDepth /\ (t.force => b \notin Roots)
      /\ OfCommand(cmd.op, t)
  BY <1>1, <1>2, TaskIs DEF SureTask
<1>4. PICK b \in t.names :
        LET d == RemoveBank(work, b, t.force)
            subs == SubBanks(d, b)
            members == {x.user : x \in MembersOf(d, b)}
        IN IF t.depth >= MaxDepth
             THEN Write(d) /\ Answer("error")
             ELSE /\ Write(d)
                  /\ GoOn((IF subs # {} THEN Visits(subs, t.depth + 1, t.force)
                           ELSE Removals(members, b, t.force))
                            \o Visits(t.names \ {b}, t.depth, t.force))
  BY DEF VisitBank
<1> DEFINE d == RemoveBank(work, b, t.force)
           subs == SubBanks(d, b)
           members == {x.user : x \in MembersOf(d, b)}
           lower == IF subs # {} THEN Visits(subs, t.depth + 1, t.force)
                    ELSE Removals(members, b, t.force)
           rest == Visits(t.names \ {b}, t.depth, t.force)
<1> HIDE DEF t
<1>5. /\ b \in Banks /\ t.force \in BOOLEAN /\ t.depth \in Nat /\ t.names \in SUBSET Banks
      /\ h[b] + t.depth < MaxDepth /\ (t.force => b \notin Roots)
  BY <1>3
<1>6. MaxDepth \in Nat /\ \A x \in Banks : h[x] \in Nat
  BY BoundsAssumption DEF Heights
<1>7. ~(t.depth >= MaxDepth)
  <2>1. h[b] \in Nat /\ t.depth \in Nat /\ MaxDepth \in Nat /\ h[b] + t.depth < MaxDepth
    BY <1>5, <1>6
  <2> QED BY <2>1
<1>8. Write(d) /\ GoOn(lower \o rest)
  BY <1>4, <1>7
<1>9. work \in Tables /\ Ordered(h, work) /\ Ordered(h, disk)
  BY DEF TypeOK, Steady
<1>10. d \in Tables /\ Ordered(h, d) /\ (d.banks = {} => d = work)
  <2>1. d \in Tables
    BY <1>5, <1>9, BankStatementTypes
  <2>2. Ordered(h, d) /\ (d.banks = {} => d = work)
    BY <1>5, <1>9, RemoveBankOrdered
  <2> QED BY <2>1, <2>2
<1> HIDE DEF d
<1>11. \A x \in subs : x \in Banks /\ x \notin Roots /\ h[x] < h[b]
  BY <1>5, <1>10, NamesAssumption DEF SubBanks, Ordered, Tables, BankRow
<1>12. members \in SUBSET Users
  BY <1>10 DEF MembersOf, Tables, AssocRow
<1> HIDE DEF subs, members
<1> DEFINE down == [do |-> "banks", names |-> subs, depth |-> t.depth + 1, force |-> t.force]
           next == [do |-> "banks", names |-> t.names \ {b}, depth |-> t.depth, force |-> t.force]
           gone == [do |-> "users", names |-> members, bank |-> b, force |-> t.force]
<1>13. down \in S
  <2>1. down \in Task
    BY <1>5, <1>11 DEF Task
  <2>2. ASSUME NEW x \in subs PROVE h[x] + (t.depth + 1) < MaxDepth
    <3>1. h[b] \in Nat /\ h[x] \in Nat /\ h[x] < h[b]
      BY <1>5, <1>6, <1>11
    <3> QED BY <1>5, <1>6, <3>1
  <2> QED BY <1>1, <1>3, <1>11, <2>1, <2>2 DEF SureTask, OfCommand
<1>14. next \in S
  <2>1. next \in Task
    BY <1>5 DEF Task
  <2> QED BY <1>1, <1>3, <2>1 DEF SureTask, OfCommand
<1>15. gone \in S
  <2>1. gone \in Task
    BY <1>5, <1>12 DEF Task
  <2> QED BY <1>1, <1>3, <2>1 DEF SureTask, OfCommand
<1>16. lower \in Seq(S) /\ rest \in Seq(S)
  <2> HIDE DEF S
  <2>1. /\ Visits(subs, t.depth + 1, t.force) = OneOf(down, subs # {})
        /\ Removals(members, b, t.force) = OneOf(gone, members # {})
        /\ rest = OneOf(next, t.names \ {b} # {})
    BY DEF Visits, Removals
  <2>2. ASSUME NEW x \in S, NEW cond PROVE OneOf(x, cond) \in Seq(S)
    BY DEF OneOf
  <2> HIDE DEF down, gone, next, rest
  <2> QED BY <1>13, <1>14, <1>15, <2>1, <2>2
<1> HIDE DEF lower, rest, S
<1>17. lower \o rest \in Seq(S)
  BY <1>16
<1>18. disk' = disk /\ work' = d
  BY <1>8 DEF Write
<1>19. cmd.op # "edit_queue"
  BY <1>1, <1>3 DEF OfCommand
<1>20. cmd.op = "delete_bank" /\ work'.banks = {} => work' = disk'
  BY <1>10, <1>18 DEF Steady
<1> QED BY <1>1, <1>2, <1>8, <1>9, <1>10, <1>17, <1>18, <1>19, <1>20, WentOnSteady DEF S

LEMMA UsageSteady ==
  ASSUME NEW h \in Heights, TypeOK, Steady(h), RecalculateUsage
  PROVE  Steady(h)'
<1>1. ~Idle /\ Head(todo).do = "usage"
  BY DEF RecalculateUsage, Doing
<1>2. cmd.op = "delete_bank"
  BY <1>1, LeftSure DEF SureTask, FirstTask, OfCommand
<1>3. work \in Tables /\ Ordered(h, work) /\ Ordered(h, disk)
  BY DEF TypeOK, Steady
<1>4. CASE Raise
  <2>1. \A x \in work.banks : x.parent = NoBank => ~EndlessBelow(work, x.bank)
    BY <1>3, WalksEnd DEF Tables, BankRow
  <2>2. ~HasRoot(work) \/ (Write(work) /\ GoOn(<<>>))
    BY <2>1 DEF RecalculateUsage
  <2>3. CASE ~HasRoot(work)
    <3>1. work = disk
      BY <1>2, <1>3, <2>3 DEF Ordered, Steady
    <3> QED BY <1>3, <1>4, <3>1, AnsweredSteady DEF Raise, NoWrite
  <2>4. CASE Write(work) /\ GoOn(<<>>)
    BY <1>1, <1>2, <1>3, <2>4, DoneSteady DEF Write, Closing, Steady
  <2> QED BY <2>2, <2>3, <2>4
<1>5. CASE Write(work) /\ GoOn(<<>>)
  BY <1>1, <1>2, <1>3, <1>5, DoneSteady DEF Write, Closing, Steady
<1> QED BY <1>4, <1>5 DEF RecalculateUsage

LEMMA SaveSteady ==
  ASSUME NEW h, TypeOK, CleanUnlessLocked, Steady(h), SaveAll
  PROVE  Steady(h)'
<1>1. ~Idle /\ GoOn(<<>>)
  BY DEF SaveAll, Doing
<1>2. work' = work /\ disk' = work
  BY DEF SaveAll, Save, NoWrite, CleanUnlessLocked
<1> QED BY <1>1, <1>2, DoneSteady DEF Steady

LEMMA DisableSteady ==
  ASSUME NEW h, TypeOK, Steady(h), DisableUser
  PROVE  Steady(h)'
<1> DEFINE t == Head(todo)
           S == SureTask(h, cmd.op)
<1>1. ~Idle /\ t.do = "users" /\ t \in S /\ t \in Task
  BY LeftSure DEF DisableUser, Doing, FirstTask
<1>2. /\ t \in [do: {"users"}, names: SUBSET Users, bank: Banks, force: BOOLEAN]
      /\ OfCommand(cmd.op, t)
  BY <1>1, TaskIs DEF SureTask
<1>3. PICK u \in t.names :
        /\ Save(RemoveAssociation(work, u, t.bank, t.force))
        /\ GoOn(<<[do |-> "default", user |-> u, bank |-> t.bank]>>
                  \o Removals(t.names \ {u}, t.bank, t.force))
  BY DEF DisableUser
<1> DEFINE first == DefaultTask(u, t.bank)
           others == [do |-> "users", names |-> t.names \ {u}, bank |-> t.bank, force |-> t.force]
           more == OneOf(others, t.names \ {u} # {})
           rest == more \o Tail(todo)
<1>4. Ordered(h, work') /\ disk' = work'
  BY <1>3, AssociationStatementsOrdered DEF Save, Steady, TypeOK
<1>5. first \in FirstTask(h, cmd.op) /\ Closing(first)
  <2>1. first \in Task
    BY <1>2 DEF DefaultTask, Task
  <2> QED BY <1>1, <1>2, <2>1 DEF DefaultTask, FirstTask, OfCommand, Closing
<1>6. others \in S /\ Closing(others)
  <2>1. others \in Task
    BY <1>2 DEF Task
  <2> QED BY <1>1, <1>2, <2>1 DEF SureTask, OfCommand, Closing
<1>7. more \in Seq(S) /\ Closes(more)
  <2>1. <<others>> \in Seq(S) /\ Closes(<<others>>) /\ <<>> \in Seq(S) /\ Closes(<<>>)
    <3> HIDE DEF others, S
    <3> QED BY <1>6 DEF Closes
  <2> QED BY <2>1 DEF OneOf
<1>8. Tail(todo) \in Seq(S) /\ Closes(Tail(todo))
  BY <1>1, LeftSure
<1>9. GoOn(<<first>> \o more)
  BY <1>3 DEF DefaultTask, Removals
<1> HIDE DEF first, others, more, S
<1>10. rest \in Seq(S) /\ Closes(rest)
  BY <1>7, <1>8, Joined
<1>11. (<<first>> \o more) \o Tail(todo) = <<first>> \o rest
  <2>1. IsSeq(<<first>>) /\ IsSeq(more) /\ IsSeq(Tail(todo))
    BY <1>7, <1>8, ShortSeqs DEF IsSeq
  <2>2. PICK one, left : one = <<first>> /\ left = Tail(todo)
    OBVIOUS
  <2>3. IsSeq(one) /\ IsSeq(left) /\ IsSeq(more)
    BY <2>1, <2>2
  <2>4. (one \o more) \o left = one \o (more \o left)
    BY <2>3, StepsGrouped
  <2> QED BY <2>2, <2>4
<1> HIDE DEF rest
<1>12. <<first>> \o rest # <<>>
  BY <1>10
<1>13. todo' = <<first>> \o rest /\ cmd' = cmd
  BY <1>9, <1>11, <1>12, GoesOn
<1>14. SureList(h, cmd.op, <<first>> \o rest, TRUE)
  BY <1>5, <1>10, PutFirst DEF S
<1>15. ~Idle'
  BY <1>12, <1>13 DEF Idle
<1> QED BY <1>4, <1>13, <1>14, <1>15 DEF Steady

LEMMA DefaultSteady ==
  ASSUME NEW h, TypeOK, Steady(h), UpdateDefaultBank
  PROVE  Steady(h)'
<1>1. ~Idle /\ Head(todo).do = "default" /\ GoOn(<<>>)
  BY DEF UpdateDefaultBank, Doing
<1>2. work = disk
  BY <1>1, LeftSure DEF SureTask
<1>3. work' = disk' /\ Ordered(h, disk')
  BY <1>2, AssociationStatementsOrdered DEF UpdateDefaultBank, NoWrite, Save, TypeOK, Steady
<1> QED BY <1>1, <1>3, DoneSteady

(* A statement that is not committed yet, of a command that commits last.  *)
LEMMA WroteSteady ==
  ASSUME NEW h, TypeOK, Steady(h), ~Idle,
         ~Closing(Head(todo)), cmd.op \notin {"edit_queue", "delete_bank"},
         \/ Raise /\ work = disk
         \/ Write(work) /\ Answer("error") /\ work = disk
         \/ GoOn(<<>>) /\ \E d : Ordered(h, d) /\ (Write(d) \/ Save(d))
  PROVE  Steady(h)'
<1>1. Ordered(h, disk') /\ Ordered(h, work')
  BY DEF Raise, NoWrite, Write, Save, Steady
<1>2. CASE Raise /\ work = disk
  BY <1>1, <1>2, AnsweredSteady DEF Raise, NoWrite
<1>3. CASE Write(work) /\ Answer("error") /\ work = disk
  BY <1>1, <1>3, AnsweredSteady DEF Write
<1>4. CASE GoOn(<<>>)
  BY <1>1, <1>4, DoneSteady
<1> QED BY <1>2, <1>3, <1>4

LEMMA EditStepSteady ==
  ASSUME NEW h, TypeOK, Steady(h),
         \/ EditBankShares \/ EditBankParent \/ EditModifyQueues \/ EditDefaultBank
         \/ EditShares \/ EditQueues \/ EditProjects \/ EditConfigKey
  PROVE  Steady(h)'
<1> DEFINE t == Head(todo)
<1>1. /\ ~Idle
      /\ t.do \in {"bank_shares", "bank_parent", "modify_queues", "user_def", "user_shares",
                   "user_queues", "user_projects", "config"}
  BY DEF EditBankShares, EditBankParent, EditModifyQueues, EditDefaultBank, EditShares,
     EditQueues, EditProjects, EditConfigKey, Doing
<1>2. ~Closing(t) /\ t \in Task
  BY <1>1, LeftSure DEF Closing
<1>3. t \in SureTask(h, cmd.op) \/ (work = disk /\ t \in FirstTask(h, cmd.op))
  BY <1>1, LeftSure
<1>4. cmd.op \notin {"edit_queue", "delete_bank"}
  BY <1>1, <1>3 DEF SureTask, FirstTask, OfCommand
<1>5. work \in Tables /\ Ordered(h, work)
  BY DEF TypeOK, Steady
<1> DEFINE Fine == \/ Raise /\ work = disk
                   \/ Write(work) /\ Answer("error") /\ work = disk
                   \/ GoOn(<<>>) /\ \E d : Ordered(h, d) /\ (Write(d) \/ Save(d))
<1>6. CASE EditBankShares
  <2>1. t.do = "bank_shares"
    BY <1>6 DEF EditBankShares, Doing
  <2>2. work = disk
    BY <1>3, <2>1 DEF SureTask
  <2>3. t.bank \in Banks /\ t.value \in Shares \cup {Bad}
    BY <1>2, <2>1, TaskIs
  <2>4. t.value # Bad => Ordered(h, SetBankShares(work, t.bank, t.value))
    BY <1>5, <2>3, BankStatementsOrdered
  <2>5. Fine
    BY <1>6, <2>2, <2>4 DEF EditBankShares
  <2> QED BY <1>1, <1>2, <1>4, <2>5, WroteSteady
<1>7. CASE EditBankParent
  <2>1. t.do = "bank_parent"
    BY <1>7 DEF EditBankParent, Doing
  <2>2. work = disk /\ t.bank \notin Roots /\ h[t.bank] < h[t.value]
    BY <1>3, <2>1 DEF SureTask, FirstTask
  <2>3. t.bank \in Banks /\ t.value \in Banks
    BY <1>2, <2>1, TaskIs
  <2>4. Ordered(h, SetBankParent(work, t.bank, t.value))
    BY <1>5, <2>2, <2>3, BankStatementsOrdered
  <2>5. Fine
    BY <1>7, <2>2, <2>4 DEF EditBankParent
  <2> QED BY <1>1, <1>2, <1>4, <2>5, WroteSteady
<1>8. CASE EditModifyQueues
  <2>1. t.do = "modify_queues"
    BY <1>8 DEF EditModifyQueues, Doing
  <2>2. work = disk
    BY <1>3, <2>1 DEF SureTask
  <2>3. Ordered(h, ModifyQueues(work, t.user, t.bank, t.add, t.del))
    BY <1>5, AssociationStatementsOrdered
  <2>4. Fine
    BY <1>8, <2>2, <2>3 DEF EditModifyQueues
  <2> QED BY <1>1, <1>2, <1>4, <2>4, WroteSteady
<1>9. CASE EditDefaultBank
  <2>1. t.do = "user_def"
    BY <1>9 DEF EditDefaultBank, Doing
  <2>2. t.value = Reset => work = disk
    BY <1>3, <2>1 DEF SureTask
  <2>3. Ordered(h, SetDefaultBank(work, t.user, t.bank, t.value))
    BY <1>5, AssociationStatementsOrdered
  <2>4. Fine
    BY <1>9, <2>2, <2>3 DEF EditDefaultBank
  <2> QED BY <1>1, <1>2, <1>4, <2>4, WroteSteady
<1>10. CASE EditShares
  <2>1. Ordered(h, SetShares(work, t.user, t.bank, t.value))
    BY <1>5, AssociationStatementsOrdered
  <2>2. Fine
    BY <1>10, <2>1 DEF EditShares
  <2> QED BY <1>1, <1>2, <1>4, <2>2, WroteSteady
<1>11. CASE EditQueues
  <2>1. t.do = "user_queues"
    BY <1>11 DEF EditQueues, Doing
  <2>2. t.value # Reset => work = disk
    BY <1>3, <2>1 DEF SureTask
  <2>3. \A qs : Ordered(h, SetQueues(work, t.user, t.bank, qs))
    BY <1>5, AssociationStatementsOrdered
  <2>4. Fine
    BY <1>11, <2>2, <2>3 DEF EditQueues
  <2> QED BY <1>1, <1>2, <1>4, <2>4, WroteSteady
<1>12. CASE EditProjects
  <2>1. t.do = "user_projects"
    BY <1>12 DEF EditProjects, Doing
  <2>2. t.value # Reset => work = disk
    BY <1>3, <2>1 DEF SureTask
  <2>3. \A ps : Ordered(h, SetProjects(work, t.user, t.bank, ps))
    BY <1>5, AssociationStatementsOrdered
  <2>4. Fine
    BY <1>12, <2>2, <2>3 DEF EditProjects
  <2> QED BY <1>1, <1>2, <1>4, <2>4, WroteSteady
<1>13. CASE EditConfigKey
  <2>1. t.do = "config"
    BY <1>13 DEF EditConfigKey, Doing
  <2>2. work = disk
    BY <1>3, <2>1 DEF SureTask
  <2>3. Ordered(h, SetKey(work, t.key, t.value))
    BY <1>5, OtherStatementsOrdered
  <2>4. Fine
    BY <1>13, <2>2, <2>3 DEF EditConfigKey
  <2> QED BY <1>1, <1>2, <1>4, <2>4, WroteSteady
<1> QED BY <1>6, <1>7, <1>8, <1>9, <1>10, <1>11, <1>12, <1>13

LEMMA LimitSteady ==
  ASSUME NEW h, TypeOK, Steady(h), EditQueueLimit
  PROVE  Steady(h)'
<1> DEFINE t == Head(todo)
<1>1. ~Idle /\ t.do = "queue_limit"
  BY DEF EditQueueLimit, Doing
<1>2. cmd.op = "edit_queue"
  BY <1>1, LeftSure DEF SureTask, FirstTask, OfCommand
<1>3. work = disk /\ work \in Tables /\ Ordered(h, work)
  BY <1>2 DEF Steady, TypeOK
<1>4. CASE Raise
  BY <1>3, <1>4, AnsweredSteady DEF Raise, NoWrite
<1>5. CASE Save(SetQueueLimit(work, t.queue, t.field, t.value)) /\ GoOn(<<>>)
  <2>1. Ordered(h, work') /\ work' = disk'
    BY <1>3, <1>5, OtherStatementsOrdered DEF Save
  <2> QED BY <1>1, <1>5, <2>1, DoneSteady
<1> QED BY <1>4, <1>5 DEF EditQueueLimit

LEMMA RebinSteady ==
  ASSUME NEW h, TypeOK, Steady(h), ReconfigureBins
  PROVE  Steady(h)'
<1>1. ~Idle
  BY DEF ReconfigureBins, Doing
<1>2. \A k \in BinKeys : KnownKey(work, k)
  BY NamesAssumption DEF Steady, Ordered
<1>3. Save(work) /\ GoOn(<<>>)
  BY <1>2 DEF ReconfigureBins
<1> QED BY <1>1, <1>3, DoneSteady DEF Save, Steady

LEMMA ContinueSteady ==
  ASSUME NEW h \in Heights, TypeOK, CleanUnlessLocked, Steady(h), Continue
  PROVE  Steady(h)'
<1>1. ~PopulateRow
  BY LeftSure DEF PopulateRow, Doing, SureTask, FirstTask
<1> QED
  BY <1>1, VisitSteady, UsageSteady, SaveSteady, DisableSteady, DefaultSteady, EditStepSteady,
     LimitSteady, RebinSteady DEF Continue

LEMMA NextSteady ==
  ASSUME NEW h \in Heights, TypeOK, CleanUnlessLocked, Steady(h), RefusedAtOnce(Requests),
         [Next]_vars
  PROVE  Steady(h)'
<1>1. CASE LockedOut
  <2>1. work = disk
    BY <1>1 DEF LockedOut, CleanUnlessLocked, Other, Service
  <2> QED BY <1>1, <2>1, AnsweredSteady DEF LockedOut, Raise, NoWrite, Steady
<1>2. CASE Restart
  BY <1>2 DEF Restart, Steady, Idle, SureList
<1>3. CASE OtherLocks \/ OtherUnlocks \/ Tick \/ UNCHANGED vars
  <2>1. UNCHANGED <<disk, work, todo, cmd>>
    BY <1>3 DEF OtherLocks, OtherUnlocks, Tick, vars
  <2> QED BY <2>1 DEF Steady, Idle
<1> QED BY <1>1, <1>2, <1>3, ReceiveSteady, ContinueSteady DEF Next

(* A database that has just been made has its locked keys, and no bank.    *)
LEMMA NewTablesSteady ==
  ASSUME NEW h \in Heights, Init
  PROVE  Steady(h)
<1>1. NewTables.banks = {} /\ NewTables.config = LockedKeys \X {Default}
  BY DEF NewTables
<1>2. ASSUME NEW k \in LockedKeys PROVE KnownKey(NewTables, k)
  <2>1. <<k, Default>> \in NewTables.config /\ <<k, Default>>[1] = k
    BY <1>1
  <2> QED BY <2>1 DEF KnownKey
<1>3. Ordered(h, NewTables)
  BY <1>1, <1>2 DEF Ordered
<1> QED BY <1>3 DEF Init, InitWith, Steady, SureList

(***************************************************************************)
(* No command is refused after it has written, and none returns without a  *)
(* commit, whatever kills and other writers do: if no request has a field  *)
(* that may be refused behind another that was written, and none makes the *)
(* tree of banks deeper than Python's recursion goes, or takes the root    *)
(* from above it.  delete_bank is the command that needs the second: it    *)
(* walks the tree twice, and raises at the end if the root is gone.        *)
(***************************************************************************)
THEOREM NothingStaysOpen ==
  RefusedAtOnce(Requests) /\ TreeStays(Requests) /\ Spec => []NothingLeftOpen
<1> SUFFICES ASSUME RefusedAtOnce(Requests), TreeStays(Requests)
             PROVE  Spec => []NothingLeftOpen
  OBVIOUS
<1>1. PICK h \in Heights : TRUE
  BY DEF TreeStays, Heights, Roots
<1>2. Init => Steady(h)
  BY NewTablesSteady
<1>3. TypeOK /\ CleanUnlessLocked /\ Steady(h) /\ [Next]_vars => Steady(h)'
  BY NextSteady
<1>4. Steady(h) => NothingLeftOpen
  BY DEF Steady, NothingLeftOpen
<1> QED BY <1>2, <1>3, <1>4, TablesTypesOK, OpenTransactionsAreLocked, PTL DEF Spec

(* With such requests the theorems of this module ask for nothing else of  *)
(* a run of the service: its commands change the file as a whole, default  *)
(* banks follow removals, and delete_bank takes the subtree.               *)
COROLLARY CarefulCommandsAreWhole ==
  RefusedAtOnce(Requests) /\ TreeStays(Requests) /\ Spec =>
    /\ ResetsComeLast => WholeCommands
    /\ DefaultsGoTogether => DefaultFollows
    /\ AllRowsStay /\ ParentsStayEmpty => DeleteTakesSubtree
BY NothingStaysOpen, ChangesAreWhole, DefaultsFollow, SubtreesAreTaken, PTL
=============================================================================
