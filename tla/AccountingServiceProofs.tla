------------------------ MODULE AccountingServiceProofs ------------------------
(***************************************************************************)
(* The accounting service: proofs that the clients who wait are the        *)
(* clients in its inbox and that a command runs for the first of them, and *)
(* of what a view shows, for any clients, requests and bounds.             *)
(***************************************************************************)
EXTENDS AccountingService, AccountingDBProofs

(* The rows a view shows are those of the connection, so that they are     *)
(* those of the file when nothing is left open.                            *)
Truthful == shown' = "committed" \/ UNCHANGED shown \/ work # disk

LEMMA ShowIsRead ==
  ASSUME NEW s, NEW d, Show(s, d) \/ ShowFound(s, d)
  PROVE  /\ Transaction
         /\ todo' = <<>>
         /\ s = d => shown' = "committed" \/ UNCHANGED shown
BY DEF Show, ShowFound, Raise, Answer, Transaction

(* What a handler leaves behind: the command is over, or it runs for the   *)
(* request that came in.                                                   *)
Handled(r) == Transaction /\ Truthful /\ (todo' = <<>> \/ cmd' = r)

LEMMA ViewsAreRead ==
  ASSUME NEW r,
         \/ ViewUser(r) \/ ListUsers(r) \/ ViewBank(r) \/ ListBanks(r) \/ BankInfo(r)
         \/ ViewQueue(r) \/ ListQueues(r) \/ ViewProject(r) \/ ListProjects(r)
         \/ ViewFactor(r) \/ ListFactors(r) \/ ViewConfig(r) \/ ListConfigs(r)
         \/ Jobs(r) \/ ShowUsage(r) \/ ExportDb(r) \/ ExportJson(r)
         \/ (\E name : ViewRecords(r, name))
  PROVE  Handled(r)
<1> USE ShowIsRead DEF Handled, Truthful
<1>1. CASE ViewUser(r) \/ ListUsers(r)
  BY <1>1 DEF ViewUser, ListUsers
<1>2. CASE ViewBank(r) \/ ListBanks(r)
  BY <1>2 DEF ViewBank, ListBanks
<1>3. CASE BankInfo(r)
  BY <1>3 DEF BankInfo
<1>4. CASE ViewQueue(r) \/ ListQueues(r) \/ ViewProject(r) \/ ListProjects(r)
  BY <1>4 DEF ViewQueue, ListQueues, ViewProject, ListProjects
<1>5. CASE ViewFactor(r) \/ ListFactors(r)
  BY <1>5 DEF ViewFactor, ListFactors
<1>6. CASE ViewConfig(r) \/ ListConfigs(r)
  BY <1>6 DEF ViewConfig, ListConfigs
<1>7. CASE Jobs(r)
  BY <1>7 DEF Jobs
<1>8. CASE ShowUsage(r)
  BY <1>8 DEF ShowUsage
<1>9. CASE ExportDb(r) \/ ExportJson(r)
  BY <1>9 DEF ExportDb, ExportJson
<1>10. CASE \E name : ViewRecords(r, name)
  BY <1>10 DEF ViewRecords, Raise, Answer, Transaction
<1> QED BY <1>1, <1>2, <1>3, <1>4, <1>5, <1>6, <1>7, <1>8, <1>9, <1>10

(* A request whose command is over, or has just begun. *)
LEMMA ReceiveRunsTheRequest ==
  ASSUME NEW r, Receive(r)
  PROVE  todo' = <<>> \/ cmd' = r
<1> USE DEF Answer, Raise, Begin
<1>1. CASE AddBank(r)
  BY <1>1 DEF AddBank
<1>2. CASE DeleteBank(r) \/ EditBank(r)
  BY <1>2 DEF DeleteBank, EditBank
<1>3. CASE AddUser(r) \/ DeleteUser(r)
  BY <1>3 DEF AddUser, DeleteUser
<1>4. CASE EditUser(r) \/ EditAllUsers(r)
  BY <1>4 DEF EditUser, EditAllUsers
<1>5. CASE AddQueue(r) \/ DeleteQueue(r) \/ EditQueue(r)
  BY <1>5 DEF AddQueue, DeleteQueue, EditQueue
<1>6. CASE AddProject(r) \/ DeleteProject(r) \/ EditFactor(r) \/ ResetFactors(r)
  BY <1>6 DEF AddProject, DeleteProject, EditFactor, ResetFactors
<1>7. CASE AddConfig(r) \/ DeleteConfig(r) \/ EditConfig(r) \/ PopulateDb(r)
  BY <1>7 DEF AddConfig, DeleteConfig, EditConfig, PopulateDb
<1>8. CASE SyncUserids(r) \/ ScrubOldJobs(r) \/ ClearUsage(r) \/ TurnedAway(r)
  BY <1>8 DEF SyncUserids, ScrubOldJobs, ClearUsage, TurnedAway
<1> QED BY <1>1, <1>2, <1>3, <1>4, <1>5, <1>6, <1>7, <1>8 DEF Receive

LEMMA ContinueRunsTheRequest ==
  ASSUME Continue \/ LockedOut
  PROVE  todo # <<>> /\ (todo' = <<>> \/ cmd' = cmd)
<1> USE DEF Answer, Raise, GoOn, Doing, Idle
<1>1. CASE VisitBank
  BY <1>1 DEF VisitBank
<1>2. CASE RecalculateUsage \/ SaveAll
  BY <1>2 DEF RecalculateUsage, SaveAll
<1>3. CASE EditBankShares \/ EditBankParent
  BY <1>3 DEF EditBankShares, EditBankParent
<1>4. CASE DisableUser \/ UpdateDefaultBank
  BY <1>4 DEF DisableUser, UpdateDefaultBank
<1>5. CASE EditModifyQueues \/ EditDefaultBank \/ EditShares
  BY <1>5 DEF EditModifyQueues, EditDefaultBank, EditShares
<1>6. CASE EditQueues
  BY <1>6 DEF EditQueues
<1>7. CASE EditProjects
  BY <1>7 DEF EditProjects
<1>8. CASE EditQueueLimit \/ EditConfigKey
  BY <1>8 DEF EditQueueLimit, EditConfigKey
<1>9. CASE ReconfigureBins \/ PopulateRow
  BY <1>9 DEF ReconfigureBins, PopulateRow
<1>10. CASE LockedOut
  BY <1>10 DEF LockedOut
<1> QED BY <1>1, <1>2, <1>3, <1>4, <1>5, <1>6, <1>7, <1>8, <1>9, <1>10 DEF Continue

LEMMA HandleRunsTheRequest ==
  ASSUME NEW r, Handle(r)
  PROVE  Handled(r)
<1>1. Receive(r) /\ UNCHANGED shown => Handled(r)
  BY ReceiveIsTransaction, ReceiveRunsTheRequest DEF Handled, Truthful
<1> USE <1>1, ViewsAreRead DEF Receive
<1>2. CASE UserHandlers(r) \/ BankHandlers(r) \/ RecordHandlers(r) \/ QueueHandlers(r)
  BY <1>2 DEF UserHandlers, BankHandlers, RecordHandlers, QueueHandlers
<1>3. CASE ProjectHandlers(r) \/ DatabaseHandlers(r) \/ FactorHandlers(r)
  BY <1>3 DEF ProjectHandlers, DatabaseHandlers, FactorHandlers
<1>4. CASE JobHandlers(r) \/ TableHandlers(r) \/ UsageHandlers(r) \/ ConfigHandlers(r)
  BY <1>4 DEF JobHandlers, TableHandlers, UsageHandlers, ConfigHandlers
<1> QED BY <1>2, <1>3, <1>4 DEF Handle

---------------------------------------------------------------------------
(* The transaction of the service, seen from the calls. *)

LEMMA CallsKeepClean ==
  CleanUnlessLocked /\ [ServiceNext]_all_vars => CleanUnlessLocked'
<1> SUFFICES ASSUME CleanUnlessLocked, [ServiceNext]_all_vars PROVE CleanUnlessLocked'
  OBVIOUS
<1>1. CASE UNCHANGED all_vars
  BY <1>1 DEF all_vars, vars, CleanUnlessLocked
<1>2. ASSUME NEW c \in Clients, NEW r \in Sent, Call(c, r) PROVE CleanUnlessLocked'
  BY <1>2 DEF Call, vars, CleanUnlessLocked
<1>3. CASE Serve
  <2>1. Transaction
    BY <1>3, HandleRunsTheRequest DEF Serve, Handled, Raise, Transaction
  <2> QED BY <2>1, TransactionKeepsClean
<1>4. CASE Proceed
  BY <1>4, ContinueIsTransaction, TransactionKeepsClean DEF Proceed
<1>5. CASE ShutdownService \/ Killed
  BY <1>5, OthersKeepClean DEF ShutdownService, Killed, Stop
<1>6. CASE Start
  BY <1>6 DEF Start, vars, CleanUnlessLocked
<1>7. CASE OtherLocks \/ OtherUnlocks \/ Tick
  BY <1>7, OthersKeepClean
<1> QED BY <1>1, <1>2, <1>3, <1>4, <1>5, <1>6, <1>7 DEF ServiceNext

LEMMA ServiceStartsClean == ServiceInit => CleanUnlessLocked
BY DEF ServiceInit, ServiceInitWith, InitWith, CleanUnlessLocked

(***************************************************************************)
(* The lock is held over every open transaction, also when the service     *)
(* answers many clients, is shut down, is killed and starts again.         *)
(***************************************************************************)
THEOREM ServiceTransactionsAreLocked == ServiceSpec => []CleanUnlessLocked
BY ServiceStartsClean, CallsKeepClean, PTL DEF ServiceSpec

(***************************************************************************)
(* A view shows rows that no other process sees only after a request that  *)
(* has left its transaction open: nothing else lets the service's own view *)
(* and the file drift apart.                                               *)
(***************************************************************************)
THEOREM ViewsShowWhatIsCommitted == ServiceSpec => ViewsShowCommitted
<1>1. CleanUnlessLocked /\ [ServiceNext]_all_vars =>
        [lock # Service => shown' # "uncommitted" \/ shown = "uncommitted"]_all_vars
  <2> SUFFICES ASSUME CleanUnlessLocked, [ServiceNext]_all_vars, lock # Service
               PROVE  shown' # "uncommitted" \/ shown = "uncommitted"
    OBVIOUS
  <2>1. CASE Serve
    BY <2>1, HandleRunsTheRequest DEF Serve, Handled, Truthful, CleanUnlessLocked
  <2>2. CASE UNCHANGED shown
    BY <2>2
  <2>3. Serve \/ UNCHANGED shown
    BY DEF ServiceNext, Call, Proceed, ShutdownService, Killed, Stop, Start,
       service_vars, all_vars
  <2> QED BY <2>1, <2>2, <2>3
<1> QED BY <1>1, ServiceTransactionsAreLocked, PTL DEF ServiceSpec, ViewsShowCommitted

---------------------------------------------------------------------------
(* Calls. *)

CallTypes == calling \in [Clients -> Sent \cup {NoCall}] /\ inbox \in Seq(Clients)
CallInv == CallTypes /\ EachCallOnce

LEMMA NoRequestIsNoCall == ASSUME NEW r \in Sent PROVE r # NoCall
<1>1. r.op # "none"
  <2>1. CASE r \in Edits
    BY <2>1 DEF Edits, AddUserRequests, DeleteUserRequests, EditUserRequests,
       EditAllUsersRequests, AddBankRequests, DeleteBankRequests, EditBankRequests,
       AddQueueRequests, EditQueueRequests, DeleteQueueRequests, AddProjectRequests,
       DeleteProjectRequests, EditFactorRequests, ResetFactorsRequests, AddConfigRequests,
       EditConfigRequests, DeleteConfigRequests, PopDbRequests, SyncUseridsRequests,
       ScrubRequests, ClearUsageRequests
  <2>2. CASE r \in Views
    BY <2>2 DEF Views, ViewUserRequests, ListUsersRequests, ViewBankRequests,
       ListBanksRequests, BankInfoRequests, ViewQueueRequests, ListQueuesRequests,
       ViewProjectRequests, ListProjectsRequests, ViewFactorRequests, ListFactorsRequests,
       ViewConfigRequests, ListConfigsRequests, ExportJsonRequests, ExportDbRequests,
       JobsRequests, ShowUsageRequests, ViewJobRecordsRequests, UsageReportRequests
  <2>3. CASE r = Shutdown
    BY <2>3 DEF Shutdown
  <2> QED BY <2>1, <2>2, <2>3, ServiceAssumption
<1> QED BY <1>1 DEF NoCall

Once(q) == \A i, j \in DOMAIN q : q[i] = q[j] => i = j
Members(q) == {q[i] : i \in DOMAIN q}

LEMMA HeadLeaves ==
  ASSUME NEW q \in Seq(Clients), q # <<>>, Once(q)
  PROVE  /\ Tail(q) \in Seq(Clients)
         /\ Once(Tail(q))
         /\ Members(Tail(q)) = Members(q) \ {Head(q)}
         /\ Head(q) \in Clients /\ Head(q) \in Members(q)
<1>1. Len(q) \in Nat /\ Len(q) > 0 /\ DOMAIN q = 1..Len(q)
  OBVIOUS
<1>2. /\ Tail(q) \in Seq(Clients) /\ DOMAIN Tail(q) = 1..(Len(q) - 1)
      /\ \A i \in 1..(Len(q) - 1) : Tail(q)[i] = q[i + 1]
  BY <1>1
<1>3. Once(Tail(q))
  BY <1>1, <1>2 DEF Once
<1>4. Head(q) = q[1] /\ q[1] \in Clients
  BY <1>1
<1>5. ASSUME NEW i \in 1..Len(q), q[i] # q[1] PROVE q[i] \in Members(Tail(q))
  <2>1. i - 1 \in 1..(Len(q) - 1) /\ (i - 1) + 1 = i
    BY <1>1, <1>5
  <2> QED BY <2>1, <1>2 DEF Members
<1>6. ASSUME NEW i \in 1..(Len(q) - 1) PROVE Tail(q)[i] \in Members(q) \ {q[1]}
  BY <1>1, <1>2 DEF Members, Once
<1>7. Members(Tail(q)) = Members(q) \ {Head(q)}
  BY <1>1, <1>2, <1>4, <1>5, <1>6 DEF Members
<1>8. Head(q) \in Members(q)
  BY <1>1, <1>4 DEF Members
<1> QED BY <1>2, <1>3, <1>4, <1>7, <1>8

LEMMA LastComes ==
  ASSUME NEW q \in Seq(Clients), Once(q), NEW c \in Clients, c \notin Members(q)
  PROVE  /\ Append(q, c) \in Seq(Clients)
         /\ Once(Append(q, c))
         /\ Members(Append(q, c)) = Members(q) \cup {c}
         /\ q # <<>> => Append(q, c) # <<>> /\ Head(Append(q, c)) = Head(q)
<1>1. Len(q) \in Nat /\ DOMAIN q = 1..Len(q)
  OBVIOUS
<1>2. /\ Append(q, c) \in Seq(Clients) /\ DOMAIN Append(q, c) = 1..(Len(q) + 1)
      /\ \A i \in 1..Len(q) : Append(q, c)[i] = q[i]
      /\ Append(q, c)[Len(q) + 1] = c
  BY <1>1
<1>3. Once(Append(q, c))
  BY <1>1, <1>2 DEF Once, Members
<1>4. Members(Append(q, c)) = Members(q) \cup {c}
  BY <1>1, <1>2 DEF Members
<1>5. q # <<>> => Append(q, c) # <<>> /\ Head(Append(q, c)) = Head(q)
  BY <1>1, <1>2
<1> QED BY <1>2, <1>3, <1>4, <1>5

(* The same property, with the words of the lemmas.                        *)
LEMMA EachCallOnceSaid ==
  EachCallOnce <=>
    /\ {c \in Clients : calling[c] # NoCall} = Members(inbox)
    /\ Once(inbox)
    /\ todo # <<>> => up /\ inbox # <<>> /\ calling[Head(inbox)] = cmd
BY DEF EachCallOnce, Members, Once, Idle, Client

LEMMA CallKeepsInv ==
  ASSUME CallInv, NEW c \in Clients, NEW r \in Sent, Call(c, r)
  PROVE  CallInv'
<1> USE DEF CallInv, CallTypes
<1>1. todo' = todo /\ cmd' = cmd /\ up' = up
  BY DEF Call, vars
<1>2. CASE up
  <2>1. calling' = [calling EXCEPT ![c] = r] /\ inbox' = Append(inbox, c)
    BY <1>2 DEF Call
  <2>2. calling[c] = NoCall /\ c \notin Members(inbox)
    BY EachCallOnceSaid DEF Call
  <2>3. r # NoCall
    BY NoRequestIsNoCall
  <2>4. /\ inbox' \in Seq(Clients) /\ Once(inbox') /\ Members(inbox') = Members(inbox) \cup {c}
        /\ inbox # <<>> => inbox' # <<>> /\ Head(inbox') = Head(inbox)
    BY <2>1, <2>2, LastComes, EachCallOnceSaid
  <2>5. calling' \in [Clients -> Sent \cup {NoCall}]
    BY <2>1
  <2>6. {x \in Clients : calling'[x] # NoCall} = Members(inbox')
    BY <2>1, <2>3, <2>4, EachCallOnceSaid
  <2>7. ASSUME todo' # <<>>
        PROVE  up' /\ inbox' # <<>> /\ calling'[Head(inbox')] = cmd'
    <3>1. inbox # <<>> /\ calling[Head(inbox)] = cmd /\ Head(inbox) \in Members(inbox)
      BY <1>1, <2>7, EachCallOnceSaid, HeadLeaves
    <3>2. Head(inbox) # c /\ Head(inbox) \in Clients
      BY <3>1, <2>2, HeadLeaves, EachCallOnceSaid
    <3> QED BY <1>1, <1>2, <2>1, <2>4, <3>1, <3>2
  <2> QED BY <2>4, <2>5, <2>6, <2>7 DEF EachCallOnce, Members, Once, Idle, Client
<1>3. CASE ~up
  <2>1. UNCHANGED <<calling, inbox>>
    BY <1>3 DEF Call
  <2> QED BY <1>1, <2>1 DEF EachCallOnce, Idle, Client
<1> QED BY <1>2, <1>3

(* What a step of a command does to the calls. *)
LEMMA RespondKeepsInv ==
  ASSUME CallInv, inbox # <<>>, up, UNCHANGED up, Respond,
         todo' = <<>> \/ cmd' = calling[Client]
  PROVE  CallInv'
<1> USE DEF CallInv, CallTypes
<1>1. CASE todo' = <<>>
  <2>1. calling' = [calling EXCEPT ![Head(inbox)] = NoCall] /\ inbox' = Tail(inbox)
    BY <1>1 DEF Respond, Client
  <2>2. /\ inbox' \in Seq(Clients) /\ Once(inbox') /\ Members(inbox') = Members(inbox) \ {Head(inbox)}
        /\ Head(inbox) \in Clients
    BY <2>1, HeadLeaves, EachCallOnceSaid
  <2>3. calling' \in [Clients -> Sent \cup {NoCall}]
    BY <2>1
  <2>4. {x \in Clients : calling'[x] # NoCall} = Members(inbox')
    BY <2>1, <2>2, EachCallOnceSaid
  <2> QED BY <1>1, <2>2, <2>3, <2>4 DEF EachCallOnce, Members, Once, Idle
<1>2. CASE todo' # <<>>
  <2>1. UNCHANGED <<calling, inbox>>
    BY <1>2 DEF Respond
  <2> QED BY <1>2, <2>1 DEF EachCallOnce, Client
<1> QED BY <1>1, <1>2

LEMMA StepsKeepCalls == CallInv /\ [ServiceNext]_all_vars => CallInv'
<1> SUFFICES ASSUME CallInv, [ServiceNext]_all_vars PROVE CallInv'
  OBVIOUS
<1>1. CASE UNCHANGED all_vars
  BY <1>1 DEF all_vars, vars, service_vars, CallInv, CallTypes, EachCallOnce, Idle, Client
<1>2. ASSUME NEW c \in Clients, NEW r \in Sent, Call(c, r) PROVE CallInv'
  BY <1>2, CallKeepsInv
<1>3. CASE Serve
  <2>1. todo' = <<>> \/ cmd' = calling[Client]
    BY <1>3, HandleRunsTheRequest DEF Serve, Handled, Raise, Answer
  <2> QED BY <1>3, <2>1, RespondKeepsInv DEF Serve
<1>4. CASE Proceed
  <2>1. todo # <<>> /\ (todo' = <<>> \/ cmd' = cmd)
    BY <1>4, ContinueRunsTheRequest DEF Proceed
  <2>2. up /\ inbox # <<>> /\ calling[Client] = cmd
    BY <2>1 DEF CallInv, EachCallOnce, Idle
  <2> QED BY <1>4, <2>1, <2>2, RespondKeepsInv DEF Proceed
<1>5. CASE ShutdownService \/ Killed
  <2>1. todo' = <<>> /\ inbox' = <<>> /\ calling' = [c \in Clients |-> NoCall]
    BY <1>5 DEF ShutdownService, Killed, Stop, Restart
  <2>2. {c \in Clients : calling'[c] # NoCall} = {}
    BY <2>1
  <2>3. DOMAIN inbox' = {} /\ inbox' \in Seq(Clients)
    BY <2>1
  <2> QED BY <2>1, <2>2, <2>3 DEF CallInv, CallTypes, EachCallOnce, Idle
<1>6. CASE Start
  BY <1>6 DEF Start, vars, CallInv, CallTypes, EachCallOnce, Idle, Client
<1>7. CASE (OtherLocks \/ OtherUnlocks \/ Tick) /\ UNCHANGED service_vars
  BY <1>7 DEF OtherLocks, OtherUnlocks, Tick, service_vars, CallInv, CallTypes,
     EachCallOnce, Idle, Client
<1> QED BY <1>1, <1>2, <1>3, <1>4, <1>5, <1>6, <1>7 DEF ServiceNext

(***************************************************************************)
(* Nobody waits whose request the service does not have, no request is     *)
(* there twice, and the running command is the one of the client who has   *)
(* waited longest: answers go to whom they belong, through errors, waits   *)
(* for the file in vain, shutdowns and kills.                              *)
(***************************************************************************)
THEOREM CallsAreServedOnce == ServiceSpec => []EachCallOnce
<1>1. ServiceInit => CallInv
  <2> SUFFICES ASSUME ServiceInit PROVE CallInv
    OBVIOUS
  <2>1. todo = <<>> /\ inbox = <<>> /\ calling = [c \in Clients |-> NoCall]
    BY DEF ServiceInit, ServiceInitWith, InitWith
  <2>2. {c \in Clients : calling[c] # NoCall} = {}
    BY <2>1
  <2>3. DOMAIN inbox = {} /\ inbox \in Seq(Clients)
    BY <2>1
  <2> QED BY <2>1, <2>2, <2>3 DEF CallInv, CallTypes, EachCallOnce, Idle
<1>2. CallInv => EachCallOnce
  BY DEF CallInv
<1> QED BY <1>1, <1>2, StepsKeepCalls, PTL DEF ServiceSpec

---------------------------------------------------------------------------
(* The types. *)

(* A request that only looked, or that nobody took: an answer, and no      *)
(* change.                                                                 *)
Looked == /\ Idle
          /\ NoWrite
          /\ UNCHANGED now
          /\ Answer("ok") \/ Answer("error")
          /\ UNCHANGED shown \/ shown' \in {"committed", "uncommitted"}

LEMMA ShowLooks ==
  ASSUME NEW s, NEW d, Show(s, d) \/ ShowFound(s, d)
  PROVE  Looked
BY DEF Show, ShowFound, Raise, Looked

LEMMA ViewsLook ==
  ASSUME NEW r,
         \/ ViewUser(r) \/ ListUsers(r) \/ ViewBank(r) \/ ListBanks(r) \/ BankInfo(r)
         \/ ViewQueue(r) \/ ListQueues(r) \/ ViewProject(r) \/ ListProjects(r)
         \/ ViewFactor(r) \/ ListFactors(r) \/ ViewConfig(r) \/ ListConfigs(r)
         \/ Jobs(r) \/ ShowUsage(r) \/ ExportDb(r) \/ ExportJson(r)
         \/ (\E name : ViewRecords(r, name))
  PROVE  Looked
<1> USE ShowLooks
<1>1. CASE ViewUser(r) \/ ListUsers(r)
  BY <1>1 DEF ViewUser, ListUsers
<1>2. CASE ViewBank(r) \/ ListBanks(r)
  BY <1>2 DEF ViewBank, ListBanks
<1>3. CASE BankInfo(r)
  BY <1>3 DEF BankInfo
<1>4. CASE ViewQueue(r) \/ ListQueues(r) \/ ViewProject(r) \/ ListProjects(r)
  BY <1>4 DEF ViewQueue, ListQueues, ViewProject, ListProjects
<1>5. CASE ViewFactor(r) \/ ListFactors(r)
  BY <1>5 DEF ViewFactor, ListFactors
<1>6. CASE ViewConfig(r) \/ ListConfigs(r)
  BY <1>6 DEF ViewConfig, ListConfigs
<1>7. CASE Jobs(r)
  BY <1>7 DEF Jobs
<1>8. CASE ShowUsage(r)
  BY <1>8 DEF ShowUsage
<1>9. CASE ExportDb(r) \/ ExportJson(r)
  BY <1>9 DEF ExportDb, ExportJson
<1>10. CASE \E name : ViewRecords(r, name)
  BY <1>10 DEF ViewRecords, Raise, Looked
<1> QED BY <1>1, <1>2, <1>3, <1>4, <1>5, <1>6, <1>7, <1>8, <1>9, <1>10

EditOps ==
  {"add_bank", "delete_bank", "edit_bank", "add_user", "delete_user", "edit_user",
   "edit_all_users", "add_queue", "delete_queue", "edit_queue", "add_project",
   "delete_project", "edit_factor", "reset_factors", "add_config", "delete_config",
   "edit_config", "pop_db", "sync_userids", "scrub_old_jobs", "clear_usage"}

LEMMA EditsAreRequests ==
  ASSUME NEW r \in Sent, r.op \in EditOps
  PROVE  r \in Requests
<1>1. r \notin Views
  BY DEF EditOps, Views, ViewUserRequests, ListUsersRequests, ViewBankRequests,
     ListBanksRequests, BankInfoRequests, ViewQueueRequests, ListQueuesRequests,
     ViewProjectRequests, ListProjectsRequests, ViewFactorRequests, ListFactorsRequests,
     ViewConfigRequests, ListConfigsRequests, ExportJsonRequests, ExportDbRequests,
     JobsRequests, ShowUsageRequests, ViewJobRecordsRequests, UsageReportRequests
<1>2. r # Shutdown
  BY DEF EditOps, Shutdown
<1> QED BY <1>1, <1>2, ServiceAssumption

(* What a request that is not a view does. *)
Edited(r) ==
  \/ AddBank(r) \/ DeleteBank(r) \/ EditBank(r)
  \/ AddUser(r) \/ DeleteUser(r) \/ EditUser(r) \/ EditAllUsers(r)
  \/ AddQueue(r) \/ DeleteQueue(r) \/ EditQueue(r)
  \/ AddProject(r) \/ DeleteProject(r) \/ EditFactor(r) \/ ResetFactors(r)
  \/ AddConfig(r) \/ DeleteConfig(r) \/ EditConfig(r) \/ PopulateDb(r)
  \/ SyncUserids(r) \/ ScrubOldJobs(r) \/ ClearUsage(r)

LEMMA EditedIsReceive ==
  ASSUME NEW r \in Sent, Edited(r)
  PROVE  r \in Requests /\ Receive(r)
<1>1. r.op \in EditOps
  BY DEF Edited, EditOps, Short, AddBank, DeleteBank, EditBank, AddUser, DeleteUser,
     EditUser, EditAllUsers, AddQueue, DeleteQueue, EditQueue, AddProject, DeleteProject,
     EditFactor, ResetFactors, AddConfig, DeleteConfig, EditConfig, PopulateDb,
     SyncUserids, ScrubOldJobs, ClearUsage
<1>2. Receive(r)
  BY DEF Edited, Receive
<1> QED BY <1>1, <1>2, EditsAreRequests

LEMMA HandleReceivesOrLooks ==
  ASSUME NEW r \in Sent, Handle(r)
  PROVE  \/ r \in Requests /\ Receive(r) /\ UNCHANGED shown
         \/ Looked
<1>1. Edited(r) => r \in Requests /\ Receive(r)
  BY EditedIsReceive
<1>2. TurnedAway(r) /\ UNCHANGED shown => Looked
  BY DEF TurnedAway, Raise, Looked
<1> USE <1>1, <1>2, ViewsLook DEF Edited
<1>3. CASE UserHandlers(r) \/ BankHandlers(r) \/ RecordHandlers(r) \/ QueueHandlers(r)
  BY <1>3 DEF UserHandlers, BankHandlers, RecordHandlers, QueueHandlers
<1>4. CASE ProjectHandlers(r) \/ DatabaseHandlers(r) \/ FactorHandlers(r)
  BY <1>4 DEF ProjectHandlers, DatabaseHandlers, FactorHandlers
<1>5. CASE JobHandlers(r) \/ TableHandlers(r) \/ UsageHandlers(r) \/ ConfigHandlers(r)
  BY <1>5 DEF JobHandlers, TableHandlers, UsageHandlers, ConfigHandlers
<1> QED BY <1>3, <1>4, <1>5 DEF Handle

(* What is served was sent. *)
LEMMA ServedIsSent ==
  ASSUME CallTypes, EachCallOnce, inbox # <<>>
  PROVE  Client \in Clients /\ calling[Client] \in Sent
<1>1. Client \in Clients /\ Client \in Members(inbox)
  BY HeadLeaves, EachCallOnceSaid DEF CallTypes, Client
<1>2. calling[Client] # NoCall
  BY <1>1, EachCallOnceSaid
<1> QED BY <1>1, <1>2 DEF CallTypes

LEMMA ServeReceivesOrLooks ==
  ASSUME CallTypes, EachCallOnce, Serve
  PROVE  \/ (\E r \in Requests : r = calling[Client] /\ Receive(r)) /\ UNCHANGED shown
         \/ Looked
<1>1. calling[Client] \in Sent
  BY ServedIsSent DEF Serve
<1>2. CASE Handle(calling[Client])
  BY <1>1, <1>2, HandleReceivesOrLooks
<1>3. CASE Raise /\ UNCHANGED <<now, shown>>
  BY <1>3 DEF Raise, Looked, Serve
<1> QED BY <1>2, <1>3 DEF Serve

LEMMA LookedKeepsTypes ==
  ASSUME TypeOK, Looked
  PROVE  TypeOK'
BY ShapedStepKeepsTypes DEF Looked, Stated, Ended

Answers == {"none", "ok", "error", "lost"}

LEMMA RespondKeepsTypes ==
  ASSUME CallTypes, inbox # <<>>, Respond, answer \in [Clients -> Answers],
         reply' \in {"none", "ok", "error"}
  PROVE  CallTypes' /\ answer' \in [Clients -> Answers]
<1>1. CASE todo' = <<>>
  <2>1. /\ calling' = [calling EXCEPT ![Client] = NoCall] /\ inbox' = Tail(inbox)
        /\ answer' = [answer EXCEPT ![Client] = reply']
    BY <1>1 DEF Respond
  <2>2. Tail(inbox) \in Seq(Clients)
    BY DEF CallTypes
  <2> QED BY <2>1, <2>2 DEF CallTypes, Answers
<1>2. CASE todo' # <<>>
  BY <1>2 DEF Respond, CallTypes
<1> QED BY <1>1, <1>2

(* The types of the calls, apart from the database.                        *)
ServiceTypes ==
  /\ up \in BOOLEAN
  /\ CallTypes
  /\ answer \in [Clients -> Answers]
  /\ shown \in {"nothing", "committed", "uncommitted"}
  /\ calls \in 0..MaxCalls

LEMMA StepsKeepServiceTypes ==
  ServiceTypeOK /\ EachCallOnce /\ [ServiceNext]_all_vars => ServiceTypeOK'
<1> SUFFICES ASSUME TypeOK, ServiceTypes, EachCallOnce, [ServiceNext]_all_vars
             PROVE  TypeOK' /\ ServiceTypes'
  BY DEF ServiceTypeOK, ServiceTypes, CallTypes, Answers
<1>1. CASE UNCHANGED all_vars
  BY <1>1 DEF all_vars, vars, service_vars, TypeOK, ServiceTypes, CallTypes
<1>2. ASSUME NEW c \in Clients, NEW r \in Sent, Call(c, r) PROVE TypeOK' /\ ServiceTypes'
  <2>1. TypeOK'
    BY <1>2 DEF Call, vars, TypeOK
  <2>2. calls' \in 0..MaxCalls /\ up' \in BOOLEAN /\ shown' \in {"nothing", "committed", "uncommitted"}
    BY <1>2, ServiceAssumption DEF Call, ServiceTypes
  <2>3. CASE up
    <3>1. /\ calling' = [calling EXCEPT ![c] = r] /\ inbox' = Append(inbox, c)
          /\ answer' = [answer EXCEPT ![c] = "none"]
      BY <1>2, <2>3 DEF Call
    <3>2. Append(inbox, c) \in Seq(Clients)
      BY DEF ServiceTypes, CallTypes
    <3> QED BY <2>1, <2>2, <3>1, <3>2 DEF ServiceTypes, CallTypes, Answers
  <2>4. CASE ~up
    BY <1>2, <2>1, <2>2, <2>4 DEF Call, ServiceTypes, CallTypes, Answers
  <2> QED BY <2>3, <2>4
<1>3. CASE Serve
  <2>1. TypeOK' /\ shown' \in {"nothing", "committed", "uncommitted"}
    <3>1. CASE Looked
      BY <3>1, LookedKeepsTypes DEF Looked, ServiceTypes
    <3>2. CASE (\E r \in Requests : Receive(r)) /\ UNCHANGED shown
      BY <3>2, ReceiveKeepsTypes DEF ServiceTypes
    <3> QED BY <1>3, <3>1, <3>2, ServeReceivesOrLooks DEF ServiceTypes
  <2>2. reply' \in {"none", "ok", "error"}
    BY <2>1 DEF TypeOK
  <2> QED BY <1>3, <2>1, <2>2, RespondKeepsTypes DEF Serve, ServiceTypes
<1>4. CASE Proceed
  <2>1. TypeOK'
    BY <1>4, ContinueKeepsTypes DEF Proceed
  <2>2. inbox # <<>>
    BY <1>4, ContinueRunsTheRequest DEF Proceed, EachCallOnce, Idle
  <2>3. reply' \in {"none", "ok", "error"}
    BY <2>1 DEF TypeOK
  <2> QED BY <1>4, <2>1, <2>2, <2>3, RespondKeepsTypes DEF Proceed, ServiceTypes
<1>5. ASSUME NEW answered, Stop(answered) PROVE TypeOK' /\ ServiceTypes'
  <2>1. TypeOK'
    BY <1>5, OthersKeepTypes DEF Stop
  <2>2. up' \in BOOLEAN /\ CallTypes'
    <3>1. inbox' = <<>> /\ calling' = [c \in Clients |-> NoCall] /\ up' = FALSE
      BY <1>5 DEF Stop
    <3>2. inbox' \in Seq(Clients)
      BY <3>1
    <3> QED BY <3>1, <3>2 DEF CallTypes
  <2>3. answer' \in [Clients -> Answers]
    BY <1>5 DEF Stop, Answers, ServiceTypes
  <2> QED BY <1>5, <2>1, <2>2, <2>3 DEF Stop, ServiceTypes
<1>6. CASE Start
  BY <1>6 DEF Start, vars, TypeOK, ServiceTypes, CallTypes
<1>7. CASE (OtherLocks \/ OtherUnlocks \/ Tick) /\ UNCHANGED service_vars
  BY <1>7, OthersKeepTypes DEF service_vars, ServiceTypes, CallTypes
<1> QED
  BY <1>1, <1>2, <1>3, <1>4, <1>5, <1>6, <1>7 DEF ServiceNext, ShutdownService, Killed

(***************************************************************************)
(* Whoever calls the service and whatever they send, the tables keep their *)
(* shape, an answer is one of the four and every request waiting is one    *)
(* that was sent, also across shutdowns and kills.                         *)
(***************************************************************************)
THEOREM ServiceTypesOK == ServiceSpec => []ServiceTypeOK
<1>1. ServiceInit => ServiceTypeOK
  <2> SUFFICES ASSUME ServiceInit PROVE ServiceTypeOK
    OBVIOUS
  <2>1. TypeOK
    BY NewTablesType, StartTypes DEF ServiceInit, ServiceInitWith
  <2>2. inbox = <<>> /\ inbox \in Seq(Clients)
    BY DEF ServiceInit, ServiceInitWith
  <2>3. 0 \in 0..MaxCalls
    BY ServiceAssumption
  <2> QED BY <2>1, <2>2, <2>3 DEF ServiceInit, ServiceInitWith, ServiceTypeOK
<1> QED BY <1>1, StepsKeepServiceTypes, CallsAreServedOnce, PTL DEF ServiceSpec

---------------------------------------------------------------------------
(* Edits that fail.                                                        *)

(* Of a command that is not one of the exceptions: steps that commit       *)
(* nothing; its save comes last, and the new shape of the usage periods,   *)
(* which commits too, just before the save.                                *)
Plain(t) ==
  /\ t.do \notin {"banks", "users", "default", "usage", "queue_limit", "save", "rebin"}
  /\ t.do \in {"user_queues", "user_projects"} => t.value # Reset
PlainTasks(s) == \A i \in DOMAIN s : Plain(s[i])
Careful(s, c) ==
  \A i \in DOMAIN s :
    \/ Plain(s[i])
    \/ s[i].do = "save" /\ i = Len(s)
    \/ s[i].do = "rebin" /\ c.op = "edit_config" /\ Len(s) = i + 1 /\ s[i + 1].do = "save"

LEMMA CarefulTail ==
  ASSUME NEW s \in Seq(Task), s # <<>>, NEW c, Careful(s, c)
  PROVE  Careful(Tail(s), c)
<1>1. /\ Len(s) \in Nat /\ Len(s) > 0 /\ DOMAIN s = 1..Len(s)
      /\ Len(Tail(s)) = Len(s) - 1 /\ DOMAIN Tail(s) = 1..(Len(s) - 1)
      /\ \A i \in 1..(Len(s) - 1) : Tail(s)[i] = s[i + 1]
  OBVIOUS
<1> SUFFICES ASSUME NEW i \in 1..(Len(s) - 1)
             PROVE  \/ Plain(Tail(s)[i])
                    \/ Tail(s)[i].do = "save" /\ i = Len(s) - 1
                    \/ /\ Tail(s)[i].do = "rebin" /\ c.op = "edit_config"
                       /\ Len(s) - 1 = i + 1 /\ Tail(s)[i + 1].do = "save"
  BY <1>1 DEF Careful
<1>2. i + 1 \in DOMAIN s /\ Tail(s)[i] = s[i + 1]
  BY <1>1
<1>3. CASE Plain(s[i + 1])
  BY <1>2, <1>3
<1>4. CASE s[i + 1].do = "save" /\ i + 1 = Len(s)
  <2>1. i + 1 = Len(s) /\ i \in Int /\ Len(s) \in Int
    BY <1>4
  <2>2. i = Len(s) - 1
    BY <2>1
  <2> QED BY <1>2, <1>4, <2>2
<1>5. CASE /\ s[i + 1].do = "rebin" /\ c.op = "edit_config"
           /\ Len(s) = (i + 1) + 1 /\ s[(i + 1) + 1].do = "save"
  <2>1. i + 1 \in 1..(Len(s) - 1) /\ Len(s) - 1 = i + 1
    BY <1>1, <1>5
  <2>2. Tail(s)[i + 1] = s[(i + 1) + 1]
    BY <1>1, <2>1
  <2> QED BY <1>2, <1>5, <2>1, <2>2
<1> QED BY <1>2, <1>3, <1>4, <1>5 DEF Careful

LEMMA PlainJoined ==
  ASSUME NEW s \in Seq(Task), NEW t \in Seq(Task), PlainTasks(s), PlainTasks(t)
  PROVE  PlainTasks(s \o t)
BY DEF PlainTasks

LEMMA PlainOne ==
  ASSUME NEW task, NEW cond, cond => Plain(task)
  PROVE  PlainTasks(OneOf(task, cond))
BY DEF OneOf, PlainTasks

LEMMA CarefulSaved ==
  ASSUME NEW s \in Seq(Task), PlainTasks(s), NEW c
  PROVE  Careful(s \o <<[do |-> "save"]>>, c)
<1> DEFINE save == [do |-> "save"]
           all == s \o <<save>>
<1>1. save.do = "save" /\ Len(s) \in Nat
  OBVIOUS
<1>2. /\ DOMAIN all = 1..(Len(s) + 1) /\ Len(all) = Len(s) + 1
      /\ \A i \in 1..Len(s) : all[i] = s[i]
      /\ all[Len(s) + 1] = save
  BY <1>1
<1>3. ASSUME NEW i \in 1..(Len(s) + 1)
      PROVE  i \in 1..Len(s) \/ i = Len(s) + 1
  BY <1>1
<1> HIDE DEF all, save
<1> QED BY <1>1, <1>2, <1>3 DEF Careful, PlainTasks, all, save

LEMMA CarefulRebinned ==
  ASSUME NEW s \in Seq(Task), PlainTasks(s), NEW c, c.op = "edit_config"
  PROVE  Careful(s \o <<[do |-> "rebin"]>> \o <<[do |-> "save"]>>, c)
<1> DEFINE save == [do |-> "save"]
           rebin == [do |-> "rebin"]
           all == s \o <<rebin>> \o <<save>>
<1>1. save.do = "save" /\ rebin.do = "rebin" /\ Len(s) \in Nat
  OBVIOUS
<1>2. /\ DOMAIN all = 1..(Len(s) + 2) /\ Len(all) = Len(s) + 2
      /\ \A i \in 1..Len(s) : all[i] = s[i]
      /\ all[Len(s) + 1] = rebin /\ all[Len(s) + 2] = save
  BY <1>1
<1>3. ASSUME NEW i \in 1..(Len(s) + 2)
      PROVE  i \in 1..Len(s) \/ i = Len(s) + 1 \/ i = Len(s) + 2
  BY <1>1
<1>4. (Len(s) + 1) + 1 = Len(s) + 2
  BY <1>1
<1> HIDE DEF all, save, rebin
<1>5. Careful(all, c)
  BY <1>1, <1>2, <1>3, <1>4 DEF Careful, PlainTasks
<1> QED BY <1>5 DEF all, save, rebin

(* A request is over at once, and has committed nothing when it failed, or *)
(* its command begins and is careful.                                      *)
LEMMA ReceiveIsCareful ==
  ASSUME NEW r \in Requests, Receive(r)
  PROVE  \/ /\ todo' = <<>> /\ before' = disk'
            /\ reply' = "error" => CommitsOnTheWay(r) \/ UNCHANGED disk
         \/ /\ cmd' = r /\ reply' = "none" /\ UNCHANGED <<before, disk>>
            /\ CommitsOnTheWay(r) \/ Careful(todo', r)
<1>a. r \in Edits
  BY BoundsAssumption
<1>b. /\ \A a : Answer(a) => todo' = <<>> /\ before' = disk' /\ reply' = a
      /\ Raise => todo' = <<>> /\ before' = disk' /\ UNCHANGED disk
      /\ \A d : Write(d) => UNCHANGED disk
  BY DEF Answer, Raise, NoWrite, Write
<1>c. \A tasks : Begin(r, tasks) =>
        todo' = tasks /\ cmd' = r /\ reply' = "none" /\ UNCHANGED <<before, disk>>
  BY DEF Begin, NoWrite
<1>1. CASE DeleteBank(r) \/ DeleteUser(r) \/ EditQueue(r)
  BY <1>1, <1>c DEF DeleteBank, DeleteUser, EditQueue, CommitsOnTheWay
<1>2. CASE EditBank(r)
  <2>1. r \in EditBankRequests
    BY <1>2, <1>a, RequestIs DEF EditBank
  <2> DEFINE A == OneOf([do |-> "bank_shares", bank |-> r.bank, value |-> r.shares],
                        r.shares # Keep)
             B == OneOf([do |-> "bank_parent", bank |-> r.bank, value |-> r.parent],
                        r.parent # Keep)
  <2>2. /\ r.shares # Keep => [do |-> "bank_shares", bank |-> r.bank, value |-> r.shares] \in Task
        /\ r.parent # Keep => [do |-> "bank_parent", bank |-> r.bank, value |-> r.parent] \in Task
    BY <2>1 DEF EditBankRequests, Task, Given
  <2>3. A \in Seq(Task) /\ B \in Seq(Task)
    BY <2>2, OneOfType
  <2>4. PlainTasks(A) /\ PlainTasks(B)
    BY PlainOne DEF Plain
  <2>5. Begin(r, A \o B \o <<[do |-> "save"]>>)
    BY <1>2 DEF EditBank
  <2> HIDE DEF A, B
  <2>6. A \o B \in Seq(Task) /\ PlainTasks(A \o B)
    BY <2>3, <2>4, Concatenated, PlainJoined
  <2>7. Careful(A \o B \o <<[do |-> "save"]>>, r)
    BY <2>6, CarefulSaved
  <2> QED BY <1>c, <2>5, <2>7
<1>3. CASE EditUser(r)
  <2> DEFINE A == OneOf([do |-> "modify_queues", user |-> r.user, bank |-> r.bank,
                         add |-> r.add, del |-> r.del], {r.add, r.del} # {Keep})
             B == OneOf([do |-> "user_def", user |-> r.user, bank |-> r.bank,
                         value |-> r.def], r.def # Keep)
             C == OneOf([do |-> "user_shares", user |-> r.user, bank |-> r.bank,
                         value |-> r.shares], r.shares # Keep)
             D == OneOf([do |-> "user_queues", user |-> r.user, bank |-> r.bank,
                         value |-> r.queues], r.queues # Keep)
             E == OneOf([do |-> "user_projects", user |-> r.user, bank |-> r.bank,
                         value |-> r.projects], r.projects # Keep)
  <2>1. r \in EditUserRequests /\ r.op = "edit_user"
    BY <1>3, <1>a, RequestIs DEF EditUser
  <2>2. /\ [do |-> "modify_queues", user |-> r.user, bank |-> r.bank,
            add |-> r.add, del |-> r.del] \in Task
        /\ r.def # Keep =>
             [do |-> "user_def", user |-> r.user, bank |-> r.bank, value |-> r.def] \in Task
        /\ r.shares # Keep =>
             [do |-> "user_shares", user |-> r.user, bank |-> r.bank, value |-> r.shares] \in Task
        /\ r.queues # Keep =>
             [do |-> "user_queues", user |-> r.user, bank |-> r.bank, value |-> r.queues] \in Task
        /\ r.projects # Keep =>
             [do |-> "user_projects", user |-> r.user, bank |-> r.bank, value |-> r.projects] \in Task
    BY <2>1 DEF EditUserRequests, Task, Given
  <2>3. A \in Seq(Task) /\ B \in Seq(Task) /\ C \in Seq(Task) /\ D \in Seq(Task) /\ E \in Seq(Task)
    BY <2>2, OneOfType
  <2>4. CASE Reset \in {r.queues, r.projects}
    <3>1. CommitsOnTheWay(r)
      BY <2>1, <2>4 DEF CommitsOnTheWay
    <3> QED BY <1>3, <1>b, <1>c, <3>1 DEF EditUser
  <2>5. CASE Reset \notin {r.queues, r.projects}
    <3>1. PlainTasks(A) /\ PlainTasks(B) /\ PlainTasks(C)
      BY PlainOne DEF Plain
    <3>2. PlainTasks(D) /\ PlainTasks(E)
      BY <2>5, PlainOne DEF Plain
    <3>3. (Idle /\ Raise /\ UNCHANGED now) \/ Begin(r, A \o B \o C \o D \o E \o <<[do |-> "save"]>>)
      BY <1>3 DEF EditUser
    <3> HIDE DEF A, B, C, D, E
    <3>4. (A \o B \o C \o D \o E) \in Seq(Task) /\ PlainTasks(A \o B \o C \o D \o E)
      BY <2>3, <3>1, <3>2, Concatenated, PlainJoined
    <3>5. Careful(A \o B \o C \o D \o E \o <<[do |-> "save"]>>, r)
      BY <3>4, CarefulSaved
    <3> QED BY <1>b, <1>c, <3>3, <3>5
  <2> QED BY <2>4, <2>5
<1>4. CASE EditConfig(r)
  <2>1. r \in EditConfigRequests /\ r.op = "edit_config"
    BY <1>4, <1>a, RequestIs DEF EditConfig
  <2> DEFINE F == <<[do |-> "config", key |-> r.key, value |-> r.value]>>
             A == OneOf([do |-> "config", key |-> r.key2, value |-> r.value2], r.key2 # Keep)
             B == OneOf([do |-> "rebin"], {r.key, r.key2} \cap BinKeys # {})
  <2>2. /\ [do |-> "config", key |-> r.key, value |-> r.value] \in Task
        /\ r.key2 # Keep => [do |-> "config", key |-> r.key2, value |-> r.value2] \in Task
    BY <2>1 DEF EditConfigRequests, Task, Given
  <2>3. F \in Seq(Task) /\ A \in Seq(Task)
    BY <2>2, OneOfType, AloneType
  <2>4. PlainTasks(F) /\ PlainTasks(A)
    <3>1. PlainTasks(A)
      BY PlainOne DEF Plain
    <3>2. PlainTasks(F)
      BY DEF PlainTasks, Plain
    <3> QED BY <3>1, <3>2
  <2>5. Begin(r, F \o A \o B \o <<[do |-> "save"]>>)
    BY <1>4 DEF EditConfig
  <2>6. B = <<>> \/ B = <<[do |-> "rebin"]>>
    BY DEF OneOf
  <2> HIDE DEF F, A, B
  <2>7. F \o A \in Seq(Task) /\ PlainTasks(F \o A)
    BY <2>3, <2>4, Concatenated, PlainJoined
  <2>8. CASE B = <<>>
    <3>1. (F \o A) \o B = F \o A
      BY <2>7, <2>8
    <3>2. Careful((F \o A) \o B \o <<[do |-> "save"]>>, r)
      BY <2>7, <3>1, CarefulSaved
    <3> QED BY <1>c, <2>5, <3>2
  <2>9. CASE B = <<[do |-> "rebin"]>>
    <3>1. Careful((F \o A) \o B \o <<[do |-> "save"]>>, r)
      BY <2>1, <2>7, <2>9, CarefulRebinned
    <3> QED BY <1>c, <2>5, <3>1
  <2> QED BY <2>6, <2>8, <2>9
<1>5. CASE PopulateDb(r)
  <2>1. r \in PopDbRequests
    BY <1>5, <1>a, RequestIs DEF PopulateDb
  <2> DEFINE rows == <<[do |-> "row", row |-> r.row], [do |-> "row", row |-> r.row2]>>
  <2>2. [do |-> "row", row |-> r.row] \in Task /\ [do |-> "row", row |-> r.row2] \in Task
    BY <2>1 DEF PopDbRequests, Task
  <2>3. rows \in Seq(Task)
    BY <2>2
  <2>4. PlainTasks(rows)
    BY DEF PlainTasks, Plain
  <2>5. <<[do |-> "row", row |-> r.row], [do |-> "row", row |-> r.row2], [do |-> "save"]>>
          = rows \o <<[do |-> "save"]>>
    OBVIOUS
  <2>6. Begin(r, rows \o <<[do |-> "save"]>>)
    BY <1>5, <2>5 DEF PopulateDb
  <2> HIDE DEF rows
  <2> QED BY <1>c, <2>3, <2>4, <2>6, CarefulSaved
<1>6. CASE AddBank(r) \/ AddUser(r) \/ EditAllUsers(r) \/ AddQueue(r) \/ DeleteQueue(r)
           \/ AddProject(r) \/ DeleteProject(r)
  BY <1>6, <1>b DEF AddBank, AddUser, EditAllUsers, AddQueue, DeleteQueue, AddProject,
     DeleteProject
<1>7. CASE EditFactor(r) \/ ResetFactors(r) \/ AddConfig(r) \/ DeleteConfig(r)
           \/ SyncUserids(r) \/ ScrubOldJobs(r) \/ TurnedAway(r)
  BY <1>7, <1>b DEF EditFactor, ResetFactors, AddConfig, DeleteConfig, SyncUserids,
     ScrubOldJobs, TurnedAway
<1>8. CASE ClearUsage(r)
  <2>1. CommitsOnTheWay(r)
    BY <1>8 DEF ClearUsage, Short, CommitsOnTheWay
  <2> QED BY <1>8, <1>b, <2>1 DEF ClearUsage
<1> QED BY <1>1, <1>2, <1>3, <1>4, <1>5, <1>6, <1>7, <1>8 DEF Receive

LEMMA OneLeft ==
  ASSUME NEW s \in Seq(Task), Len(s) = 1
  PROVE  Tail(s) = <<>>
<1>1. Tail(s) \in Seq(Task) /\ Len(Tail(s)) = 0
  OBVIOUS
<1> QED BY <1>1, EmptySeq

(* What a step of a careful command does: it commits only at the end, or   *)
(* when it gives the usage periods their new shape.                        *)
LEMMA ContinueIsCareful ==
  ASSUME TypeOK, ~Idle, reply = "none", Careful(todo, cmd), Continue \/ LockedOut
  PROVE  \/ /\ todo' = <<>> /\ before' = disk'
            /\ reply' = "error" =>
                 UNCHANGED disk /\ (Head(todo).do = "save" => cmd.op = "edit_user")
         \/ /\ todo' = Tail(todo) /\ todo' # <<>> /\ UNCHANGED <<cmd, reply, before>>
            /\ UNCHANGED disk \/ Head(todo).do = "rebin"
<1> DEFINE t == Head(todo)
           Over == /\ todo' = <<>> /\ before' = disk'
                   /\ reply' = "error" =>
                        UNCHANGED disk /\ (t.do = "save" => cmd.op = "edit_user")
           On == /\ todo' = Tail(todo) /\ todo' # <<>> /\ UNCHANGED <<cmd, reply, before>>
                 /\ UNCHANGED disk \/ t.do = "rebin"
<1>a. todo \in Seq(Task) /\ todo # <<>> /\ 1 \in DOMAIN todo /\ t = todo[1]
  BY DEF TypeOK, Idle
<1>b. Plain(t) \/ t.do = "save" \/ t.do = "rebin"
  BY <1>a DEF Careful
<1>c. ASSUME NEW name, Doing(name) PROVE t.do = name
  BY <1>c DEF Doing
<1>d. GoOn(<<>>) => \/ Answer("ok") /\ Tail(todo) = <<>>
                    \/ todo' = Tail(todo) /\ todo' # <<>> /\ UNCHANGED <<cmd, reply, before>>
  <2>1. <<>> \o Tail(todo) = Tail(todo)
    BY <1>a
  <2> QED BY <2>1 DEF GoOn
<1>e. Answer("ok") => Over
  BY DEF Answer
<1>f. Answer("error") /\ UNCHANGED disk /\ t.do # "save" => Over
  BY DEF Answer
<1>g. Raise => Answer("error") /\ UNCHANGED disk
  BY DEF Raise, NoWrite
<1>h. \A d : Write(d) => UNCHANGED disk
  BY DEF Write
<1>i. ASSUME GoOn(<<>>), UNCHANGED disk \/ t.do = "rebin" PROVE Over \/ On
  BY <1>d, <1>e, <1>i
<1> SUFFICES Over \/ On
  OBVIOUS
<1> HIDE DEF Over, On
<1>1. CASE VisitBank \/ RecalculateUsage \/ DisableUser \/ UpdateDefaultBank \/ EditQueueLimit
  BY <1>1, <1>b, <1>c DEF VisitBank, RecalculateUsage, DisableUser, UpdateDefaultBank,
     EditQueueLimit, Plain
<1>2. CASE SaveAll
  <2>1. t.do = "save"
    BY <1>2, <1>c DEF SaveAll
  <2>2. Len(todo) = 1
    BY <1>a, <2>1 DEF Careful, Plain
  <2>3. Tail(todo) = <<>>
    BY <1>a, <2>2, OneLeft
  <2> QED BY <1>2, <1>d, <1>e, <2>3 DEF SaveAll, Over, On
<1>3. CASE EditBankShares \/ EditBankParent
  BY <1>3, <1>c, <1>f, <1>g, <1>h, <1>i DEF EditBankShares, EditBankParent
<1>4. CASE EditModifyQueues \/ EditDefaultBank \/ EditShares
  BY <1>4, <1>c, <1>f, <1>g, <1>h, <1>i DEF EditModifyQueues, EditDefaultBank, EditShares
<1>5. CASE EditQueues \/ EditProjects
  <2>1. t.value # Reset /\ t.do # "save"
    BY <1>5, <1>b, <1>c DEF EditQueues, EditProjects, Plain
  <2> QED BY <1>5, <2>1, <1>c, <1>f, <1>g, <1>h, <1>i DEF EditQueues, EditProjects
<1>6. CASE EditConfigKey
  BY <1>6, <1>c, <1>f, <1>g, <1>h, <1>i DEF EditConfigKey
<1>7. CASE ReconfigureBins
  BY <1>7, <1>c, <1>f, <1>g, <1>i DEF ReconfigureBins
<1>8. CASE PopulateRow
  BY <1>8, <1>c, <1>f, <1>g, <1>h, <1>i DEF PopulateRow
<1>9. CASE LockedOut
  <2>1. Answer("error") /\ UNCHANGED disk
    BY <1>9, <1>g DEF LockedOut
  <2>2. t.do = "save" => cmd.op = "edit_user"
    BY <1>9 DEF LockedOut, Writes
  <2> QED BY <2>1, <2>2 DEF Answer, Over
<1> QED BY <1>1, <1>2, <1>3, <1>4, <1>5, <1>6, <1>7, <1>8, <1>9 DEF Continue

(* The file is as the command found it, unless only the save after the new *)
(* shape of the usage periods is left, which cannot fail: it has nothing   *)
(* to write.                                                               *)
UntouchedSoFar ==
  \/ disk = before
  \/ Head(todo).do = "save" /\ cmd.op # "edit_user"
FailInv ==
  /\ Idle => before = disk
  /\ ~Idle => reply = "none"
  /\ ~Idle => CommitsOnTheWay(cmd) \/ (Careful(todo, cmd) /\ UntouchedSoFar)

LEMMA LastIsSave ==
  ASSUME NEW s \in Seq(Task), s # <<>>, NEW c, Careful(s, c), Head(s).do = "save"
  PROVE  Tail(s) = <<>>
<1>1. 1 \in DOMAIN s /\ Head(s) = s[1]
  OBVIOUS
<1>2. Len(s) = 1
  BY <1>1 DEF Careful, Plain
<1> QED BY <1>2, OneLeft

LEMMA SaveAfterRebin ==
  ASSUME NEW s \in Seq(Task), s # <<>>, NEW c, Careful(s, c), Head(s).do = "rebin"
  PROVE  Head(Tail(s)).do = "save" /\ c.op = "edit_config"
<1>1. 1 \in DOMAIN s /\ Head(s) = s[1]
  OBVIOUS
<1>2. Len(s) = 1 + 1 /\ s[1 + 1].do = "save" /\ c.op = "edit_config"
  BY <1>1 DEF Careful, Plain
<1>3. /\ Tail(s) \in Seq(Task) /\ Len(Tail(s)) = Len(s) - 1
      /\ \A i \in 1..Len(Tail(s)) : Tail(s)[i] = s[i + 1]
  BY HeadTailProperties
<1>4. Len(Tail(s)) = 1 /\ 1 \in 1..Len(Tail(s))
  BY <1>2, <1>3
<1>5. Tail(s)[1] = s[1 + 1]
  BY <1>3, <1>4
<1>6. Head(Tail(s)) = Tail(s)[1]
  BY <1>3, <1>4
<1> QED BY <1>2, <1>5, <1>6

(* A command that has another step to go, whichever it is.                 *)
LEMMA ContinueStays ==
  ASSUME Continue \/ LockedOut
  PROVE  (todo' = <<>> /\ before' = disk') \/ (todo' # <<>> /\ UNCHANGED <<cmd, reply, before>>)
<1>a. \A a : Answer(a) => todo' = <<>> /\ before' = disk'
  BY DEF Answer
<1>b. \A tasks : GoOn(tasks) => Answer("ok") \/ (todo' # <<>> /\ UNCHANGED <<cmd, reply, before>>)
  BY DEF GoOn
<1>1. CASE VisitBank
  BY <1>1, <1>a, <1>b DEF VisitBank
<1>2. CASE RecalculateUsage \/ SaveAll \/ EditBankShares \/ EditBankParent
  BY <1>2, <1>a, <1>b DEF RecalculateUsage, SaveAll, EditBankShares, EditBankParent, Raise
<1>3. CASE DisableUser
  BY <1>3, <1>a, <1>b DEF DisableUser
<1>4. CASE UpdateDefaultBank \/ EditModifyQueues \/ EditDefaultBank \/ EditShares
  BY <1>4, <1>a, <1>b DEF UpdateDefaultBank, EditModifyQueues, EditDefaultBank, EditShares,
     Raise
<1>5. CASE EditQueues \/ EditProjects
  BY <1>5, <1>a, <1>b DEF EditQueues, EditProjects, Raise
<1>6. CASE EditQueueLimit \/ EditConfigKey \/ ReconfigureBins \/ PopulateRow
  BY <1>6, <1>a, <1>b DEF EditQueueLimit, EditConfigKey, ReconfigureBins, PopulateRow, Raise
<1>7. CASE LockedOut
  BY <1>7, <1>a DEF LockedOut, Raise
<1> QED BY <1>1, <1>2, <1>3, <1>4, <1>5, <1>6, <1>7 DEF Continue

LEMMA ContinueKeepsFailInv ==
  ASSUME TypeOK, FailInv, Continue \/ LockedOut
  PROVE  /\ FailInv'
         /\ ~CommitsOnTheWay(cmd) /\ reply' = "error" => disk' = before
<1>a. ~Idle /\ reply = "none"
  BY ContinueRunsTheRequest DEF FailInv, Idle
<1>b. todo \in Seq(Task) /\ todo # <<>>
  BY <1>a DEF TypeOK, Idle
<1>1. CASE CommitsOnTheWay(cmd)
  <2>1. CASE todo' = <<>> /\ before' = disk'
    BY <1>1, <2>1 DEF FailInv, Idle
  <2>2. CASE todo' # <<>> /\ UNCHANGED <<cmd, reply, before>>
    <3>1. CommitsOnTheWay(cmd')
      BY <1>1, <2>2
    <3> QED BY <1>1, <1>a, <2>2, <3>1 DEF FailInv, Idle
  <2> QED BY <2>1, <2>2, ContinueStays
<1>2. CASE ~CommitsOnTheWay(cmd)
  <2>1. Careful(todo, cmd) /\ UntouchedSoFar
    BY <1>2, <1>a DEF FailInv
  <2>2. CASE /\ todo' = <<>> /\ before' = disk'
             /\ reply' = "error" =>
                  UNCHANGED disk /\ (Head(todo).do = "save" => cmd.op = "edit_user")
    BY <2>1, <2>2 DEF FailInv, Idle, UntouchedSoFar
  <2>3. CASE /\ todo' = Tail(todo) /\ todo' # <<>> /\ UNCHANGED <<cmd, reply, before>>
             /\ UNCHANGED disk \/ Head(todo).do = "rebin"
    <3>1. Careful(todo', cmd')
      BY <1>b, <2>1, <2>3, CarefulTail
    <3>2. Head(todo).do # "save"
      BY <1>b, <2>1, <2>3, LastIsSave
    <3>3. disk = before
      BY <2>1, <3>2 DEF UntouchedSoFar
    <3>4. Head(todo).do = "rebin" => Head(todo').do = "save" /\ cmd'.op # "edit_user"
      BY <1>b, <2>1, <2>3, SaveAfterRebin
    <3>5. UntouchedSoFar'
      BY <2>3, <3>3, <3>4 DEF UntouchedSoFar
    <3> QED BY <1>a, <2>3, <3>1, <3>5 DEF FailInv, Idle
  <2> QED BY <1>a, <2>1, <2>2, <2>3, ContinueIsCareful
<1> QED BY <1>1, <1>2

(* What the property says of one step. *)
FailureCommitsNothing ==
  inbox # <<>> /\ reply' = "error" /\ ~CommitsOnTheWay(calling[Client]) => disk' = before

LEMMA StepsKeepFailInv ==
  ServiceTypeOK /\ EachCallOnce /\ FailInv /\ [ServiceNext]_all_vars =>
    FailInv' /\ FailureCommitsNothing
<1> SUFFICES ASSUME TypeOK, CallTypes, EachCallOnce, FailInv, [ServiceNext]_all_vars
             PROVE  FailInv' /\ FailureCommitsNothing
  BY DEF ServiceTypeOK, CallTypes
<1>1. CASE UNCHANGED <<disk, todo, cmd, reply, before>>
  <2>1. FailInv'
    BY <1>1 DEF FailInv, Idle, UntouchedSoFar
  <2>2. reply' = "error" => disk' = before
    BY <1>1 DEF FailInv, Idle
  <2> QED BY <2>1, <2>2 DEF FailureCommitsNothing
<1>2. CASE Serve
  <2>0. disk = before
    BY <1>2 DEF Serve, FailInv
  <2>1. CASE Looked
    <3>1. FailInv' /\ disk' = disk
      BY <2>1 DEF Looked, Answer, FailInv, Idle, NoWrite
    <3> QED BY <2>0, <3>1 DEF FailureCommitsNothing
  <2>2. CASE \E r \in Requests : r = calling[Client] /\ Receive(r)
    <3>1. PICK r \in Requests : r = calling[Client] /\ Receive(r)
      BY <2>2
    <3>2. CASE /\ todo' = <<>> /\ before' = disk'
               /\ reply' = "error" => CommitsOnTheWay(r) \/ UNCHANGED disk
      <4>1. FailInv'
        BY <3>2 DEF FailInv, Idle
      <4> QED BY <2>0, <3>1, <3>2, <4>1 DEF FailureCommitsNothing
    <3>3. CASE /\ cmd' = r /\ reply' = "none" /\ UNCHANGED <<before, disk>>
               /\ CommitsOnTheWay(r) \/ Careful(todo', r)
      <4>1. FailInv'
        BY <2>0, <3>3 DEF FailInv, Idle, UntouchedSoFar
      <4> QED BY <3>3, <4>1 DEF FailureCommitsNothing
    <3> QED BY <3>1, <3>2, <3>3, ReceiveIsCareful
  <2> QED BY <1>2, <2>1, <2>2, ServeReceivesOrLooks
<1>3. CASE Proceed
  <2>1. ~Idle
    BY <1>3, ContinueRunsTheRequest DEF Proceed, Idle
  <2>2. calling[Client] = cmd
    BY <2>1 DEF EachCallOnce
  <2>3. FailInv' /\ (~CommitsOnTheWay(cmd) /\ reply' = "error" => disk' = before)
    BY <1>3, ContinueKeepsFailInv DEF Proceed
  <2> QED BY <2>2, <2>3 DEF FailureCommitsNothing
<1>4. CASE ShutdownService \/ Killed
  BY <1>4 DEF ShutdownService, Killed, Stop, Restart, FailInv, Idle, FailureCommitsNothing
<1> QED BY <1>1, <1>2, <1>3, <1>4 DEF ServiceNext, Call, Start, OtherLocks, OtherUnlocks,
     Tick, all_vars, vars

(***************************************************************************)
(* A request that fails, at once, in any of its steps or because another   *)
(* process has the file, has committed nothing, unless it is one of the    *)
(* five that commit on the way.                                            *)
(***************************************************************************)
THEOREM FailuresCommitNothing == ServiceSpec => FailedEditsCommitNothing
<1>1. ServiceInit => FailInv
  BY DEF ServiceInit, ServiceInitWith, InitWith, FailInv, Idle
<1>2. ServiceTypeOK /\ EachCallOnce /\ FailInv /\ [ServiceNext]_all_vars =>
        FailInv' /\ [inbox # <<>> /\ reply' = "error" /\ ~CommitsOnTheWay(calling[Client])
                       => disk' = before]_all_vars
  BY StepsKeepFailInv DEF FailureCommitsNothing
<1> QED BY <1>1, <1>2, ServiceTypesOK, CallsAreServedOnce, PTL
        DEF ServiceSpec, FailedEditsCommitNothing
===============================================================================
