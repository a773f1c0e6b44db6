---------------------------- MODULE JobUsageProofs ----------------------------
(***************************************************************************)
(* Job usage: proofs that every record is counted exactly once, that bins  *)
(* rotate with the half-life period and hold no more than was used, and    *)
(* that banks are the sums of what is under them, for any banks,           *)
(* associations, jobs, clock and configurations.                           *)
(***************************************************************************)
EXTENDS JobUsage, SumProofs

(***************************************************************************)
(* The part of the state that says what is counted.  What usages add up to *)
(* does not matter for it.                                                 *)
(***************************************************************************)
CountType ==
  /\ clock \in Nat \ {0}
  /\ Finished \subseteq Jobs /\ t_inactive \in [Finished -> Nat]
  /\ \A j \in Finished : 1 <= t_inactive[j] /\ t_inactive[j] < clock
  /\ jobs \subseteq Finished
  /\ DOMAIN assoc \subseteq DOMAIN bins /\ DOMAIN bins \subseteq Assocs
  /\ last_job_timestamp \in [DOMAIN bins -> Nat]
  /\ counted \in [Jobs -> 0..1]
  /\ clearing.bank \in ClearBanks \cup {NoBank}
  /\ DOMAIN clearing = {"bank", "at", "sum", "outrun"}

Orderly(j) == BankOf[AssocOf[j]] \notin overtaken

\* What is counted has been seen and is in account.
CountedIsSeen ==
  \A j \in Jobs : counted[j] = 1 =>
    /\ j \in Finished /\ AssocOf[j] \in DOMAIN bins
    /\ t_inactive[j] <= last_job_timestamp[AssocOf[j]]
    /\ t_inactive[j] > reconfigure_time
    /\ Orderly(j) => InAccount(j)

\* What has been seen, is in account and cannot have been scrubbed is counted.
SeenIsCounted ==
  \A j \in jobs :
    /\ Orderly(j) /\ AssocOf[j] \in DOMAIN bins
    /\ t_inactive[j] <= last_job_timestamp[AssocOf[j]]
    /\ InAccount(j)
    /\ t_inactive[j] >= clock - ScrubAge
    => counted[j] = 1

\* The last record counted of an association is in the table, or a later one
\* is, or it is old enough to have been scrubbed.  Without it a record that the
\* next fetch brings could be one that was passed over.
LastIsKept ==
  \A a \in DOMAIN bins :
    \/ last_job_timestamp[a] = 0
    \/ \E k \in jobs : t_inactive[k] >= last_job_timestamp[a]
    \/ last_job_timestamp[a] < clock - ScrubAge

\* While a bank is being cleared and no update has come in between, nothing of
\* it has been seen: its last transaction may put records in and out of account.
ClearedIsUnseen ==
  ~Idle /\ clearing.bank \notin overtaken =>
    \A a \in DOMAIN bins : BankOf[a] = clearing.bank => last_job_timestamp[a] = 0

CountInv ==
  CountType /\ CountedIsSeen /\ SeenIsCounted /\ LastIsKept /\ ClearedIsUnseen

-----------------------------------------------------------------------------
(* The latest of a set of records *)

LEMMA BoundedMax ==
  ASSUME NEW T \in SUBSET Nat, T # {}, NEW n \in Nat, \A t \in T : t <= n
  PROVE  Max(T) \in T /\ \A t \in T : t <= Max(T)
<1> DEFINE D == {d \in Nat : \E t \in T : d = n - t}
           R == OpToRel(<, Nat)
<1>1. D \subseteq Nat /\ D # {}
  <2>1. PICK t \in T : t \in Nat /\ t <= n
    OBVIOUS
  <2>2. n - t \in D
    BY <2>1
  <2> QED BY <2>2
<1>2. PICK d \in D : \A c \in D : ~(<<c, d>> \in R)
  <2> HIDE DEF D, R
  <2>1. IsWellFoundedOn(R, Nat)
    BY NatLessThanWellFounded DEF R
  <2> QED BY <1>1, <2>1, WFMin
<1>3. PICK m \in T : d = n - m
  BY <1>2
<1>4. \A t \in T : m >= t
  <2> SUFFICES ASSUME NEW t \in T, t > m PROVE FALSE
    OBVIOUS
  <2>1. n - t \in D /\ n - t < d
    BY <1>3
  <2> QED BY <1>1, <1>2, <2>1 DEF OpToRel
<1> HIDE DEF D, R
<1>5. \A y \in T : Max(T) >= y
  BY <1>3, <1>4 DEF Max
<1>6. Max(T) \in T
  BY <1>3, <1>4 DEF Max
<1> QED BY <1>5, <1>6

LEMMA LastEndIsLatest ==
  ASSUME CountType, NEW S \in SUBSET Finished, S # {}
  PROVE  /\ \E j \in S : LastEnd(S) = t_inactive[j]
         /\ \A j \in S : t_inactive[j] <= LastEnd(S)
         /\ LastEnd(S) \in Nat
<1> DEFINE T == {t_inactive[j] : j \in S}
<1>1. T \in SUBSET Nat /\ T # {} /\ clock \in Nat /\ \A t \in T : t <= clock
  BY DEF CountType
<1>2. Max(T) \in T /\ \A t \in T : t <= Max(T)
  <2> HIDE DEF T
  <2> QED BY <1>1, BoundedMax
<1> QED BY <1>1, <1>2 DEF LastEnd

-----------------------------------------------------------------------------
(* Every step keeps the invariant *)

LEMMA InitCount == Init => CountInv
<1> SUFFICES ASSUME Init PROVE CountInv
  OBVIOUS
<1>1. Finished = {}
  BY DEF Init, Finished
<1>2. CountType
  BY <1>1 DEF Init, CountType, Nothing
<1> QED BY <1>1, <1>2
     DEF Init, CountInv, CountedIsSeen, SeenIsCounted, LastIsKept, ClearedIsUnseen, Idle, Nothing

\* A step that touches none of what decides which records count.
LEMMA SameRecords ==
  ASSUME CountInv, clock' \in Nat, clock' >= clock,
         UNCHANGED <<t_inactive, jobs, last_job_timestamp, counted, reconfigure_time,
                     overtaken>>,
         clearing'.bank \in {clearing.bank, NoBank},
         DOMAIN clearing' = {"bank", "at", "sum", "outrun"},
         \A b \in Banks : bank'[b].ignore_older_than = bank[b].ignore_older_than,
         DOMAIN bins' = DOMAIN bins, DOMAIN assoc' \subseteq DOMAIN bins
  PROVE  CountInv'
<1> USE UsageAssumption DEF CountInv
<1>1. Finished' = Finished
  BY DEF Finished
<1>2. CountType'
  BY <1>1 DEF CountType
<1>3. \A j \in Jobs : InAccount(j)' = InAccount(j)
  BY DEF InAccount
<1>4. CountedIsSeen'
  BY <1>1, <1>3 DEF CountedIsSeen, Orderly
<1>5. SeenIsCounted'
  BY <1>3 DEF SeenIsCounted, CountType, Orderly
<1>6. LastIsKept'
  BY DEF LastIsKept, CountType
<1>7. ClearedIsUnseen'
  BY DEF ClearedIsUnseen, Idle
<1> QED BY <1>2, <1>4, <1>5, <1>6, <1>7

LEMMA JobsEndCount ==
  ASSUME CountInv, NEW S \in SUBSET (Jobs \ Finished), JobsEnd(S)
  PROVE  CountInv'
<1> USE UsageAssumption DEF CountInv, table, history
<1>1. /\ DOMAIN t_inactive' = Finished \cup S
      /\ \A j \in S : t_inactive'[j] = clock
      /\ \A j \in Finished : t_inactive'[j] = t_inactive[j]
      /\ t_inactive' \in [Finished \cup S -> Nat]
  BY DEF JobsEnd, CountType, Finished
<1>2. Finished' = Finished \cup S
  BY <1>1 DEF Finished
<1>3. CountType'
  BY <1>1, <1>2 DEF CountType, JobsEnd, Idle
<1>4. \A j \in Finished : InAccount(j)' = InAccount(j)
  BY <1>1 DEF InAccount, JobsEnd
<1>5. CountedIsSeen'
  <2>1. \A j \in Finished : t_inactive'[j] > reconfigure_time' <=> t_inactive[j] > reconfigure_time
    BY <1>1 DEF JobsEnd
  <2> QED BY <1>1, <1>2, <1>4, <2>1 DEF CountedIsSeen, JobsEnd, Orderly
<1>6. SeenIsCounted'
  BY <1>1, <1>4 DEF SeenIsCounted, CountType, JobsEnd, Orderly
<1>7. LastIsKept'
  <2>1. /\ UNCHANGED <<jobs, bins, last_job_timestamp>> /\ clock' >= clock
        /\ clock \in Nat /\ clock' \in Nat /\ jobs \subseteq Finished
        /\ last_job_timestamp \in [DOMAIN bins -> Nat]
    BY DEF JobsEnd, CountType
  <2> QED BY <1>1, <2>1 DEF LastIsKept
<1>8. ClearedIsUnseen'
  BY DEF ClearedIsUnseen, JobsEnd, Idle
<1> QED BY <1>3, <1>5, <1>6, <1>7, <1>8

\* The heart of it: what a fetch brings is later than all records in the table,
\* so it was passed over only if it is old.
LEMMA FetchCount ==
  ASSUME CountInv, FetchJobRecords
  PROVE  CountInv'
<1> USE UsageAssumption DEF CountInv, history
<1>1. Finished' = Finished /\ jobs \subseteq jobs' /\ jobs' \subseteq Finished
  BY DEF FetchJobRecords, Finished, CountType
<1>2. CountType'
  BY <1>1 DEF CountType, FetchJobRecords, Idle
<1>3. \A j \in Jobs : InAccount(j)' = InAccount(j)
  BY DEF InAccount, FetchJobRecords
<1>4. CountedIsSeen'
  BY <1>1, <1>3 DEF CountedIsSeen, FetchJobRecords, Orderly
<1>5. SeenIsCounted'
  <2> SUFFICES ASSUME NEW j \in jobs', Orderly(j), AssocOf[j] \in DOMAIN bins,
                      t_inactive[j] <= last_job_timestamp[AssocOf[j]],
                      InAccount(j), t_inactive[j] >= clock - ScrubAge
               PROVE  counted[j] = 1
    BY <1>1, <1>3 DEF SeenIsCounted, FetchJobRecords, CountType, Orderly
  <2>1. CASE j \in jobs
    BY <2>1 DEF SeenIsCounted
  <2>2. CASE j \notin jobs
    <3>1. t_inactive[j] > Since /\ j \in Finished
      BY <2>2 DEF FetchJobRecords
    <3>2. \A k \in jobs : t_inactive[k] <= Since
      BY LastEndIsLatest DEF Since, CountType
    <3>3. Since \in Nat
      BY LastEndIsLatest DEF Since, CountType
    <3> QED BY <3>1, <3>2, <3>3 DEF LastIsKept, CountType
  <2> QED BY <2>1, <2>2
<1>6. LastIsKept'
  BY <1>1 DEF LastIsKept, FetchJobRecords
<1>7. ClearedIsUnseen'
  BY DEF ClearedIsUnseen, FetchJobRecords, Idle
<1> QED BY <1>2, <1>4, <1>5, <1>6, <1>7

LEMMA ScrubCount ==
  ASSUME CountInv, ScrubOldJobs
  PROVE  CountInv'
<1> USE UsageAssumption DEF CountInv, history
<1>1. Finished' = Finished /\ jobs' \subseteq jobs
  BY DEF ScrubOldJobs, Finished
<1>2. CountType'
  BY <1>1 DEF CountType, ScrubOldJobs, Idle
<1>3. \A j \in Jobs : InAccount(j)' = InAccount(j)
  BY DEF InAccount, ScrubOldJobs
<1>4. CountedIsSeen'
  BY <1>1, <1>3 DEF CountedIsSeen, ScrubOldJobs, Orderly
<1>5. SeenIsCounted'
  BY <1>1, <1>3 DEF SeenIsCounted, ScrubOldJobs, CountType, Orderly
<1>6. LastIsKept'
  BY DEF LastIsKept, ScrubOldJobs, CountType
<1>7. ClearedIsUnseen'
  BY DEF ClearedIsUnseen, ScrubOldJobs, Idle
<1> QED BY <1>2, <1>4, <1>5, <1>6, <1>7

\* What an update counts has not been counted, and is up to the last it saves.
LEMMA UpdateCount ==
  ASSUME CountInv, NEW u \in Updaters, NEW late, NEW ticks \in 0..1,
         UpdateJobUsage(u, late, ticks)
  PROVE  CountInv'
<1> USE UsageAssumption DEF CountInv
<1>1. /\ UNCHANGED <<t_inactive, jobs, reconfigure_time>>
      /\ clock' = clock + ticks
      /\ \A b \in Banks : bank'[b].ignore_older_than = bank[b].ignore_older_than
      /\ DOMAIN bins' = DOMAIN bins /\ DOMAIN assoc' = DOMAIN assoc
  BY DEF UpdateJobUsage, BankRows, Ignored
<1>2. last_job_timestamp' = [a \in DOMAIN bins |->
        IF a \in DOMAIN assoc THEN UpdateTInactive(a) ELSE last_job_timestamp[a]]
  BY DEF UpdateJobUsage, CountType
<1>3. counted' = [j \in Jobs |->
        IF AssocOf[j] \in DOMAIN assoc /\ j \in NewJobs(AssocOf[j])
        THEN counted[j] + 1 ELSE counted[j]]
  BY DEF UpdateJobUsage
<1>c. /\ clearing'.bank = clearing.bank
      /\ DOMAIN clearing' = {"bank", "at", "sum", "outrun"}
      /\ ~Idle => clearing.bank \in overtaken'
      /\ \A j \in Jobs : Orderly(j)' => Orderly(j)
  BY DEF UpdateJobUsage, Orderly, CountType, Idle
<1>4. Finished' = Finished /\ \A j \in Jobs : InAccount(j)' = InAccount(j)
  BY <1>1 DEF Finished, InAccount
<1>5. ASSUME NEW a \in DOMAIN bins
      PROVE  /\ UpdateTInactive(a) \in Nat
             /\ UpdateTInactive(a) >= last_job_timestamp[a]
             /\ \A j \in NewJobs(a) : t_inactive[j] <= UpdateTInactive(a)
             /\ \/ UpdateTInactive(a) = last_job_timestamp[a]
                \/ \E k \in jobs : t_inactive[k] = UpdateTInactive(a)
  <2>1. CASE NewJobs(a) = {}
    BY <2>1 DEF UpdateTInactive, CountType
  <2>2. CASE NewJobs(a) # {}
    <3>1. /\ NewJobs(a) \in SUBSET Finished /\ NewJobs(a) \subseteq jobs
          /\ \A j \in NewJobs(a) : t_inactive[j] > last_job_timestamp[a]
      BY DEF NewJobs, CountType
    <3>2. /\ \E j \in NewJobs(a) : LastEnd(NewJobs(a)) = t_inactive[j]
          /\ \A j \in NewJobs(a) : t_inactive[j] <= LastEnd(NewJobs(a))
          /\ LastEnd(NewJobs(a)) \in Nat
      BY <2>2, <3>1, LastEndIsLatest
    <3>3. UpdateTInactive(a) = LastEnd(NewJobs(a))
      BY <2>2 DEF UpdateTInactive
    <3> QED BY <3>1, <3>2, <3>3 DEF CountType
  <2> QED BY <2>1, <2>2
<1>6. ASSUME NEW j \in Jobs, AssocOf[j] \in DOMAIN assoc, j \in NewJobs(AssocOf[j])
      PROVE  /\ j \in Finished /\ AssocOf[j] \in DOMAIN bins /\ counted[j] = 0
             /\ InAccount(j)
  BY <1>6 DEF NewJobs, CountType, CountedIsSeen, InAccount
<1>7. CountType'
  BY <1>1, <1>2, <1>3, <1>4, <1>5, <1>6, <1>c DEF CountType
<1>8. CountedIsSeen'
  <2> SUFFICES ASSUME NEW j \in Jobs, counted'[j] = 1
               PROVE  /\ j \in Finished /\ AssocOf[j] \in DOMAIN bins
                      /\ t_inactive[j] <= last_job_timestamp'[AssocOf[j]]
                      /\ t_inactive[j] > reconfigure_time
                      /\ Orderly(j)' => InAccount(j)
    BY <1>1, <1>4 DEF CountedIsSeen
  <2>1. CASE AssocOf[j] \in DOMAIN assoc /\ j \in NewJobs(AssocOf[j])
    BY <2>1, <1>2, <1>5, <1>6 DEF InAccount
  <2>2. CASE ~(AssocOf[j] \in DOMAIN assoc /\ j \in NewJobs(AssocOf[j]))
    BY <2>2, <1>2, <1>3, <1>5, <1>c DEF CountedIsSeen, CountType
  <2> QED BY <2>1, <2>2
<1>9. SeenIsCounted'
  <2> SUFFICES ASSUME NEW j \in jobs, Orderly(j), AssocOf[j] \in DOMAIN bins,
                      t_inactive[j] <= last_job_timestamp'[AssocOf[j]],
                      InAccount(j), t_inactive[j] >= clock + ticks - ScrubAge
               PROVE  counted'[j] = 1
    BY <1>1, <1>4, <1>c DEF SeenIsCounted, CountType
  <2> j \in Jobs
    BY DEF CountType
  <2>1. CASE t_inactive[j] <= last_job_timestamp[AssocOf[j]]
    <3>1. counted[j] = 1
      BY <2>1 DEF SeenIsCounted, CountType
    <3> QED BY <3>1, <1>3, <1>6
  <2>2. CASE ~(t_inactive[j] <= last_job_timestamp[AssocOf[j]])
    <3>1. AssocOf[j] \in DOMAIN assoc
      BY <2>2, <1>2
    <3>2. j \in NewJobs(AssocOf[j])
      BY <2>2 DEF NewJobs, InAccount, CountType
    <3> QED BY <3>1, <3>2, <1>3, <1>6
  <2> QED BY <2>1, <2>2
<1>10. LastIsKept'
  BY <1>1, <1>2, <1>5 DEF LastIsKept, CountType
<1>11. ClearedIsUnseen'
  BY <1>c DEF ClearedIsUnseen, Idle
<1> QED BY <1>7, <1>8, <1>9, <1>10, <1>11

LEMMA ClearCount ==
  ASSUME CountInv, NEW b \in ClearBanks, ClearUsage(b)
  PROVE  CountInv'
<1> USE UsageAssumption DEF CountInv, ClearUsage, Cleared
<1>0. b \in Banks /\ Parent[b] \in Banks
  OBVIOUS
<1>1. /\ UNCHANGED <<clock, t_inactive, jobs, reconfigure_time>>
      /\ \A c \in Banks : bank'[c].ignore_older_than = bank[c].ignore_older_than
      /\ DOMAIN bins' = DOMAIN bins /\ DOMAIN assoc' = DOMAIN assoc
  BY DEF BankRows, Ignored
<1>2. /\ last_job_timestamp' = [a \in DOMAIN bins |->
           IF BankOf[a] = b THEN 0 ELSE last_job_timestamp[a]]
      /\ counted' = [j \in Jobs |-> IF BankOf[AssocOf[j]] = b THEN 0 ELSE counted[j]]
      /\ overtaken' = overtaken \ {b}
      /\ DOMAIN clearing' = {"bank", "at", "sum", "outrun"} /\ clearing'.bank = b
  BY DEF CountType
<1>3. Finished' = Finished
  BY <1>1 DEF Finished
<1>4. \A j \in Jobs : /\ InAccount(j)' = InAccount(j)
                      /\ BankOf[AssocOf[j]] # b => Orderly(j)' = Orderly(j)
  BY <1>1, <1>2 DEF InAccount, Orderly
<1>5. CountType'
  BY <1>1, <1>2, <1>3 DEF CountType
<1>6. CountedIsSeen'
  BY <1>1, <1>2, <1>3, <1>4 DEF CountedIsSeen, CountType
<1>7. SeenIsCounted'
  <2> SUFFICES ASSUME NEW j \in jobs, Orderly(j)', AssocOf[j] \in DOMAIN bins,
                      t_inactive[j] <= last_job_timestamp'[AssocOf[j]],
                      InAccount(j), t_inactive[j] >= clock - ScrubAge
               PROVE  counted'[j] = 1
    BY <1>1, <1>4 DEF SeenIsCounted, CountType
  <2>1. BankOf[AssocOf[j]] # b
    BY <1>2 DEF CountType
  <2> QED BY <2>1, <1>2, <1>4 DEF SeenIsCounted, CountType
<1>8. LastIsKept'
  BY <1>1, <1>2 DEF LastIsKept
<1>9. ClearedIsUnseen'
  BY <1>1, <1>2 DEF ClearedIsUnseen
<1> QED BY <1>5, <1>6, <1>7, <1>8, <1>9

\* The last transaction of a clear moves what is in account: no harm where
\* nothing has been seen since the first one.
LEMMA ClearEndsCount ==
  ASSUME CountInv, ClearUsageEnds
  PROVE  CountInv'
<1> USE UsageAssumption DEF CountInv
<1> DEFINE b == clearing.bank
<1>0. ~Idle /\ b \in Banks
  BY DEF ClearUsageEnds, CountType, Idle
<1>1. /\ UNCHANGED <<clock, t_inactive, jobs, assoc, bins, last_job_timestamp,
                     counted, reconfigure_time, overtaken>>
      /\ \A c \in Banks \ {b} : bank'[c].ignore_older_than = bank[c].ignore_older_than
      /\ Idle' /\ clearing' = Nothing
  BY DEF ClearUsageEnds, history, Idle, Nothing
<1>2. Finished' = Finished
  BY <1>1 DEF Finished
<1>3. \A j \in Jobs : Orderly(j)' = Orderly(j)
  BY <1>1 DEF Orderly
<1>4. ASSUME NEW j \in Jobs, Orderly(j), AssocOf[j] \in DOMAIN bins, j \in Finished,
             t_inactive[j] <= last_job_timestamp[AssocOf[j]]
      PROVE  InAccount(j)' = InAccount(j)
  <2>1. BankOf[AssocOf[j]] # b
    BY <1>0, <1>4 DEF ClearedIsUnseen, CountType, Orderly
  <2> QED BY <2>1, <1>1 DEF InAccount
<1> HIDE DEF b
<1>5. CountType'
  BY <1>1, <1>2 DEF CountType, Nothing
<1>6. CountedIsSeen'
  BY <1>1, <1>2, <1>3, <1>4 DEF CountedIsSeen
<1>7. SeenIsCounted'
  BY <1>1, <1>3, <1>4 DEF SeenIsCounted, CountType
<1>8. LastIsKept'
  BY <1>1 DEF LastIsKept
<1>9. ClearedIsUnseen'
  BY <1>1 DEF ClearedIsUnseen
<1> QED BY <1>5, <1>6, <1>7, <1>8, <1>9

LEMMA EditConfigCount ==
  ASSUME CountInv, NEW c, EditConfig(c)
  PROVE  CountInv'
<1> USE UsageAssumption DEF CountInv
<1>1. Finished' = Finished
  BY DEF Finished, EditConfig
<1>2. CountType'
  BY <1>1 DEF CountType, EditConfig, Idle
<1>3. CountedIsSeen'
  BY DEF CountedIsSeen, EditConfig
<1>4. SeenIsCounted'
  BY DEF SeenIsCounted, EditConfig, CountType
<1>5. LastIsKept'
  BY DEF LastIsKept, EditConfig, CountType
<1>6. ClearedIsUnseen'
  BY DEF ClearedIsUnseen, EditConfig, Idle
<1> QED BY <1>2, <1>3, <1>4, <1>5, <1>6

LEMMA AddUserCount ==
  ASSUME CountInv, NEW a \in Assocs, AddUser(a)
  PROVE  CountInv'
<1> USE UsageAssumption DEF CountInv
<1>1. /\ UNCHANGED <<clock, t_inactive, jobs, bank, reconfigure_time, counted>>
      /\ DOMAIN bins' = DOMAIN bins \cup {a} /\ DOMAIN assoc' = DOMAIN assoc \cup {a}
      /\ last_job_timestamp' = [c \in DOMAIN bins \cup {a} |->
           IF c \in DOMAIN bins THEN last_job_timestamp[c] ELSE 0]
      /\ UNCHANGED <<overtaken, clearing>> /\ Idle /\ Idle'
  BY DEF AddUser, history, Idle
<1>2. /\ Finished' = Finished
      /\ \A j \in Jobs : InAccount(j)' = InAccount(j) /\ Orderly(j)' = Orderly(j)
  BY <1>1 DEF Finished, InAccount, Orderly
<1>3. CountType'
  BY <1>1, <1>2 DEF CountType
<1>4. CountedIsSeen'
  BY <1>1, <1>2 DEF CountedIsSeen
<1>5. SeenIsCounted'
  BY <1>1, <1>2 DEF SeenIsCounted, CountType
<1>6. LastIsKept'
  BY <1>1 DEF LastIsKept
<1>7. ClearedIsUnseen'
  BY <1>1 DEF ClearedIsUnseen
<1> QED BY <1>3, <1>4, <1>5, <1>6, <1>7

LEMMA NextCount == CountInv /\ [Next]_vars => CountInv'
<1> SUFFICES ASSUME CountInv, [Next]_vars PROVE CountInv'
  OBVIOUS
<1> USE UsageAssumption
<1>t. /\ clock \in Nat /\ DOMAIN assoc \subseteq DOMAIN bins
      /\ DOMAIN clearing = {"bank", "at", "sum", "outrun"}
  BY DEF CountInv, CountType
<1>1. CASE Tick
  BY <1>1, <1>t, SameRecords DEF Tick, table, history
<1>2. ASSUME NEW S \in SUBSET (Jobs \ Finished), JobsEnd(S) PROVE CountInv'
  BY <1>2, JobsEndCount
<1>3. CASE FetchJobRecords
  BY <1>3, FetchCount
<1>4. CASE ScrubOldJobs
  BY <1>4, ScrubCount
<1>5. ASSUME NEW u \in Updaters, UpdateBegin(u) PROVE CountInv'
  BY <1>5, <1>t, SameRecords DEF UpdateBegin, table, history
<1>6. ASSUME NEW u \in Updaters, Update(u) PROVE CountInv'
  BY <1>6, UpdateCount DEF Update
<1>7. CASE Clears
  <2>1. ASSUME NEW b \in ClearBanks, ClearUsage(b) PROVE CountInv'
    BY <2>1, ClearCount
  <2>2. CASE ReadParentSum
    BY <2>2, <1>t, SameRecords DEF ReadParentSum, table, history
  <2>3. CASE WriteParentSum
    BY <2>3, <1>t, SameRecords DEF WriteParentSum
  <2>4. CASE ClearUsageEnds
    BY <2>4, ClearEndsCount
  <2>5. CASE ClearUsageFails
    BY <2>5, <1>t, SameRecords DEF ClearUsageFails, table, Nothing
  <2> QED BY <1>7, <2>1, <2>2, <2>3, <2>4, <2>5 DEF Clears
<1>8. ASSUME NEW c \in Edits, EditConfig(c) PROVE CountInv'
  BY <1>8, EditConfigCount
<1>9. ASSUME NEW a \in UserEdits, AddUser(a) PROVE CountInv'
  BY <1>9, AddUserCount
<1>10. ASSUME NEW a \in UserEdits, DeleteUser(a) PROVE CountInv'
  BY <1>10, <1>t, SameRecords DEF DeleteUser, Restrict, history
<1>11. CASE UNCHANGED vars
  BY <1>11, <1>t, SameRecords DEF vars, table, history
<1> QED BY <1>1, <1>2, <1>3, <1>4, <1>5, <1>6, <1>7, <1>8, <1>9, <1>10, <1>11
        DEF Next, Records, Updates, Reconfigures, Users

\* In every reachable state the inductive invariant holds.
THEOREM CountInvariance == Spec => []CountInv
<1> QED BY InitCount, NextCount, PTL DEF Spec

\* Every record is counted exactly once, whatever is fetched, scrubbed, cleared
\* transaction by transaction, reconfigured, deleted and added in whatever order;
\* of a bank that was updated in the middle of its clear, at most once.
THEOREM RecordsCountedExactly == Spec => []CountedExactly
<1>1. CountInv => CountedExactly
  BY DEF CountInv, CountType, CountedIsSeen, SeenIsCounted, CountedExactly, Orderly
<1> QED BY <1>1, CountInvariance, PTL

-----------------------------------------------------------------------------
(* Bins rotate with the half-life period *)

NothingInBins == \A a \in DOMAIN bins : ~HoldsUsage(a)

\* Between its two halves an update and the table agree on the end of the
\* period, or the bins have been made anew and there is nothing to decay.
PeriodInv(u) ==
  /\ config \in Configs /\ end_hl \in Nat /\ rotations \in [Assocs -> Nat]
  /\ DOMAIN read_end_hl = Updaters
  /\ read_end_hl[u] \in {None, end_hl} \/ NothingInBins

\* An association rotates only when the boundary has passed: for one without
\* records by the clock, for the others by the last record, which is no later.
LEMMA RotatesAtBoundary ==
  ASSUME CountType, config \in Configs, NEW a, NEW end \in Nat, NEW now \in Nat,
         clock <= now, CalcUsageFactor(a, end, now).rotated
  PROVE  end < now - config.half_life
<1>h. config.half_life \in Nat \ {0}
  BY UsageAssumption
<1> SUFFICES ASSUME ~(end < now - config.half_life) PROVE FALSE
  OBVIOUS
<1>1. CASE NewJobs(a) = {}
  <2>1. ~CalcUsageFactor(a, end, now).rotated
    BY <1>1, <1>h DEF CalcUsageFactor
  <2> QED BY <2>1
<1>2. CASE NewJobs(a) # {}
  <2>1. NewJobs(a) \in SUBSET Finished
    BY DEF NewJobs, CountType
  <2>2. LastEnd(NewJobs(a)) \in Nat /\ LastEnd(NewJobs(a)) < clock
    BY <1>2, <2>1, LastEndIsLatest DEF CountType
  <2>3. LastEnd(NewJobs(a)) - end < config.half_life
    BY <2>2, <1>h DEF CountType
  <2>4. ~CalcUsageFactor(a, end, now).rotated
    BY <1>2, <2>3 DEF CalcUsageFactor
  <2> QED BY <2>4
<1> QED BY <1>1, <1>2

LEMMA UpdateRotates ==
  ASSUME CountType, NEW u, Updaters = {u}, PeriodInv(u), NEW late, NEW ticks \in 0..1,
         UpdateJobUsage(u, late, ticks), NEW a \in DOMAIN assoc,
         HoldsUsage(a), rotations'[a] # rotations[a]
  PROVE  /\ rotations'[a] = rotations[a] + 1
         /\ end_hl' = end_hl + config.half_life
<1> DEFINE now == IF a \in late THEN clock + 1 ELSE clock
<1>0. a \in Assocs /\ a \in DOMAIN bins
  BY DEF CountType
<1>1. /\ rotations'[a] = rotations[a] + 1
      /\ CalcUsageFactor(a, read_end_hl[u], now).rotated
  <2>1. rotations' = [c \in Assocs |->
          IF c \in DOMAIN assoc /\ CalcUsageFactor(c, read_end_hl[u],
                                    IF c \in late THEN clock + 1 ELSE clock).rotated
          THEN rotations[c] + 1 ELSE rotations[c]]
    BY DEF UpdateJobUsage
  <2>2. rotations'[a] = IF a \in DOMAIN assoc /\ CalcUsageFactor(a, read_end_hl[u], now).rotated
                        THEN rotations[a] + 1 ELSE rotations[a]
    BY <1>0, <2>1, Zenon
  <2>3. CASE a \in DOMAIN assoc /\ CalcUsageFactor(a, read_end_hl[u], now).rotated
    <3> HIDE DEF now
    <3> QED BY <2>2, <2>3, Zenon
  <2>4. CASE ~(a \in DOMAIN assoc /\ CalcUsageFactor(a, read_end_hl[u], now).rotated)
    <3> HIDE DEF now
    <3>1. rotations'[a] = rotations[a]
      BY <2>2, <2>4, Zenon
    <3> QED BY <3>1
  <2> QED BY <2>3, <2>4, Zenon
<1>2. now \in Nat /\ clock \in Nat /\ clock <= now /\ now <= clock + ticks
  BY DEF UpdateJobUsage, CountType
<1>3. read_end_hl[u] = end_hl /\ end_hl \in Nat /\ config \in Configs
  BY <1>0 DEF UpdateJobUsage, PeriodInv, NothingInBins
<1>4. config.half_life \in Nat
  BY <1>3, UsageAssumption
<1>5. end_hl < now - config.half_life
  <2> HIDE DEF now
  <2> QED BY <1>1, <1>2, <1>3, RotatesAtBoundary
<1>6. end_hl < clock + ticks - config.half_life
  <2> HIDE DEF now
  <2> QED BY <1>2, <1>3, <1>4, <1>5
<1>7. end_hl' = CheckEndHL(clock + ticks)
  BY DEF UpdateJobUsage
<1>8. end_hl' = end_hl + config.half_life
  BY <1>2, <1>3, <1>4, <1>6, <1>7 DEF CheckEndHL
<1> QED BY <1>1, <1>8

LEMMA NextPeriod ==
  ASSUME NEW u, Updaters = {u}, CountInv, PeriodInv(u), [Next]_vars
  PROVE  PeriodInv(u)'
<1> USE DEF PeriodInv, table, history
<1>0. \A c \in Edits : c \in Configs /\ c.half_life \in Nat
  BY UsageAssumption
<1>c. clock \in Nat
  BY DEF CountInv, CountType
<1>s. ASSUME UNCHANGED <<bins, end_hl, config, read_end_hl, rotations>>
      PROVE  PeriodInv(u)'
  BY <1>s DEF NothingInBins, HoldsUsage
<1>1. CASE Records
  BY <1>1, <1>s DEF Records, Tick, JobsEnd, FetchJobRecords, ScrubOldJobs
<1>2. CASE UpdateBegin(u)
  BY <1>2 DEF UpdateBegin
<1>3. ASSUME NEW late, NEW ticks \in 0..1, UpdateJobUsage(u, late, ticks)
      PROVE  PeriodInv(u)'
  <2>1. config' = config /\ end_hl' = CheckEndHL(clock + ticks)
    BY <1>3 DEF UpdateJobUsage
  <2>2. DOMAIN read_end_hl' = Updaters /\ read_end_hl'[u] = None
    BY <1>3 DEF UpdateJobUsage
  <2>3. end_hl' \in Nat
    BY <2>1, UsageAssumption DEF CheckEndHL
  <2>4. rotations' \in [Assocs -> Nat]
    BY <1>3 DEF UpdateJobUsage
  <2> QED BY <2>1, <2>2, <2>3, <2>4
<1>4. ASSUME NEW b, ClearUsage(b) PROVE PeriodInv(u)'
  <2>1. /\ UNCHANGED <<end_hl, config, read_end_hl, rotations>>
        /\ bins' = [a \in DOMAIN bins |->
             IF BankOf[a] = b THEN [p \in DOMAIN bins[a] |-> 0] ELSE bins[a]]
    BY <1>4 DEF ClearUsage, Cleared
  <2>2. NothingInBins => NothingInBins'
    BY <2>1 DEF NothingInBins, HoldsUsage
  <2> QED BY <2>1, <2>2
<1>9. CASE ReadParentSum \/ WriteParentSum \/ ClearUsageEnds \/ ClearUsageFails
  BY <1>9, <1>s DEF ReadParentSum, WriteParentSum, ClearUsageEnds, ClearUsageFails
<1>5. ASSUME NEW c \in Edits, EditConfig(c) PROVE PeriodInv(u)'
  <2>1. /\ config' = c /\ end_hl' = clock + c.half_life
        /\ UNCHANGED <<read_end_hl, rotations>>
        /\ bins' = [a \in DOMAIN bins |-> Zeros(BinsAfterReconfigure(c))]
    BY <1>5 DEF EditConfig
  <2>2. NothingInBins'
    BY <2>1 DEF NothingInBins, HoldsUsage, Zeros
  <2> QED BY <2>1, <2>2, <1>0, <1>c
<1>6. ASSUME NEW a, AddUser(a) PROVE PeriodInv(u)'
  <2> DEFINE old == IF a \in DOMAIN bins THEN bins[a] ELSE <<>>
             added == [p \in DOMAIN old \cup 0..BinsOfNewUser(config) - 1 |->
                         IF p \in DOMAIN old THEN old[p] ELSE 0]
  <2>1. /\ UNCHANGED <<end_hl, config, read_end_hl, rotations>>
        /\ bins' = [c \in DOMAIN bins \cup {a} |-> IF c = a THEN added ELSE bins[c]]
    BY <1>6 DEF AddUser
  <2>2. NothingInBins => \A p \in DOMAIN added : added[p] = 0
    BY DEF NothingInBins, HoldsUsage
  <2>3. NothingInBins => NothingInBins'
    <3> HIDE DEF added
    <3> QED BY <2>1, <2>2 DEF NothingInBins, HoldsUsage
  <2> QED BY <2>1, <2>3
<1>7. CASE Users
  BY <1>7, <1>6, <1>s DEF Users, DeleteUser
<1>8. CASE UNCHANGED vars
  BY <1>8, <1>s DEF vars
<1> QED BY <1>1, <1>2, <1>3, <1>4, <1>5, <1>7, <1>8, <1>9
        DEF Next, Updates, Update, Clears, Reconfigures

LEMMA NextRotates ==
  ASSUME NEW u, Updaters = {u}, CountInv, PeriodInv(u), [Next]_vars,
         NEW a \in DOMAIN assoc, HoldsUsage(a), rotations'[a] # rotations[a]
  PROVE  /\ rotations'[a] = rotations[a] + 1
         /\ end_hl' = end_hl + config.half_life
<1>1. PICK late \in SUBSET DOMAIN assoc, ticks \in 0..1 : UpdateJobUsage(u, late, ticks)
  <2>1. ~UNCHANGED rotations
    OBVIOUS
  <2>2. ~Records /\ ~UpdateBegin(u) /\ ~Clears /\ ~Reconfigures /\ ~Users /\ ~UNCHANGED vars
    BY <2>1 DEF Records, Tick, JobsEnd, FetchJobRecords, ScrubOldJobs, UpdateBegin,
                Clears, ClearUsage, Cleared, ReadParentSum, WriteParentSum, ClearUsageEnds,
                ClearUsageFails, Reconfigures, EditConfig, Users, AddUser, DeleteUser,
                vars, history
  <2> QED BY <2>2 DEF Next, Updates, Update
<1> QED BY <1>1, UpdateRotates DEF CountInv

\* With one updater what an association has used is decayed at most once for
\* every half-life period, whatever records come when and whatever is cleared,
\* reconfigured, deleted and added between the two halves of an update.
THEOREM OneRotationPerPeriod ==
  ASSUME NEW u, Updaters = {u}
  PROVE  Spec => RotatedOncePerPeriod
<1>1. Init => PeriodInv(u)
  BY UsageAssumption DEF Init, PeriodInv
<1>2. CountInv /\ PeriodInv(u) /\ [Next]_vars => PeriodInv(u)'
  BY NextPeriod
<1>3. CountInv /\ PeriodInv(u) /\ [Next]_vars
        => [\A a \in DOMAIN assoc : HoldsUsage(a) /\ rotations'[a] # rotations[a] =>
              /\ rotations'[a] = rotations[a] + 1
              /\ end_hl' = end_hl + config.half_life]_vars
  BY NextRotates
<1> QED BY <1>1, <1>2, <1>3, CountInvariance, PTL DEF Spec, RotatedOncePerPeriod

-----------------------------------------------------------------------------
(* Usage is not made out of nothing *)

\* Sums over bins, which are numbered from 0.
Bins == UNION {[0..n - 1 -> Nat] : n \in Nat}

LEMMA BinsAreFinite ==
  ASSUME NEW b \in Bins
  PROVE  IsFiniteSet(DOMAIN b) /\ \A p \in DOMAIN b : p \in Nat /\ b[p] \in Nat
<1>1. PICK n \in Nat : b \in [0..n - 1 -> Nat]
  BY DEF Bins
<1>2. IsFiniteSet(0..n - 1)
  BY <1>1, FS_Interval
<1> QED BY <1>1, <1>2

LEMMA BinsSum == ASSUME NEW b \in Bins PROVE SumFunction(b) \in Nat
  BY BinsAreFinite, SumType DEF SumFunction

LEMMA EmptyBins ==
  ASSUME NEW b \in Bins, \A p \in DOMAIN b : b[p] = 0
  PROVE  SumFunction(b) = 0
  BY BinsAreFinite, SumOfZeros DEF SumFunction

LEMMA MoreInABin ==
  ASSUME NEW b \in Bins, NEW c \in Nat
  PROVE  LET more == [b EXCEPT ![0] = @ + c]
         IN  more \in Bins /\ SumFunction(more) <= SumFunction(b) + c
<1> DEFINE more == [b EXCEPT ![0] = @ + c]
           D == DOMAIN b
<1>1. PICK n \in Nat : b \in [0..n - 1 -> Nat]
  BY DEF Bins
<1>2. more \in [0..n - 1 -> Nat]
  <2>1. \A p \in 0..n - 1 : b[p] \in Nat
    BY <1>1
  <2>2. b[0] + c \in Nat \/ 0 \notin 0..n - 1
    BY <2>1
  <2>3. more = [p \in 0..n - 1 |-> IF p = 0 THEN b[0] + c ELSE b[p]]
    BY <1>1
  <2> QED BY <2>1, <2>2, <2>3
<1>3. /\ more \in Bins /\ DOMAIN more = D
      /\ \A p \in D \ {0} : more[p] = b[p]
      /\ 0 \in D => more[0] = b[0] + c /\ b[0] \in Nat
  BY <1>1, <1>2 DEF Bins
<1> HIDE DEF more
<1>4. SumFunction(more) = SumFunctionOnSet(more, D) /\ SumFunction(b) = SumFunctionOnSet(b, D)
  BY <1>3 DEF SumFunction
<1>5. IsFiniteSet(D) /\ IsFiniteSet(D \ {0})
  BY BinsAreFinite, FS_Subset
<1> DEFINE all == SumFunctionOnSet(b, D)
           new == SumFunctionOnSet(more, D)
           others == SumFunctionOnSet(b, D \ {0})
<1>6. all \in Nat /\ others \in Nat
  <2>1. \A p \in D : b[p] \in Nat
    BY BinsAreFinite
  <2> HIDE DEF D
  <2> QED BY <2>1, <1>5, SumType
<1>7. new <= all + c
  <2>1. SumFunctionOnSet(more, D \ {0}) = others
    <3> HIDE DEF D
    <3> QED BY <1>3, <1>5, SumAgrees
  <2>2. CASE 0 \in D
    <3>1. all = b[0] + others
      <4>1. \A p \in D : b[p] \in Int
        BY BinsAreFinite
      <4> HIDE DEF D
      <4> QED BY <2>2, <4>1, <1>5, SumWithout
    <3>2. new = more[0] + others
      <4>1. \A p \in D : more[p] \in Int
        BY <1>3, BinsAreFinite
      <4>2. new = more[0] + SumFunctionOnSet(more, D \ {0})
        <5> HIDE DEF D
        <5> QED BY <2>2, <4>1, <1>5, SumWithout
      <4> QED BY <2>1, <4>2
    <3>3. more[0] = b[0] + c /\ b[0] \in Nat
      BY <2>2, <1>3
    <3> HIDE DEF all, new, others
    <3> QED BY <3>1, <3>2, <3>3, <1>6
  <2>3. CASE 0 \notin D
    <3>1. D \ {0} = D
      BY <2>3
    <3>2. new = all
      BY <2>1, <3>1
    <3> HIDE DEF all, new, others
    <3> QED BY <3>2, <1>6
  <2> QED BY <2>2, <2>3
<1> HIDE DEF all, new, others
<1>8. SumFunction(more) <= SumFunction(b) + c
  BY <1>4, <1>7 DEF all, new
<1> QED BY <1>3, <1>8 DEF more

LEMMA DecayType == ASSUME NEW v \in Nat PROVE Decay(v) \in Nat
<1> DEFINE x == v * DecayNum
<1>1. x \in Nat /\ DecayDen \in Nat \ {0}
  BY UsageAssumption
<1> HIDE DEF x
<1>2. x \div DecayDen \in Nat
  BY <1>1
<1> QED BY <1>2 DEF x, Decay

LEMMA DecayedValue ==
  ASSUME DecayHalves, NEW v \in Nat
  PROVE  2 * Decay(v) <= v
<1> DEFINE x == v * DecayNum
           q == x \div DecayDen
<1>0. DecayNum \in Nat /\ DecayDen \in Nat \ {0} /\ 2 * DecayNum <= DecayDen
  BY UsageAssumption DEF DecayHalves
<1>1. x \in Nat /\ 2 * x <= v * DecayDen
  <2>1. \A a, b \in Nat : a <= b => v * a <= v * b
    OBVIOUS
  <2>2. v * (2 * DecayNum) <= v * DecayDen
    BY <1>0, <2>1
  <2>3. v * (2 * DecayNum) = 2 * (v * DecayNum)
    BY <1>0
  <2> QED BY <1>0, <2>2, <2>3
<1> HIDE DEF x
<1>2. q \in Nat /\ q * DecayDen <= x
  BY <1>0, <1>1
<1> HIDE DEF q
<1>3. 2 * q <= v
  <2> SUFFICES ASSUME 2 * q > v PROVE FALSE
    BY <1>2
  <2>1. (v + 1) * DecayDen <= (2 * q) * DecayDen
    BY <1>0, <1>2
  <2>2. (2 * q) * DecayDen = 2 * (q * DecayDen) /\ (v + 1) * DecayDen = v * DecayDen + DecayDen
    BY <1>0, <1>2
  <2>3. v * DecayDen \in Nat /\ q * DecayDen \in Nat
    BY <1>0, <1>2
  <2> QED BY <1>0, <1>1, <1>2, <2>1, <2>2, <2>3
<1> QED BY <1>2, <1>3 DEF q, x, Decay

\* Bins that move on by one and decay: by comparing the first so many of them
\* with the ones they come from.
LEMMA DecayedBins ==
  ASSUME NEW b \in Bins
  PROVE  LET decayed == ApplyDecayFactor(b)
         IN  /\ decayed \in Bins
             /\ DecayHalves => 2 * SumFunction(decayed) <= SumFunction(b)
<1> DEFINE d == ApplyDecayFactor(b)
<1>1. PICK n \in Nat : b \in [0..n - 1 -> Nat]
  BY DEF Bins
<1>2. /\ d \in [0..n - 1 -> Nat]
      /\ \A p \in 0..n - 1 : d[p] = IF p = 0 THEN 0 ELSE Decay(b[p - 1])
  <2>1. \A p \in 0..n - 1 : p # 0 => b[p - 1] \in Nat
    BY <1>1
  <2> QED BY <1>1, <2>1, DecayType DEF ApplyDecayFactor
<1>3. d \in Bins
  BY <1>2 DEF Bins
<1> SUFFICES ASSUME DecayHalves PROVE 2 * SumFunction(d) <= SumFunction(b)
  BY <1>3
<1> HIDE DEF d
<1> DEFINE Below(m) == SumFunctionOnSet(d, 0..m)
           From(m) == SumFunctionOnSet(b, 0..m - 1)
           G == {m \in Nat : m <= n - 1 => 2 * Below(m) <= From(m)}
<1>4. \A m \in Int : IsFiniteSet(0..m)
  BY FS_Interval
<1>5. ASSUME NEW m \in Nat, m <= n - 1 PROVE Below(m) \in Nat /\ From(m) \in Nat
  <2>1. \A p \in 0..m : d[p] \in Nat
    BY <1>2, <1>5
  <2>2. \A p \in 0..m - 1 : b[p] \in Nat
    BY <1>1, <1>5
  <2>3. IsFiniteSet(0..m) /\ IsFiniteSet(0..m - 1)
    BY <1>4
  <2> QED BY <2>1, <2>2, <2>3, SumType
<1>6. 0 \in G
  <2>1. CASE n = 0
    BY <2>1
  <2>2. CASE n # 0
    <3>1. 0..0 = {0} /\ 0..0 - 1 = {}
      OBVIOUS
    <3>2. \A p \in 0..0 : d[p] = 0
      BY <2>2, <1>1, <1>2
    <3>3. Below(0) = 0
      <4> DEFINE S == {0}
      <4>1. IsFiniteSet(S)
        BY FS_Singleton
      <4>2. \A p \in S : d[p] = 0
        BY <3>1, <3>2
      <4> HIDE DEF S
      <4>3. SumFunctionOnSet(d, S) = 0
        BY <4>1, <4>2, SumOfZeros
      <4> QED BY <3>1, <4>3 DEF S
    <3>4. From(0) = 0
      BY <3>1, SumOfNothing
    <3> HIDE DEF Below, From
    <3> QED BY <3>3, <3>4
  <2> QED BY <2>1, <2>2
<1>7. ASSUME NEW m \in Nat, m \in G PROVE m + 1 \in G
  <2> SUFFICES ASSUME m + 1 <= n - 1 PROVE 2 * Below(m + 1) <= From(m + 1)
    BY <1>7
  <2>1. 2 * Below(m) <= From(m) /\ Below(m) \in Nat /\ From(m) \in Nat
    BY <1>5, <1>7, <1>1
  <2>2. b[m] \in Nat /\ d[m + 1] \in Nat /\ 2 * d[m + 1] <= b[m]
    <3>1. b[m] \in Nat /\ d[m + 1] = Decay(b[m])
      BY <1>1, <1>2
    <3> QED BY <3>1, DecayType, DecayedValue
  <2>3. Below(m + 1) = Below(m) + d[m + 1]
    <3>1. 0..m + 1 = (0..m) \cup {m + 1} /\ m + 1 \notin 0..m
      OBVIOUS
    <3>2. \A p \in (0..m) \cup {m + 1} : d[p] \in Int
      BY <1>1, <1>2
    <3>3. SumFunctionOnSet(d, (0..m) \cup {m + 1}) = SumFunctionOnSet(d, 0..m) + d[m + 1]
      <4> DEFINE S == 0..m
                 next == m + 1
      <4>1. IsFiniteSet(S) /\ next \notin S /\ \A p \in S \cup {next} : d[p] \in Int
        BY <1>4, <3>1, <3>2
      <4> HIDE DEF S, next
      <4>2. SumFunctionOnSet(d, S \cup {next}) = SumFunctionOnSet(d, S) + d[next]
        BY <4>1, SumWith
      <4> QED BY <4>2 DEF S, next
    <3> QED BY <3>1, <3>3
  <2>4. From(m + 1) = From(m) + b[m]
    <3>1. 0..(m + 1) - 1 = (0..m - 1) \cup {m} /\ m \notin 0..m - 1
      OBVIOUS
    <3>2. \A p \in (0..m - 1) \cup {m} : b[p] \in Int
      BY <1>1
    <3>3. SumFunctionOnSet(b, (0..m - 1) \cup {m}) = SumFunctionOnSet(b, 0..m - 1) + b[m]
      <4> DEFINE S == 0..m - 1
                 next == m
      <4>1. IsFiniteSet(S) /\ next \notin S /\ \A p \in S \cup {next} : b[p] \in Int
        BY <1>4, <3>1, <3>2
      <4> HIDE DEF S, next
      <4>2. SumFunctionOnSet(b, S \cup {next}) = SumFunctionOnSet(b, S) + b[next]
        BY <4>1, SumWith
      <4> QED BY <4>2 DEF S, next
    <3> QED BY <3>1, <3>3
  <2> DEFINE before == Below(m)
             source == From(m)
             after == Below(m + 1)
             sources == From(m + 1)
  <2> HIDE DEF Below, From
  <2>5. 2 * after <= sources
    <3>1. /\ 2 * before <= source /\ before \in Nat /\ source \in Nat
          /\ after = before + d[m + 1] /\ sources = source + b[m]
      BY <2>1, <2>3, <2>4
    <3> HIDE DEF before, source, after, sources
    <3> QED BY <2>2, <3>1
  <2> QED BY <2>5
<1>8. 2 * SumFunction(d) <= SumFunction(b)
  <2>1. Nat \subseteq G
    <3> HIDE DEF G
    <3> QED BY <1>6, <1>7, NatSetInduction
  <2>2. SumFunction(b) \in Nat /\ SumFunction(d) \in Nat
    BY <1>3, BinsSum
  <2>3. CASE n = 0
    <3>1. \A p \in DOMAIN d : d[p] = 0
      BY <1>2, <2>3
    <3>2. SumFunction(d) = 0
      BY <1>3, <3>1, EmptyBins
    <3> QED BY <2>2, <3>2
  <2>4. CASE n # 0
    <3>1. n - 1 \in Nat
      BY <2>4
    <3>2. 2 * Below(n - 1) <= From(n - 1)
      BY <2>1, <3>1
    <3>3. SumFunction(d) = Below(n - 1)
      BY <1>2 DEF SumFunction
    <3>4. From(n - 1) <= SumFunction(b)
      <4>1. 0..(n - 1) - 1 \subseteq 0..n - 1 /\ DOMAIN b = 0..n - 1
        BY <1>1
      <4> QED BY <4>1, BinsAreFinite, SumOfSubset DEF SumFunction
    <3>5. From(n - 1) \in Nat
      BY <1>5, <3>1
    <3> HIDE DEF Below, From
    <3> QED BY <2>2, <3>2, <3>3, <3>4, <3>5
  <2> QED BY <2>3, <2>4
<1> QED BY <1>8
\* Bins of a new association, and those it finds, with more of them.
LEMMA NewBins ==
  /\ \A n \in Int : Zeros(n) \in Bins /\ SumFunction(Zeros(n)) = 0
  /\ \A b \in Bins : LET cleared == [p \in DOMAIN b |-> 0]
                     IN  cleared \in Bins /\ SumFunction(cleared) = 0
<1>1. ASSUME NEW n \in Int PROVE Zeros(n) \in Bins /\ SumFunction(Zeros(n)) = 0
  <2>1. Zeros(n) \in Bins
    <3>1. CASE n \in Nat
      BY <3>1 DEF Zeros, Bins
    <3>2. CASE n \notin Nat
      <4>1. 0..n - 1 = 0..0 - 1
        BY <3>2
      <4>2. Zeros(n) \in [0..0 - 1 -> Nat] /\ 0 \in Nat
        BY <4>1 DEF Zeros
      <4> QED BY <4>2 DEF Bins
    <3> QED BY <3>1, <3>2
  <2>2. \A p \in DOMAIN Zeros(n) : Zeros(n)[p] = 0
    BY DEF Zeros
  <2> QED BY <2>1, <2>2, EmptyBins
<1>2. ASSUME NEW b \in Bins
      PROVE  LET cleared == [p \in DOMAIN b |-> 0]
             IN  cleared \in Bins /\ SumFunction(cleared) = 0
  <2> DEFINE cleared == [p \in DOMAIN b |-> 0]
  <2>1. cleared \in Bins
    BY DEF Bins
  <2>2. \A p \in DOMAIN cleared : cleared[p] = 0
    OBVIOUS
  <2> HIDE DEF cleared
  <2>3. cleared \in Bins /\ SumFunction(cleared) = 0
    BY <2>1, <2>2, EmptyBins
  <2> QED BY <2>3 DEF cleared
<1> QED BY <1>1, <1>2

LEMMA MoreBins ==
  ASSUME NEW b \in Bins \cup {<<>>}, NEW n \in Nat
  PROVE  LET more == [p \in DOMAIN b \cup 0..n - 1 |-> IF p \in DOMAIN b THEN b[p] ELSE 0]
         IN  more \in Bins /\ SumFunction(more) = SumFunction(b)
<1> DEFINE more == [p \in DOMAIN b \cup 0..n - 1 |-> IF p \in DOMAIN b THEN b[p] ELSE 0]
           D == DOMAIN b
           added == (0..n - 1) \ D
<1>1. PICK m \in Nat : D = 0..m - 1 /\ \A p \in D : b[p] \in Nat
  BY DEF Bins
<1>2. more \in Bins
  <2>1. PICK k \in Nat : D \cup 0..n - 1 = 0..k - 1
    <3>1. CASE n <= m
      BY <1>1, <3>1
    <3>2. CASE n > m
      BY <1>1, <3>2
    <3> QED BY <1>1, <3>1, <3>2
  <2>2. more \in [0..k - 1 -> Nat]
    BY <1>1, <2>1
  <2> HIDE DEF more
  <2> QED BY <2>2 DEF Bins
<1>3. IsFiniteSet(D) /\ IsFiniteSet(added)
  <2>1. IsFiniteSet(0..n - 1) /\ IsFiniteSet(0..m - 1)
    BY FS_Interval
  <2>2. IsFiniteSet(D)
    BY <1>1, <2>1
  <2> QED BY <2>1, <2>2, FS_Subset
<1>4. /\ DOMAIN more = D \cup added /\ D \cap added = {}
      /\ \A p \in D : more[p] = b[p]
      /\ \A p \in added : more[p] = 0
      /\ \A p \in D \cup added : more[p] \in Int
  BY <1>1
<1>5. \A p \in D : b[p] \in Int
  BY <1>1
<1> HIDE DEF more, D, added
<1>6. SumFunctionOnSet(more, D \cup added) = SumFunctionOnSet(more, D) + SumFunctionOnSet(more, added)
  BY <1>3, <1>4, SumOfUnion
<1>7. SumFunctionOnSet(more, D) = SumFunctionOnSet(b, D)
  BY <1>3, <1>4, SumAgrees
<1>8. SumFunctionOnSet(more, added) = 0
  BY <1>3, <1>4, SumOfZeros
<1>9. SumFunctionOnSet(b, D) \in Int
  BY <1>3, <1>5, SumType
<1>10. SumFunction(more) = SumFunction(b)
  <2>1. SumFunctionOnSet(more, D \cup added) = SumFunctionOnSet(b, D)
    BY <1>6, <1>7, <1>8, <1>9
  <2> QED BY <1>4, <2>1 DEF SumFunction, D
<1> QED BY <1>2, <1>10 DEF more

-----------------------------------------------------------------------------
(* The usage in account *)

LEMMA UsageFacts ==
  ASSUME NEW S \in SUBSET Jobs
  PROVE  /\ UsageOf(S) \in Nat
         /\ \A T \in SUBSET S : UsageOf(T) <= UsageOf(S)
         /\ \A T \in SUBSET Jobs : S \cap T = {} => UsageOf(S \cup T) = UsageOf(S) + UsageOf(T)
<1>1. \A T \in SUBSET Jobs : IsFiniteSet(T)
  BY UsageAssumption, FS_Subset
<1>2. \A T \in SUBSET Jobs : \A j \in T : Usage[j] \in Nat /\ Usage[j] \in Int
  BY UsageAssumption
<1>3. UsageOf(S) \in Nat
  BY <1>1, <1>2, SumType DEF UsageOf
<1>4. \A T \in SUBSET S : UsageOf(T) <= UsageOf(S)
  BY <1>1, <1>2, SumOfSubset DEF UsageOf
<1>5. ASSUME NEW T \in SUBSET Jobs, S \cap T = {}
      PROVE  UsageOf(S \cup T) = UsageOf(S) + UsageOf(T)
  BY <1>1, <1>2, <1>5, SumOfUnion DEF UsageOf
<1> QED BY <1>3, <1>4, <1>5

Counted(a) == {j \in JobsOf(a) : counted[j] = 1}
Ended(a) == JobsOf(a) \cap Finished

(***************************************************************************)
(* The bins of an association are worth no more than the jobs counted in   *)
(* them, and its job usage no more than its finished jobs: it keeps, until *)
(* the next update, what a reconfiguration has taken out of the bins.      *)
(***************************************************************************)
UsageType ==
  /\ config \in Configs
  /\ \A a \in DOMAIN bins : bins[a] \in Bins
  /\ assoc \in [DOMAIN assoc -> [job_usage : Nat]]

BinsCovered == \A a \in DOMAIN bins : SumFunction(bins[a]) <= UsageOf(Counted(a))
AssocsCovered == \A a \in DOMAIN assoc : assoc[a].job_usage <= UsageOf(Ended(a))

UsageInv == UsageType /\ BinsCovered /\ AssocsCovered

LEMMA CountedHaveEnded ==
  ASSUME CountInv, NEW a
  PROVE  Counted(a) \in SUBSET Ended(a) /\ Ended(a) \in SUBSET Jobs
  BY DEF CountInv, CountedIsSeen, Counted, Ended, JobsOf

LEMMA InvBoundsUsage == CountInv /\ UsageInv => UsageBounded
<1> SUFFICES ASSUME CountInv, UsageInv, NEW a \in DOMAIN bins
             PROVE  /\ SumFunction(bins[a]) <= UsageOf(Ended(a))
                    /\ a \in DOMAIN assoc => assoc[a].job_usage <= UsageOf(Ended(a))
  BY DEF UsageBounded, Ended
<1>1. /\ UsageOf(Counted(a)) \in Nat /\ UsageOf(Ended(a)) \in Nat
      /\ UsageOf(Counted(a)) <= UsageOf(Ended(a))
  BY CountedHaveEnded, UsageFacts
<1>2. SumFunction(bins[a]) \in Nat
  BY BinsSum DEF UsageInv, UsageType
<1> QED BY <1>1, <1>2 DEF UsageInv, BinsCovered, AssocsCovered

\* What an update makes of one association.
LEMMA FactorCovered ==
  ASSUME CountInv, UsageType, NEW a \in DOMAIN assoc, NEW end, NEW now
  PROVE  LET factor == CalcUsageFactor(a, end, now)
             all == UsageOf(Counted(a)) + UsageOf(NewJobs(a))
         IN  /\ factor.bins \in Bins /\ factor.job_usage \in Nat
             /\ DecayHalves /\ BinsCovered =>
                  /\ SumFunction(factor.bins) <= all
                  /\ factor.job_usage <= all \/ factor.job_usage = assoc[a].job_usage
<1> DEFINE found == NewJobs(a)
           current == UsageOf(found)
           last == IF found = {} THEN 0 ELSE LastEnd(found)
           decayed == ApplyDecayFactor(bins[a])
           past == SumFunction(decayed)
           sum == SumFunction(bins[a])
           counts == UsageOf(Counted(a))
           withCurrent == [bins[a] EXCEPT ![0] = @ + current]
           withAll == [decayed EXCEPT ![0] = current + past]
           unchanged == [bins |-> bins[a], job_usage |-> assoc[a].job_usage, rotated |-> FALSE]
           rotated == [bins |-> decayed, job_usage |-> past, rotated |-> TRUE]
           added == [bins |-> withCurrent, job_usage |-> current + sum, rotated |-> FALSE]
           both == [bins |-> withAll, job_usage |-> current + past, rotated |-> TRUE]
           Covered(f) == /\ f.bins \in Bins /\ f.job_usage \in Nat
                         /\ DecayHalves /\ BinsCovered =>
                              /\ SumFunction(f.bins) <= counts + current
                              /\ \/ f.job_usage <= counts + current
                                 \/ f.job_usage = assoc[a].job_usage
<1>1. a \in DOMAIN bins /\ bins[a] \in Bins /\ assoc[a].job_usage \in Nat
  BY DEF CountInv, CountType, UsageType
<1>2. current \in Nat /\ counts \in Nat
  <2>1. found \in SUBSET Jobs
    BY DEF NewJobs, CountInv, CountType
  <2>2. Counted(a) \in SUBSET Jobs
    BY DEF Counted, JobsOf
  <2> QED BY <2>1, <2>2, UsageFacts
<1>3. /\ decayed \in Bins /\ sum \in Nat /\ past \in Nat
      /\ DecayHalves /\ BinsCovered => sum <= counts /\ 2 * past <= sum
  BY <1>1, DecayedBins, BinsSum DEF BinsCovered
<1>4. withCurrent \in Bins /\ SumFunction(withCurrent) <= sum + current
  BY <1>1, <1>2, MoreInABin
<1>5. withAll \in Bins /\ SumFunction(withAll) <= past + (current + past)
  <2> DEFINE more == current + past
  <2>1. more \in Nat
    BY <1>2, <1>3
  <2>2. withAll = [decayed EXCEPT ![0] = @ + more]
    <3>1. PICK n \in Nat : decayed \in [0..n - 1 -> Nat]
      BY <1>3 DEF Bins
    <3>2. decayed[0] = 0 \/ 0 \notin 0..n - 1
      BY <3>1 DEF ApplyDecayFactor
    <3> HIDE DEF decayed
    <3>3. decayed[0] + more = more \/ 0 \notin 0..n - 1
      BY <3>2, <2>1
    <3> HIDE DEF more
    <3>4. [decayed EXCEPT ![0] = more] = [decayed EXCEPT ![0] = @ + more]
      BY <3>1, <3>3
    <3> QED BY <3>4 DEF more
  <2> HIDE DEF decayed, withAll, more
  <2>3. withAll \in Bins /\ SumFunction(withAll) <= past + more
    BY <1>3, <2>1, <2>2, MoreInABin
  <2> QED BY <2>3 DEF more
<1>6. SumFunction(withCurrent) \in Nat /\ SumFunction(withAll) \in Nat
  BY <1>4, <1>5, BinsSum
<1> HIDE DEF found, current, last, decayed, counts, withCurrent, withAll
<1>7. SumFunction(bins[a]) = sum /\ SumFunction(decayed) = past
  OBVIOUS
<1> HIDE DEF sum, past
<1>8. Covered(unchanged)
  BY <1>1, <1>2, <1>3, <1>7
<1>9. Covered(rotated)
  BY <1>2, <1>3, <1>7
<1>10. Covered(added)
  BY <1>2, <1>3, <1>4, <1>6
<1>11. Covered(both)
  BY <1>2, <1>3, <1>5, <1>6
<1> HIDE DEF Covered, unchanged, rotated, added, both
<1>12. CalcUsageFactor(a, end, now) \in {unchanged, rotated, added, both}
  BY DEF CalcUsageFactor, found, current, last, decayed, past, sum, withCurrent, withAll,
         unchanged, rotated, added, both
<1>13. Covered(CalcUsageFactor(a, end, now))
  BY <1>8, <1>9, <1>10, <1>11, <1>12
<1> QED BY <1>13 DEF Covered, counts, current, found

\* ... in which update, and for which time.
Factor(a, u, late) ==
  CalcUsageFactor(a, read_end_hl[u], IF a \in late THEN clock + 1 ELSE clock)

LEMMA UpdatedRows ==
  ASSUME NEW u, NEW late, NEW ticks, UpdateJobUsage(u, late, ticks)
  PROVE  /\ bins' = [a \in DOMAIN bins |->
                       IF a \in DOMAIN assoc THEN Factor(a, u, late).bins ELSE bins[a]]
         /\ assoc' = [a \in DOMAIN assoc |->
                       [assoc[a] EXCEPT !.job_usage = Factor(a, u, late).job_usage]]
  BY DEF UpdateJobUsage, Factor

LEMMA BinsOfAnyNumber ==
  ASSUME NEW c \in Configs
  PROVE  BinsAfterReconfigure(c) \in Nat /\ BinsOfNewUser(c) \in Nat
<1> DEFINE h == c.half_life
           r == c.reset_period
<1>1. h \in Nat \ {0} /\ r \in Nat \ {0}
  BY UsageAssumption
<1> HIDE DEF h, r
<1>2. (r + h - 1) \div h \in Nat /\ r \div h \in Nat
  BY <1>1
<1>3. (IF r \div h > 0 THEN r \div h ELSE 4) \in Nat
  BY <1>2
<1> QED BY <1>2, <1>3 DEF h, r, BinsAfterReconfigure, BinsOfNewUser

LEMMA NextUsageType == CountInv /\ UsageType /\ [Next]_vars => UsageType'
<1> SUFFICES ASSUME CountInv, UsageType, [Next]_vars PROVE UsageType'
  OBVIOUS
<1>t. /\ \A a \in DOMAIN bins : bins[a] \in Bins
      /\ assoc \in [DOMAIN assoc -> [job_usage : Nat]]
      /\ DOMAIN assoc \subseteq DOMAIN bins /\ config \in Configs
  BY DEF UsageType, CountInv, CountType
<1>1. CASE UNCHANGED <<bins, assoc, config>>
  BY <1>1, <1>t DEF UsageType
<1>2. ASSUME NEW u, NEW late, NEW ticks, UpdateJobUsage(u, late, ticks) PROVE UsageType'
  <2>1. \A a \in DOMAIN assoc :
          Factor(a, u, late).bins \in Bins /\ Factor(a, u, late).job_usage \in Nat
    BY FactorCovered DEF Factor
  <2>2. config' = config
    BY <1>2 DEF UpdateJobUsage
  <2>3. DOMAIN bins' = DOMAIN bins /\ \A a \in DOMAIN bins : bins'[a] \in Bins
    BY <1>2, <1>t, <2>1, UpdatedRows
  <2>4. assoc' \in [DOMAIN assoc -> [job_usage : Nat]]
    BY <1>2, <1>t, <2>1, UpdatedRows
  <2> QED BY <1>t, <2>2, <2>3, <2>4 DEF UsageType
<1>3. ASSUME NEW b, ClearUsage(b) PROVE UsageType'
  <2>1. /\ bins' = [a \in DOMAIN bins |->
             IF BankOf[a] = b THEN [p \in DOMAIN bins[a] |-> 0] ELSE bins[a]]
        /\ assoc' = [a \in DOMAIN assoc |->
             IF BankOf[a] = b THEN [assoc[a] EXCEPT !.job_usage = 0] ELSE assoc[a]]
        /\ config' = config
    BY <1>3 DEF ClearUsage, Cleared
  <2>2. \A a \in DOMAIN bins : [p \in DOMAIN bins[a] |-> 0] \in Bins
    BY <1>t, NewBins
  <2>3. assoc' \in [DOMAIN assoc -> [job_usage : Nat]]
    BY <1>t, <2>1
  <2> QED BY <1>t, <2>1, <2>2, <2>3 DEF UsageType
<1>4. ASSUME NEW c \in Configs, EditConfig(c) PROVE UsageType'
  <2>1. Zeros(BinsAfterReconfigure(c)) \in Bins
    BY BinsOfAnyNumber, NewBins
  <2> QED BY <1>4, <1>t, <2>1 DEF EditConfig, UsageType
<1>5. ASSUME NEW a, AddUser(a) PROVE UsageType'
  <2> DEFINE old == IF a \in DOMAIN bins THEN bins[a] ELSE <<>>
             n == BinsOfNewUser(config)
             added == [p \in DOMAIN old \cup 0..n - 1 |-> IF p \in DOMAIN old THEN old[p] ELSE 0]
  <2>1. /\ config' = config
        /\ assoc' = [c \in DOMAIN assoc \cup {a} |->
             IF c = a THEN [job_usage |-> 0] ELSE assoc[c]]
        /\ bins' = [c \in DOMAIN bins \cup {a} |-> IF c = a THEN added ELSE bins[c]]
    BY <1>5 DEF AddUser
  <2>2. added \in Bins
    <3>1. old \in Bins \cup {<<>>} /\ n \in Nat
      BY <1>t, BinsOfAnyNumber
    <3> HIDE DEF old, n
    <3> QED BY <3>1, MoreBins
  <2> HIDE DEF added
  <2> QED BY <1>t, <2>1, <2>2 DEF UsageType
<1>6. CASE ReadParentSum \/ WriteParentSum \/ ClearUsageEnds \/ ClearUsageFails
  BY <1>1, <1>6 DEF ReadParentSum, WriteParentSum, ClearUsageEnds, ClearUsageFails, table
<1>7. ASSUME NEW a, DeleteUser(a) PROVE UsageType'
  BY <1>7, <1>t DEF DeleteUser, Restrict, UsageType
<1>8. CASE Records \/ (\E u \in Updaters : UpdateBegin(u)) \/ UNCHANGED vars
  BY <1>1, <1>8 DEF Records, Tick, JobsEnd, FetchJobRecords, ScrubOldJobs, UpdateBegin, vars, table
<1> QED BY <1>2, <1>3, <1>4, <1>5, <1>6, <1>7, <1>8, UsageAssumption
        DEF Next, Updates, Update, Clears, Reconfigures, Users

\* A step that leaves the bins alone, and what is in them.
LEMMA SameUsage ==
  ASSUME UsageInv, UsageType', UNCHANGED <<bins, counted>>, Finished \subseteq Finished',
         \A a \in DOMAIN assoc' : \/ assoc'[a].job_usage = 0
                                  \/ a \in DOMAIN assoc /\ assoc'[a].job_usage = assoc[a].job_usage
  PROVE  UsageInv'
<1>2. BinsCovered'
  BY DEF UsageInv, BinsCovered, Counted
<1>3. ASSUME NEW a \in DOMAIN assoc' PROVE assoc'[a].job_usage <= UsageOf(Ended(a)')
  <2>1. Ended(a) \subseteq Ended(a)' /\ Ended(a)' \in SUBSET Jobs /\ Ended(a) \in SUBSET Jobs
    BY DEF Ended, JobsOf
  <2>2. /\ UsageOf(Ended(a)) \in Nat /\ UsageOf(Ended(a)') \in Nat
        /\ UsageOf(Ended(a)) <= UsageOf(Ended(a)')
    BY <2>1, UsageFacts
  <2>3. CASE assoc'[a].job_usage = 0
    BY <2>2, <2>3
  <2>4. CASE a \in DOMAIN assoc /\ assoc'[a].job_usage = assoc[a].job_usage
    <3>1. assoc[a].job_usage <= UsageOf(Ended(a)) /\ assoc[a].job_usage \in Nat
      BY <2>4 DEF UsageInv, UsageType, AssocsCovered
    <3> QED BY <2>2, <2>4, <3>1
  <2> QED BY <2>3, <2>4
<1>4. AssocsCovered'
  BY <1>3 DEF AssocsCovered, UsageOf, Ended
<1> QED BY <1>2, <1>4 DEF UsageInv

\* The records that an update counts join those counted before.
LEMMA UpdateUsage ==
  ASSUME DecayHalves, CountInv, CountInv', UsageInv, UsageType', NEW u, NEW late, NEW ticks,
         UpdateJobUsage(u, late, ticks)
  PROVE  UsageInv'
<1> DEFINE factor(a) == Factor(a, u, late)
           all(a) == UsageOf(Counted(a)) + UsageOf(NewJobs(a))
<1>1. /\ bins' = [a \in DOMAIN bins |-> IF a \in DOMAIN assoc THEN factor(a).bins ELSE bins[a]]
      /\ assoc' = [a \in DOMAIN assoc |-> [assoc[a] EXCEPT !.job_usage = factor(a).job_usage]]
      /\ UNCHANGED t_inactive
      /\ counted' = [j \in Jobs |->
           IF AssocOf[j] \in DOMAIN assoc /\ j \in NewJobs(AssocOf[j])
           THEN counted[j] + 1 ELSE counted[j]]
  <2>1. /\ UNCHANGED t_inactive
        /\ counted' = [j \in Jobs |->
             IF AssocOf[j] \in DOMAIN assoc /\ j \in NewJobs(AssocOf[j])
             THEN counted[j] + 1 ELSE counted[j]]
    BY DEF UpdateJobUsage
  <2> QED BY <2>1, UpdatedRows
<1>2. ASSUME NEW a \in DOMAIN assoc
      PROVE  /\ factor(a).bins \in Bins /\ factor(a).job_usage \in Nat
             /\ SumFunction(factor(a).bins) <= all(a)
             /\ factor(a).job_usage <= all(a) \/ factor(a).job_usage = assoc[a].job_usage
  BY FactorCovered DEF Factor, UsageInv
<1> HIDE DEF factor
<1>3. Finished' = Finished
  BY <1>1 DEF Finished
<1>t. /\ counted \in [Jobs -> 0..1] /\ counted' \in [Jobs -> 0..1]
      /\ DOMAIN assoc \subseteq DOMAIN bins
  BY DEF CountInv, CountType
<1>4. ASSUME NEW a \in DOMAIN assoc
      PROVE  /\ Counted(a)' = Counted(a) \cup NewJobs(a) /\ Counted(a) \cap NewJobs(a) = {}
             /\ NewJobs(a) \in SUBSET Jobs /\ Counted(a) \in SUBSET Jobs
  <2>1. \A j \in NewJobs(a) : j \in Jobs /\ AssocOf[j] = a
    BY DEF NewJobs, CountInv, CountType
  <2>2. \A j \in NewJobs(a) : counted'[j] = counted[j] + 1
    BY <1>1, <2>1
  <2>3. \A j \in NewJobs(a) : counted[j] = 0 /\ counted'[j] = 1
    BY <2>1, <2>2, <1>t
  <2>4. \A j \in JobsOf(a) \ NewJobs(a) : counted'[j] = counted[j]
    BY <1>1 DEF JobsOf
  <2> QED BY <2>1, <2>3, <2>4 DEF Counted, JobsOf
<1>5. ASSUME NEW a \in DOMAIN assoc
      PROVE  UsageOf(Counted(a)') = all(a) /\ UsageOf(Ended(a)') \in Nat
             /\ all(a) <= UsageOf(Ended(a)') /\ all(a) \in Nat
  <2>1. UsageOf(Counted(a) \cup NewJobs(a)) = UsageOf(Counted(a)) + UsageOf(NewJobs(a))
    BY <1>4, UsageFacts
  <2>2. UsageOf(Counted(a)') = all(a)
    BY <2>1, <1>4
  <2>3. Counted(a)' \in SUBSET Ended(a)' /\ Ended(a)' \in SUBSET Jobs
    BY DEF CountInv, CountedIsSeen, Counted, Ended, JobsOf
  <2>4. UsageOf(Ended(a)') \in Nat /\ UsageOf(Counted(a)') <= UsageOf(Ended(a)')
        /\ UsageOf(Counted(a)') \in Nat
    BY <2>3, UsageFacts
  <2> QED BY <2>2, <2>4
<1> HIDE DEF all
<1>7. BinsCovered'
  <2> SUFFICES ASSUME NEW a \in DOMAIN bins PROVE SumFunction(bins'[a]) <= UsageOf(Counted(a)')
    BY <1>1 DEF BinsCovered, UsageOf
  <2>1. CASE a \in DOMAIN assoc
    BY <2>1, <1>1, <1>2, <1>5
  <2>2. CASE a \notin DOMAIN assoc
    <3>1. \A j \in JobsOf(a) : counted'[j] = counted[j]
      BY <2>2, <1>1 DEF JobsOf
    <3>2. Counted(a)' = Counted(a)
      BY <3>1 DEF Counted, JobsOf
    <3>3. bins'[a] = bins[a]
      BY <2>2, <1>1
    <3> QED BY <3>2, <3>3 DEF UsageInv, BinsCovered
  <2> QED BY <2>1, <2>2
<1>8. AssocsCovered'
  <2> SUFFICES ASSUME NEW a \in DOMAIN assoc
               PROVE  assoc'[a].job_usage <= UsageOf(Ended(a)')
    BY <1>1 DEF AssocsCovered, UsageOf, Ended
  <2>1. assoc'[a].job_usage = factor(a).job_usage
    BY <1>1 DEF UsageInv, UsageType
  <2>2. assoc[a].job_usage <= UsageOf(Ended(a)')
    BY <1>3 DEF UsageInv, AssocsCovered, Ended
  <2>3. CASE factor(a).job_usage <= all(a)
    BY <2>1, <2>3, <1>2, <1>5
  <2>4. CASE factor(a).job_usage = assoc[a].job_usage
    BY <2>1, <2>2, <2>4
  <2> QED BY <2>3, <2>4, <1>2
<1> QED BY <1>7, <1>8 DEF UsageInv

LEMMA ClearUsageBounded ==
  ASSUME UsageInv, UsageType', NEW b, ClearUsage(b)
  PROVE  UsageInv'
<1>1. /\ UNCHANGED <<t_inactive, config>>
      /\ bins' = [a \in DOMAIN bins |->
           IF BankOf[a] = b THEN [p \in DOMAIN bins[a] |-> 0] ELSE bins[a]]
      /\ assoc' = [a \in DOMAIN assoc |->
           IF BankOf[a] = b THEN [assoc[a] EXCEPT !.job_usage = 0] ELSE assoc[a]]
      /\ counted' = [j \in Jobs |-> IF BankOf[AssocOf[j]] = b THEN 0 ELSE counted[j]]
  BY DEF ClearUsage, Cleared
<1>2. Finished' = Finished
  BY <1>1 DEF Finished
<1>3. ASSUME NEW a \in DOMAIN bins
      PROVE  bins'[a] \in Bins /\ SumFunction(bins'[a]) <= UsageOf(Counted(a)')
  <2>1. bins[a] \in Bins /\ SumFunction(bins[a]) <= UsageOf(Counted(a))
    BY DEF UsageInv, UsageType, BinsCovered
  <2>2. CASE BankOf[a] = b
    <3>1. bins'[a] = [p \in DOMAIN bins[a] |-> 0]
      BY <2>2, <1>1
    <3>2. bins'[a] \in Bins /\ SumFunction(bins'[a]) = 0
      BY <2>1, <3>1, NewBins
    <3>3. UsageOf(Counted(a)') \in Nat
      <4>1. Counted(a)' \in SUBSET Jobs
        BY DEF Counted, JobsOf
      <4> QED BY <4>1, UsageFacts
    <3> QED BY <3>2, <3>3
  <2>3. CASE BankOf[a] # b
    <3>1. bins'[a] = bins[a]
      BY <2>3, <1>1
    <3>2. \A j \in JobsOf(a) : counted'[j] = counted[j]
      BY <2>3, <1>1 DEF JobsOf
    <3>3. Counted(a)' = Counted(a)
      BY <3>2 DEF Counted, JobsOf
    <3> QED BY <2>1, <3>1, <3>3
  <2> QED BY <2>2, <2>3
<1>4. ASSUME NEW a \in DOMAIN assoc
      PROVE  /\ assoc'[a] \in [job_usage : Nat]
             /\ assoc'[a].job_usage <= UsageOf(Ended(a)')
  <2>1. /\ assoc[a] \in [job_usage : Nat]
        /\ assoc[a].job_usage <= UsageOf(Ended(a))
    BY DEF UsageInv, UsageType, AssocsCovered
  <2>2. Ended(a)' = Ended(a) /\ UsageOf(Ended(a)) \in Nat
    <3>1. Ended(a) \in SUBSET Jobs
      BY DEF Ended, JobsOf
    <3> QED BY <1>2, <3>1, UsageFacts DEF Ended
  <2>3. assoc'[a].job_usage = 0 \/ assoc'[a] = assoc[a]
    BY <1>1, <2>1
  <2>4. assoc'[a] \in [job_usage : Nat]
    BY <1>1, <2>1
  <2> QED BY <2>1, <2>2, <2>3, <2>4
<1>5. DOMAIN bins' = DOMAIN bins /\ DOMAIN assoc' = DOMAIN assoc
  BY <1>1
<1>7. BinsCovered'
  BY <1>3, <1>5 DEF BinsCovered, UsageOf
<1>8. AssocsCovered'
  BY <1>4, <1>5 DEF AssocsCovered, UsageOf
<1> QED BY <1>7, <1>8 DEF UsageInv

LEMMA EditConfigUsage ==
  ASSUME UsageInv, UsageType', NEW c \in Configs, EditConfig(c)
  PROVE  UsageInv'
<1>1. /\ UNCHANGED <<t_inactive, assoc>> /\ config' = c
      /\ bins' = [a \in DOMAIN bins |-> Zeros(BinsAfterReconfigure(c))]
  BY DEF EditConfig
<1>3. \A a \in DOMAIN bins : bins'[a] \in Bins /\ SumFunction(bins'[a]) = 0
  BY <1>1, BinsOfAnyNumber, NewBins
<1>4. \A a : UsageOf(Counted(a)') \in Nat
  <2>1. \A a : Counted(a)' \in SUBSET Jobs
    BY DEF Counted, JobsOf
  <2> QED BY <2>1, UsageFacts
<1>6. BinsCovered'
  <2> SUFFICES ASSUME NEW a \in DOMAIN bins PROVE SumFunction(bins'[a]) <= UsageOf(Counted(a)')
    BY <1>1 DEF BinsCovered, UsageOf
  <2> QED BY <1>3, <1>4
<1>7. AssocsCovered'
  BY <1>1 DEF UsageInv, AssocsCovered, Ended, Finished, UsageOf
<1> QED BY <1>6, <1>7 DEF UsageInv

LEMMA AddUserUsage ==
  ASSUME UsageInv, UsageType', NEW a \in Assocs, AddUser(a)
  PROVE  UsageInv'
<1> DEFINE old == IF a \in DOMAIN bins THEN bins[a] ELSE <<>>
           added == [p \in DOMAIN old \cup 0..BinsOfNewUser(config) - 1 |->
                       IF p \in DOMAIN old THEN old[p] ELSE 0]
<1>1. /\ UNCHANGED <<t_inactive, config, counted>>
      /\ assoc' = [c \in DOMAIN assoc \cup {a} |->
           IF c = a THEN [job_usage |-> 0] ELSE assoc[c]]
      /\ bins' = [c \in DOMAIN bins \cup {a} |-> IF c = a THEN added ELSE bins[c]]
  BY DEF AddUser, history
<1>2. BinsOfNewUser(config) \in Nat
  BY BinsOfAnyNumber DEF UsageInv, UsageType
<1>3. old \in Bins \cup {<<>>}
  BY DEF UsageInv, UsageType
<1>4. added \in Bins /\ SumFunction(added) = SumFunction(old)
  <2> HIDE DEF old
  <2> QED BY <1>2, <1>3, MoreBins
<1>5. SumFunction(added) <= UsageOf(Counted(a))
  <2>1. CASE a \in DOMAIN bins
    BY <2>1, <1>4 DEF UsageInv, BinsCovered
  <2>2. CASE a \notin DOMAIN bins
    <3>1. SumFunction(old) = 0
      <4>1. SumFunctionOnSet(<<>>, {}) = 0
        BY SumOfNothing
      <4>2. old = <<>> /\ DOMAIN <<>> = {}
        BY <2>2
      <4> QED BY <4>1, <4>2 DEF SumFunction
    <3>2. UsageOf(Counted(a)) \in Nat
      <4>1. Counted(a) \in SUBSET Jobs
        BY DEF Counted, JobsOf
      <4> QED BY <4>1, UsageFacts
    <3> QED BY <1>4, <3>1, <3>2
  <2> QED BY <2>1, <2>2
<1> HIDE DEF added
<1>7. BinsCovered'
  <2>1. \A c : Counted(c)' = Counted(c)
    BY <1>1 DEF Counted
  <2> QED BY <1>1, <1>5, <2>1 DEF UsageInv, BinsCovered, UsageOf
<1>8. AssocsCovered'
  <2>1. \A c : Ended(c)' = Ended(c)
    BY <1>1 DEF Ended, Finished
  <2>2. UsageOf(Ended(a)) \in Nat
    <3>1. Ended(a) \in SUBSET Jobs
      BY DEF Ended, JobsOf
    <3> QED BY <3>1, UsageFacts
  <2> SUFFICES ASSUME NEW c \in DOMAIN assoc'
               PROVE  assoc'[c].job_usage <= UsageOf(Ended(c))
    BY <2>1 DEF AssocsCovered, UsageOf
  <2> QED BY <1>1, <2>2 DEF UsageInv, AssocsCovered
<1> QED BY <1>7, <1>8 DEF UsageInv

LEMMA InitUsage == Init => UsageInv
<1> SUFFICES ASSUME Init PROVE UsageInv
  OBVIOUS
<1>1. PICK c \in Configs : config = c
                           /\ bins = [a \in Assocs \ UserEdits |-> Zeros(BinsOfNewUser(c))]
  BY DEF Init
<1>3. \A a \in DOMAIN bins : bins[a] \in Bins /\ SumFunction(bins[a]) = 0
  BY <1>1, BinsOfAnyNumber, NewBins
<1>4. assoc = [a \in Assocs \ UserEdits |-> [job_usage |-> 0]]
  BY DEF Init
<1>5. \A a : UsageOf(Counted(a)) \in Nat /\ UsageOf(Ended(a)) \in Nat
  <2>1. \A a : Counted(a) \in SUBSET Jobs /\ Ended(a) \in SUBSET Jobs
    BY DEF Counted, Ended, JobsOf
  <2> QED BY <2>1, UsageFacts
<1> QED BY <1>1, <1>3, <1>4, <1>5 DEF UsageInv, UsageType, BinsCovered, AssocsCovered

LEMMA NextUsage ==
  DecayHalves /\ CountInv /\ CountInv' /\ UsageInv /\ [Next]_vars => UsageInv'
<1> SUFFICES ASSUME DecayHalves, CountInv, CountInv', UsageInv, [Next]_vars PROVE UsageInv'
  OBVIOUS
<1>t. /\ assoc \in [DOMAIN assoc -> [job_usage : Nat]]
      /\ UsageType'
  BY NextUsageType DEF UsageInv, UsageType
<1>1. ASSUME UNCHANGED <<bins, counted, assoc>>, Finished \subseteq Finished'
      PROVE  UsageInv'
  BY <1>1, <1>t, SameUsage
<1>2. CASE Records
  <2>1. UNCHANGED <<bins, counted, assoc>>
    BY <1>2 DEF Records, Tick, JobsEnd, FetchJobRecords, ScrubOldJobs, table, history
  <2>2. Finished \subseteq Finished'
    BY <1>2 DEF Records, Tick, JobsEnd, FetchJobRecords, ScrubOldJobs, Finished
  <2> QED BY <2>1, <2>2, <1>1
<1>3. ASSUME NEW u \in Updaters, UpdateBegin(u) PROVE UsageInv'
  BY <1>1, <1>3 DEF UpdateBegin, table, history, Finished
<1>4. ASSUME NEW u \in Updaters, Update(u) PROVE UsageInv'
  BY <1>4, <1>t, UpdateUsage DEF Update
<1>5. CASE Clears
  <2>1. ASSUME NEW b, ClearUsage(b) PROVE UsageInv'
    BY <2>1, <1>t, ClearUsageBounded
  <2>2. CASE ReadParentSum \/ WriteParentSum \/ ClearUsageEnds \/ ClearUsageFails
    BY <2>2, <1>1 DEF ReadParentSum, WriteParentSum, ClearUsageEnds, ClearUsageFails,
                      table, history, Finished
  <2> QED BY <1>5, <2>1, <2>2 DEF Clears
<1>6. CASE Reconfigures
  BY <1>6, <1>t, EditConfigUsage, UsageAssumption DEF Reconfigures
<1>7. ASSUME NEW a \in UserEdits, AddUser(a) PROVE UsageInv'
  BY <1>7, <1>t, AddUserUsage, UsageAssumption
<1>9. ASSUME NEW a \in UserEdits, DeleteUser(a) PROVE UsageInv'
  <2>1. /\ UNCHANGED <<t_inactive, bins, counted>>
        /\ assoc' = [c \in DOMAIN assoc \ {a} |-> assoc[c]]
    BY <1>9 DEF DeleteUser, Restrict, history
  <2> QED BY <1>t, <2>1, SameUsage DEF Finished
<1>10. CASE UNCHANGED vars
  BY <1>1, <1>10 DEF vars, table, history, Finished
<1> QED BY <1>2, <1>3, <1>4, <1>5, <1>6, <1>7, <1>9, <1>10 DEF Next, Updates, Users

\* The bins and the job usage of an association are never worth more than its
\* finished jobs, however often bins rotate, are cleared, made anew or found
\* again by a re-added association: as long as a period takes away half at
\* least, because a rotation adds the decayed past to bin 0 once more.
THEOREM UsageStaysBounded == DecayHalves /\ Spec => []UsageBounded
<1> SUFFICES ASSUME DecayHalves PROVE Spec => []UsageBounded
  OBVIOUS
<1>1. CountInv /\ UsageInv => UsageBounded
  BY InvBoundsUsage
<1>2. Init => UsageInv
  BY InitUsage
<1>3. CountInv /\ CountInv' /\ UsageInv /\ [Next]_vars => UsageInv'
  BY NextUsage
<1> QED BY <1>1, <1>2, <1>3, CountInvariance, PTL DEF Spec
-----------------------------------------------------------------------------
(* The usage of the banks *)

\* A height that grows towards the root.
Heights == [Banks -> Nat]
Rises(height) == \A b \in Banks : Parent[b] \in Banks => height[b] < height[Parent[b]]

LEMMA TreeHasHeights == BanksAreATree => \E height \in Heights : Rises(height)
<1> SUFFICES ASSUME BanksAreATree PROVE \E height \in Heights : Rises(height)
  OBVIOUS
<1>1. PICK height \in [Banks -> 0..Cardinality(Banks)] : Rises(height)
  BY DEF BanksAreATree, Rises
<1>2. height \in Heights
  <2>1. Cardinality(Banks) \in Nat
    BY UsageAssumption, FS_CardinalityType
  <2> QED BY <2>1 DEF Heights
<1> QED BY <1>1, <1>2

LEMMA SubBanksAreLower ==
  ASSUME NEW height \in Heights, Rises(height), NEW b \in Banks
  PROVE  /\ SubBanks(b) \subseteq Banks /\ IsFiniteSet(SubBanks(b))
         /\ \A c \in SubBanks(b) : height[c] \in Nat /\ height[b] \in Nat /\ height[c] < height[b]
<1>1. SubBanks(b) \subseteq Banks
  BY DEF SubBanks
<1> QED BY <1>1, UsageAssumption, FS_Subset DEF SubBanks, Rises, Heights

\* Induction from the leaves up.
LEMMA BankInduction ==
  ASSUME BanksAreATree, NEW G, \A b \in Banks : SubBanks(b) \subseteq G => b \in G
  PROVE  Banks \subseteq G
<1>1. PICK height \in Heights : Rises(height)
  BY TreeHasHeights
<1> DEFINE N == {n \in Nat : \E b \in Banks \ G : height[b] = n}
<1> SUFFICES ASSUME NEW b \in Banks, b \notin G PROVE FALSE
  OBVIOUS
<1>2. N # {} /\ N \subseteq Nat
  BY DEF Heights
<1>3. PICK n \in N : \A m \in N : n <= m
  <2> HIDE DEF N
  <2> QED BY <1>2, Least
<1>4. PICK c \in Banks \ G : height[c] = n
  BY <1>3
<1>5. PICK d \in SubBanks(c) : d \notin G
  BY <1>4
<1>6. d \in Banks /\ height[d] \in Nat /\ height[d] < n
  BY <1>1, <1>4, SubBanksAreLower
<1>7. height[d] \in N
  BY <1>5, <1>6
<1> QED BY <1>3, <1>6, <1>7

LEMMA ParentIsAnother ==
  ASSUME BanksAreATree, NEW b \in Banks, Parent[b] \in Banks
  PROVE  Parent[b] # b
<1>1. PICK height \in Heights : Rises(height)
  BY TreeHasHeights
<1>2. height[b] \in Nat /\ height[b] < height[Parent[b]]
  BY <1>1 DEF Heights, Rises
<1> QED BY <1>2

\* The recursion of CalcParentBankUsage, and the fold over the tree that it is.
SummedUp(usage, total, b) ==
  IF b \in Leaves THEN SumFunctionOnSet(usage, AssocsIn(b))
  ELSE SumFunctionOnSet(total, SubBanks(b))
IsSummedUp(usage, total) == total = [b \in Banks |-> SummedUp(usage, total, b)]

LEMMA SumsExist ==
  ASSUME BanksAreATree, NEW usage
  PROVE  \E total : IsSummedUp(usage, total)
<1>1. PICK height \in Heights : Rises(height)
  BY TreeHasHeights
<1> DEFINE Low(n) == {b \in Banks : height[b] < n}
           G == {n \in Nat : \E total : total = [b \in Low(n) |-> SummedUp(usage, total, b)]}
<1>2. 0 \in G
  <2> DEFINE none == [b \in Low(0) |-> 0]
  <2>1. Low(0) = {}
    BY DEF Heights
  <2>2. none = [b \in Low(0) |-> SummedUp(usage, none, b)]
    BY <2>1
  <2> HIDE DEF none
  <2> QED BY <2>2
<1>3. ASSUME NEW n \in Nat, n \in G PROVE n + 1 \in G
  <2>1. PICK g : g = [b \in Low(n) |-> SummedUp(usage, g, b)]
    BY <1>3
  <2> DEFINE h == [b \in Low(n + 1) |-> SummedUp(usage, g, b)]
  <2>2. ASSUME NEW b \in Low(n + 1)
        PROVE  SubBanks(b) \subseteq Low(n) /\ IsFiniteSet(SubBanks(b))
    BY <1>1, SubBanksAreLower
  <2>3. Low(n) \subseteq Low(n + 1)
    BY DEF Heights
  <2> HIDE DEF Low
  <2>4. \A b \in Low(n) : h[b] = g[b]
    BY <2>1, <2>3
  <2>5. ASSUME NEW b \in Low(n + 1) PROVE h[b] = SummedUp(usage, h, b)
    <3>1. SumFunctionOnSet(h, SubBanks(b)) = SumFunctionOnSet(g, SubBanks(b))
      <4> HIDE DEF h
      <4> QED BY <2>2, <2>4, SumAgrees
    <3>2. SummedUp(usage, h, b) = SummedUp(usage, g, b)
      BY <3>1 DEF SummedUp
    <3> QED BY <3>2
  <2>6. h = [b \in Low(n + 1) |-> SummedUp(usage, h, b)]
    <3>1. h = [b \in Low(n + 1) |-> h[b]]
      OBVIOUS
    <3> HIDE DEF h
    <3> QED BY <2>5, <3>1
  <2> HIDE DEF h
  <2> QED BY <2>6
<1>4. Nat \subseteq G
  <2> HIDE DEF G
  <2> QED BY <1>2, <1>3, NatSetInduction
<1>5. \E n \in Nat : \A b \in Banks : height[b] < n
  <2> DEFINE F == {S \in SUBSET Banks : \E n \in Nat : \A b \in S : height[b] < n}
  <2>1. ASSUME NEW S \in SUBSET Banks, \A b \in S : S \ {b} \in F PROVE S \in F
    <3>1. CASE S = {}
      BY <3>1
    <3>2. CASE S # {}
      <4>1. PICK b \in S : TRUE
        BY <3>2
      <4>2. PICK n \in Nat : \A c \in S \ {b} : height[c] < n
        BY <2>1
      <4>3. height[b] \in Nat /\ \A c \in S : height[c] \in Nat
        BY DEF Heights
      <4>4. n + height[b] + 1 \in Nat /\ \A c \in S : height[c] < n + height[b] + 1
        BY <4>2, <4>3
      <4> QED BY <4>4
    <3> QED BY <3>1, <3>2
  <2>2. SUBSET Banks \subseteq F
    <3> HIDE DEF F
    <3> QED BY <2>1, UsageAssumption, SubsetInduction
  <2> QED BY <2>2
<1>6. PICK n \in Nat : Low(n) = Banks
  BY <1>5
<1>7. n \in G
  BY <1>4, <1>6
<1> QED BY <1>6, <1>7 DEF IsSummedUp

LEMMA SumsUnfold ==
  ASSUME BanksAreATree, NEW usage
  PROVE  LET sums == CalcParentBankUsage(usage)
         IN  /\ sums = [b \in Banks |-> sums[b]]
             /\ \A b \in Banks : sums[b] = SummedUp(usage, sums, b)
<1> DEFINE total == CHOOSE total : IsSummedUp(usage, total)
<1>1. IsSummedUp(usage, total)
  BY SumsExist
<1>2. CalcParentBankUsage(usage) = [b \in Banks |-> total[b]]
  BY DEF CalcParentBankUsage, IsSummedUp, SummedUp, SumFunctionOnSet, FoldFunctionOnSet, MapThenSumSet
<1> HIDE DEF total
<1>3. CalcParentBankUsage(usage) = total
  BY <1>1, <1>2 DEF IsSummedUp
<1> QED BY <1>1, <1>3 DEF IsSummedUp

(***************************************************************************)
(* The sums are inductive with the types they need (the usage of a bank is *)
(* a number, since it is summed up from numbers), and with what a clear    *)
(* holds of them between two of its transactions: the bank it is at has    *)
(* sub-banks, and the sum it has read is that of the next one unless an    *)
(* update has come in between.                                             *)
(***************************************************************************)
BankType == /\ bank = [b \in Banks |-> bank[b]]
            /\ \A b \in Banks : /\ "job_usage" \in DOMAIN bank[b]
                               /\ bank[b].job_usage \in Nat
ClearType ==
  ~Idle => /\ clearing.at \in Banks \ Leaves
           /\ clearing.sum # None =>
                clearing.sum \in Nat /\ Parent[clearing.at] \in Banks
SumIsPending ==
  ~Idle /\ clearing.sum # None /\ ~clearing.outrun =>
    clearing.sum = SumOfSubBanks(BankUsages, Parent[clearing.at])

BankInv == BankType /\ ClearType /\ SumIsPending /\ BankUsageSums

LEMMA SumsAreNumbers ==
  ASSUME BanksAreATree, NEW usage,
         \A b \in Leaves : SumFunctionOnSet(usage, AssocsIn(b)) \in Nat
  PROVE  \A b \in Banks : CalcParentBankUsage(usage)[b] \in Nat
<1> DEFINE sums == CalcParentBankUsage(usage)
           G == {b \in Banks : sums[b] \in Nat}
<1>1. ASSUME NEW b \in Banks, SubBanks(b) \subseteq G PROVE b \in G
  <2>1. sums[b] = SummedUp(usage, sums, b)
    BY SumsUnfold
  <2>2. IsFiniteSet(SubBanks(b)) /\ \A c \in SubBanks(b) : sums[c] \in Nat
    BY <1>1, UsageAssumption, FS_Subset
  <2> HIDE DEF sums
  <2>3. SumFunctionOnSet(sums, SubBanks(b)) \in Nat
    BY <2>2, SumType
  <2> QED BY <2>1, <2>3 DEF SummedUp
<1>2. Banks \subseteq G
  <2> HIDE DEF G
  <2> QED BY <1>1, BankInduction
<1> QED BY <1>2

LEMMA SubBanksFacts ==
  ASSUME NEW b
  PROVE  /\ SubBanks(b) \subseteq Banks /\ IsFiniteSet(SubBanks(b))
         /\ BankType => SumOfSubBanks(BankUsages, b) \in Nat
<1>1. SubBanks(b) \subseteq Banks /\ IsFiniteSet(SubBanks(b))
  BY UsageAssumption, FS_Subset DEF SubBanks
<1>2. BankType => \A c \in SubBanks(b) : BankUsages[c] \in Nat
  BY <1>1 DEF BankType, BankUsages
<1> QED BY <1>1, <1>2, SumType DEF SumOfSubBanks

LEMMA AssocsInFacts ==
  ASSUME CountInv, UsageType, NEW b
  PROVE  /\ IsFiniteSet(AssocsIn(b)) /\ AssocsIn(b) \subseteq DOMAIN assoc
         /\ \A a \in AssocsIn(b) : AssocUsages[a] = assoc[a].job_usage /\ AssocUsages[a] \in Nat
         /\ SumFunctionOnSet(AssocUsages, AssocsIn(b)) \in Nat
<1>1. AssocsIn(b) \subseteq DOMAIN assoc /\ DOMAIN assoc \subseteq Assocs
  BY DEF AssocsIn, CountInv, CountType
<1>2. IsFiniteSet(AssocsIn(b))
  BY <1>1, UsageAssumption, FS_Subset
<1>3. \A a \in AssocsIn(b) : AssocUsages[a] = assoc[a].job_usage /\ AssocUsages[a] \in Nat
  BY <1>1 DEF AssocUsages, UsageType
<1> QED BY <1>1, <1>2, <1>3, SumType

\* The rows that an update of all banks writes, or of those above one.
LEMMA RowsWritten ==
  ASSUME NEW usage, NEW ignored, bank' = BankRows(usage, ignored),
         \A b \in Banks : usage[b] \in Nat
  PROVE  BankType' /\ (\A b \in Banks : bank'[b].job_usage = usage[b])
                   /\ \A b \in Banks : BankUsages'[b] = usage[b]
  BY DEF BankRows, BankType, BankUsages

\* The sum over the sub-banks of a bank that keep theirs.
LEMMA SumsStay ==
  ASSUME NEW b, NEW usage, NEW other, \A c \in SubBanks(b) : usage[c] = other[c]
  PROVE  SumOfSubBanks(usage, b) = SumOfSubBanks(other, b)
  BY SubBanksFacts, SumAgrees DEF SumOfSubBanks

LEMMA UpdateBanks ==
  ASSUME BanksAreATree, CountInv, CountInv', UsageType, UsageType', BankInv,
         NEW u, NEW late, NEW ticks, UpdateJobUsage(u, late, ticks)
  PROVE  BankInv'
<1> DEFINE usage == [a \in DOMAIN assoc |-> Factor(a, u, late).job_usage]
           sums == CalcParentBankUsage(usage)
<1>1. bank' = BankRows(sums, Ignored)
  <2>1. PICK factor : /\ factor = [a \in DOMAIN assoc |-> Factor(a, u, late)]
                      /\ bank' = BankRows(CalcParentBankUsage(
                                            [a \in DOMAIN assoc |-> factor[a].job_usage]), Ignored)
    BY DEF UpdateJobUsage, Factor
  <2>2. [a \in DOMAIN assoc |-> factor[a].job_usage] = usage
    BY <2>1
  <2> HIDE DEF usage
  <2> QED BY <2>1, <2>2
<1>2. \A a \in DOMAIN assoc : usage[a] \in Nat
  BY FactorCovered DEF Factor
<1>3. DOMAIN assoc' = DOMAIN assoc /\ \A a \in DOMAIN assoc : assoc'[a].job_usage = usage[a]
  BY UpdatedRows DEF UsageType
<1> HIDE DEF usage
<1>4. \A b : SumFunctionOnSet(usage, AssocsIn(b)) \in Nat
  <2>1. \A b : IsFiniteSet(AssocsIn(b)) /\ \A a \in AssocsIn(b) : usage[a] \in Nat
    BY <1>2, AssocsInFacts
  <2> QED BY <2>1, SumType
<1>5. \A b \in Banks : sums[b] \in Nat /\ sums[b] = SummedUp(usage, sums, b)
  BY <1>4, SumsAreNumbers, SumsUnfold
<1> HIDE DEF sums
<1>6. BankType' /\ (\A b \in Banks : bank'[b].job_usage = sums[b])
                /\ \A b \in Banks : BankUsages'[b] = sums[b]
  BY <1>1, <1>5, RowsWritten
<1>7. ASSUME NEW b \in Banks \ Leaves
      PROVE  bank'[b].job_usage = SumOfSubBanks(BankUsages', b)
  <2>1. SumOfSubBanks(BankUsages', b) = SumOfSubBanks(sums, b)
    BY <1>6, SubBanksFacts, SumsStay
  <2> QED BY <1>5, <1>6, <2>1 DEF SummedUp, SumOfSubBanks
<1>8. ASSUME NEW b \in Leaves
      PROVE  bank'[b].job_usage >= SumFunctionOnSet(AssocUsages', AssocsIn(b)')
  <2>1. b \in Banks
    BY DEF Leaves
  <2>2. AssocsIn(b)' = AssocsIn(b) /\ \A a \in AssocsIn(b) : AssocUsages'[a] = usage[a]
    BY <1>3 DEF AssocsIn, AssocUsages
  <2>3. SumFunctionOnSet(AssocUsages', AssocsIn(b)) = SumFunctionOnSet(usage, AssocsIn(b))
    BY <2>2, AssocsInFacts, SumAgrees
  <2> QED BY <2>1, <2>2, <2>3, <1>5, <1>6 DEF SummedUp
<1>9. /\ clearing' = [clearing EXCEPT !.outrun = clearing.sum # None]
      /\ DOMAIN clearing = {"bank", "at", "sum", "outrun"}
  BY DEF UpdateJobUsage, CountInv, CountType
<1>10. ClearType' /\ SumIsPending'
  BY <1>9 DEF BankInv, ClearType, SumIsPending, Idle
<1> QED BY <1>6, <1>7, <1>8, <1>10 DEF BankInv, BankUsageSums

\* What a step makes of the sums when it writes one bank that has sub-banks, and
\* goes on to the one above it.
LEMMA OneBankWritten ==
  ASSUME BanksAreATree, BankType, BankType', BankUsageSums,
         NEW p \in Banks \ Leaves, NEW b,
         b = NoBank \/ (b \in Leaves /\ Parent[b] = p),
         \A c \in Banks \ {p, b} : BankUsages'[c] = BankUsages[c],
         ~Idle', clearing'.at = p,
         ~Idle => Parent[clearing.at] = p,
         stale \ {p} \subseteq stale',
         \/ p \in stale'
         \/ BankUsages'[p] = SumOfSubBanks(BankUsages', p),
         NEW c \in Banks \ Leaves
  PROVE  Behind(c)' \/ bank'[c].job_usage = SumOfSubBanks(BankUsages', c)
<1>1. bank'[c].job_usage = BankUsages'[c] /\ bank[c].job_usage = BankUsages[c]
  BY DEF BankUsages
<1>2. CASE c = p
  BY <1>1, <1>2 DEF Behind
<1>3. CASE c = Parent[p]
  BY <1>3 DEF Behind
<1>4. CASE c # p /\ c # Parent[p]
  <2>1. c # b
    BY UsageAssumption
  <2>2. \A d \in SubBanks(c) : d \in Banks \ {p, b}
    BY <1>4, UsageAssumption DEF SubBanks
  <2>3. SumOfSubBanks(BankUsages', c) = SumOfSubBanks(BankUsages, c)
    BY <2>2, SumsStay
  <2>4. Behind(c) \/ bank[c].job_usage = SumOfSubBanks(BankUsages, c)
    BY DEF BankUsageSums
  <2>5. Behind(c) => c \in stale'
    BY <1>4 DEF Behind
  <2> QED BY <1>1, <1>4, <2>1, <2>3, <2>4, <2>5 DEF Behind
<1> QED BY <1>2, <1>3, <1>4

\* The first transaction of a clear: the bank is a leaf, so nothing else is a sum
\* of it but its parent, which is added up anew.
LEMMA ClearBanksSums ==
  ASSUME BanksAreATree, CountInv, CountInv', UsageType, UsageType', BankInv,
         NEW b \in Leaves, b \in ClearBanks, ClearUsage(b)
  PROVE  BankInv'
<1> DEFINE usage == [BankUsages EXCEPT ![b] = 0]
           p == Parent[b]
           new == [usage EXCEPT ![p] = SumOfSubBanks(usage, p)]
<1>0. b \in Banks /\ SubBanks(b) = {} /\ p \in Banks \ Leaves /\ p # b
  <2>1. b \in Banks /\ SubBanks(b) = {} /\ p \in Banks
    BY UsageAssumption DEF Leaves
  <2> QED BY <2>1, ParentIsAnother DEF Leaves, SubBanks
<1>1. /\ bank' = BankRows(new, Ignored)
      /\ assoc' = [a \in DOMAIN assoc |->
           IF BankOf[a] = b THEN [assoc[a] EXCEPT !.job_usage = 0] ELSE assoc[a]]
      /\ clearing' = [bank |-> b, at |-> p, sum |-> None, outrun |-> FALSE]
      /\ stale' = stale \ {p} /\ Idle
  BY DEF ClearUsage, Cleared
<1>2. \A c \in Banks : /\ usage[c] = IF c = b THEN 0 ELSE BankUsages[c]
                       /\ usage[c] \in Nat /\ BankUsages[c] = bank[c].job_usage
  BY DEF BankInv, BankType, BankUsages
<1>u. DOMAIN usage = Banks
  BY DEF BankUsages
<1> HIDE DEF usage
<1>3. SumOfSubBanks(usage, p) \in Nat
  BY <1>2, SubBanksFacts, SumType DEF SumOfSubBanks
<1>4. \A c \in Banks : /\ new[c] = IF c = p THEN SumOfSubBanks(usage, p) ELSE usage[c]
                       /\ new[c] \in Nat
  BY <1>2, <1>3, <1>u
<1> HIDE DEF new
<1>5. BankType' /\ (\A c \in Banks : bank'[c].job_usage = new[c])
                /\ \A c \in Banks : BankUsages'[c] = new[c]
  BY <1>1, <1>4, RowsWritten
<1>6. ~Idle' /\ clearing'.at = p /\ clearing'.sum = None
  BY <1>0, <1>1, UsageAssumption DEF Idle
<1>7. BankUsages'[p] = SumOfSubBanks(BankUsages', p)
  <2>1. \A c \in SubBanks(p) : c \in Banks /\ c # p
    BY <1>0, ParentIsAnother DEF SubBanks
  <2>2. SumOfSubBanks(BankUsages', p) = SumOfSubBanks(usage, p)
    BY <2>1, <1>4, <1>5, SumsStay
  <2> QED BY <2>2, <1>0, <1>4, <1>5
<1>8. ASSUME NEW c \in Banks \ Leaves
      PROVE  Behind(c)' \/ bank'[c].job_usage = SumOfSubBanks(BankUsages', c)
  <2>1. \A d \in Banks \ {p, b} : BankUsages'[d] = BankUsages[d]
    BY <1>2, <1>4, <1>5
  <2> HIDE DEF p
  <2> QED BY <2>1, <1>0, <1>1, <1>5, <1>6, <1>7, OneBankWritten DEF BankInv, p
<1>9. ASSUME NEW c \in Leaves
      PROVE  bank'[c].job_usage >= SumFunctionOnSet(AssocUsages', AssocsIn(c)')
  <2>0. c \in Banks /\ c # p
    BY <1>0 DEF Leaves
  <2>2. bank'[c].job_usage = IF c = b THEN 0 ELSE bank[c].job_usage
    BY <2>0, <1>2, <1>4, <1>5
  <2>3. AssocsIn(c)' = AssocsIn(c) /\ IsFiniteSet(AssocsIn(c))
    BY <1>1, AssocsInFacts DEF AssocsIn
  <2>4. \A a \in AssocsIn(c) : AssocUsages'[a] = IF c = b THEN 0 ELSE AssocUsages[a]
    BY <1>1 DEF AssocUsages, AssocsIn, UsageType
  <2>5. CASE c = b
    <3>1. SumFunctionOnSet(AssocUsages', AssocsIn(c)) = 0
      BY <2>3, <2>4, <2>5, SumOfZeros
    <3> QED BY <2>2, <2>3, <2>5, <3>1
  <2>6. CASE c # b
    <3>1. SumFunctionOnSet(AssocUsages', AssocsIn(c)) = SumFunctionOnSet(AssocUsages, AssocsIn(c))
      BY <2>3, <2>4, <2>6, SumAgrees
    <3>2. bank[c].job_usage >= SumFunctionOnSet(AssocUsages, AssocsIn(c))
      BY <2>0 DEF BankInv, BankUsageSums
    <3> QED BY <2>2, <2>3, <2>6, <3>1, <3>2
  <2> QED BY <2>5, <2>6
<1>10. ClearType' /\ SumIsPending'
  BY <1>0, <1>6 DEF ClearType, SumIsPending
<1> QED BY <1>5, <1>8, <1>9, <1>10 DEF BankInv, BankUsageSums

\* The next bank is written: with the sum of its sub-banks, unless an update has
\* come between the read and the write.
LEMMA WriteBanksSums ==
  ASSUME BanksAreATree, CountInv, BankInv, WriteParentSum
  PROVE  BankInv'
<1> DEFINE p == Parent[clearing.at]
<1>0. /\ clearing.at \in Banks /\ p \in Banks \ Leaves
      /\ clearing.sum \in Nat /\ ~Idle
  BY DEF WriteParentSum, BankInv, ClearType, Leaves, SubBanks
<1>1. /\ bank' = [bank EXCEPT ![p].job_usage = clearing.sum]
      /\ clearing' = [clearing EXCEPT !.at = p, !.sum = None, !.outrun = FALSE]
      /\ stale' = IF clearing.outrun THEN stale \cup {p} ELSE stale \ {p}
      /\ UNCHANGED assoc
  BY DEF WriteParentSum
<1>2. DOMAIN clearing = {"bank", "at", "sum", "outrun"}
  BY DEF CountInv, CountType
<1>3. ~Idle' /\ clearing'.at = p /\ clearing'.sum = None
  BY <1>0, <1>1, <1>2 DEF Idle
<1> HIDE DEF p
<1>4. BankType' /\ \A c \in Banks : /\ bank[c].job_usage = BankUsages[c]
                                    /\ bank'[c].job_usage = BankUsages'[c]
                                    /\ BankUsages'[c] = IF c = p THEN clearing.sum ELSE BankUsages[c]
  <2>1. bank = [c \in Banks |-> bank[c]]
    BY DEF BankInv, BankType
  <2>2. \A c \in Banks : /\ "job_usage" \in DOMAIN bank[c]
                         /\ bank[c].job_usage \in Nat
    BY DEF BankInv, BankType
  <2>3. bank' = [c \in Banks |-> bank'[c]]
    BY <2>1, <1>1
  <2>4. \A c \in Banks \ {p} : bank'[c] = bank[c]
    BY <2>1, <1>1
  <2>5. bank'[p] = [bank[p] EXCEPT !.job_usage = clearing.sum]
    BY <2>1, <1>0, <1>1
  <2> QED BY <2>2, <2>3, <2>4, <2>5, <1>0 DEF BankType, BankUsages
<1>5. p \in stale' \/ BankUsages'[p] = SumOfSubBanks(BankUsages', p)
  <2>1. CASE clearing.outrun
    BY <2>1, <1>1
  <2>2. CASE ~clearing.outrun
    <3>1. clearing.sum = SumOfSubBanks(BankUsages, p)
      BY <2>2 DEF BankInv, SumIsPending, WriteParentSum, p
    <3>2. \A c \in SubBanks(p) : c \in Banks /\ c # p
      BY <1>0, ParentIsAnother DEF SubBanks
    <3>3. SumOfSubBanks(BankUsages', p) = SumOfSubBanks(BankUsages, p)
      BY <3>2, <1>4, SumsStay
    <3> QED BY <3>1, <3>3, <1>0, <1>4
  <2> QED BY <2>1, <2>2
<1>6. ASSUME NEW c \in Banks \ Leaves
      PROVE  Behind(c)' \/ bank'[c].job_usage = SumOfSubBanks(BankUsages', c)
  <2>1. stale \ {p} \subseteq stale'
    BY <1>1
  <2>2. \A d \in Banks \ {p, NoBank} : BankUsages'[d] = BankUsages[d]
    BY <1>4
  <2> QED BY <2>1, <2>2, <1>0, <1>3, <1>4, <1>5, OneBankWritten DEF BankInv, p
<1>7. ASSUME NEW c \in Leaves
      PROVE  bank'[c].job_usage >= SumFunctionOnSet(AssocUsages', AssocsIn(c)')
  <2>1. c \in Banks /\ c # p
    BY <1>0 DEF Leaves
  <2>2. bank'[c].job_usage = bank[c].job_usage
    BY <2>1, <1>4
  <2> QED BY <2>1, <2>2, <1>1 DEF BankInv, BankUsageSums, AssocUsages, AssocsIn
<1>8. ClearType' /\ SumIsPending'
  BY <1>0, <1>3 DEF ClearType, SumIsPending
<1> QED BY <1>4, <1>6, <1>7, <1>8 DEF BankInv, BankUsageSums

\* The other steps of a clear leave the usage of the banks as it is.
LEMMA ReadBanksSums ==
  ASSUME CountInv, BankInv, ReadParentSum
  PROVE  BankInv'
<1>1. /\ UNCHANGED <<bank, assoc, stale>>
      /\ clearing' = [clearing EXCEPT !.sum = SumOfSubBanks(BankUsages, Parent[clearing.at])]
      /\ ~Idle /\ Parent[clearing.at] # NoBank
  BY DEF ReadParentSum, table, history, RootReached
<1>2. DOMAIN clearing = {"bank", "at", "sum", "outrun"}
  BY DEF CountInv, CountType
<1>3. /\ clearing'.at = clearing.at /\ ~Idle'
      /\ clearing'.sum = SumOfSubBanks(BankUsages, Parent[clearing.at])
  BY <1>1, <1>2 DEF Idle
<1>4. BankType' /\ BankUsages' = BankUsages /\ AssocUsages' = AssocUsages
                /\ \A c : AssocsIn(c)' = AssocsIn(c) /\ Behind(c)' = Behind(c)
  BY <1>1, <1>3 DEF BankInv, BankType, BankUsages, AssocUsages, AssocsIn, Behind
<1>5. SumOfSubBanks(BankUsages, Parent[clearing.at]) \in Nat
  BY SubBanksFacts DEF BankInv
<1>6. ClearType' /\ SumIsPending'
  BY <1>1, <1>3, <1>4, <1>5, UsageAssumption DEF BankInv, ClearType, SumIsPending
<1>7. BankUsageSums'
  BY <1>1, <1>4 DEF BankInv, BankUsageSums
<1> QED BY <1>4, <1>6, <1>7 DEF BankInv

LEMMA EndBanksSums ==
  ASSUME CountInv, BankInv, ClearUsageEnds \/ ClearUsageFails
  PROVE  BankInv'
<1>1. /\ UNCHANGED assoc /\ clearing' = Nothing /\ Idle' /\ ~Idle
      /\ \A c \in Banks : Behind(c) => c \in stale'
  <2>1. CASE ClearUsageEnds
    BY <2>1, UsageAssumption
       DEF ClearUsageEnds, history, Nothing, Idle, Behind, RootReached
  <2>2. CASE ClearUsageFails
    BY <2>2 DEF ClearUsageFails, table, Nothing, Idle, Behind
  <2> QED BY <2>1, <2>2
<1>2. BankType' /\ \A c \in Banks : bank'[c].job_usage = bank[c].job_usage
  <2>1. CASE ClearUsageEnds
    <3>1. PICK t : bank' = [bank EXCEPT ![clearing.bank].ignore_older_than = t]
      BY <2>1 DEF ClearUsageEnds
    <3>2. bank = [c \in Banks |-> bank[c]] /\ clearing.bank \in Banks
      BY <1>1, UsageAssumption DEF BankInv, BankType, CountInv, CountType, Idle
    <3>3. /\ \A c \in Banks \ {clearing.bank} : bank'[c] = bank[c]
          /\ bank'[clearing.bank] = [bank[clearing.bank] EXCEPT !.ignore_older_than = t]
          /\ bank' = [c \in Banks |-> bank'[c]]
      BY <3>1, <3>2
    <3> QED BY <3>2, <3>3 DEF BankInv, BankType
  <2>2. CASE ClearUsageFails
    BY <2>2 DEF ClearUsageFails, table, BankInv, BankType
  <2> QED BY <2>1, <2>2
<1>3. BankUsages' = BankUsages /\ AssocUsages' = AssocUsages /\ \A c : AssocsIn(c)' = AssocsIn(c)
  BY <1>1, <1>2 DEF BankUsages, AssocUsages, AssocsIn
<1>4. BankUsageSums'
  <2>1. \A c \in Leaves : c \in Banks
    BY DEF Leaves
  <2>2. \A c \in Banks : c \in stale' => Behind(c)'
    BY DEF Behind
  <2> QED BY <1>1, <1>2, <1>3, <2>1, <2>2 DEF BankInv, BankUsageSums
<1>5. ClearType' /\ SumIsPending'
  BY <1>1 DEF ClearType, SumIsPending
<1> QED BY <1>2, <1>4, <1>5 DEF BankInv

\* A step that leaves the banks alone and adds nothing to what their
\* associations have.
LEMMA SameBanks ==
  ASSUME CountInv, CountInv', UsageType, UsageType', BankInv, UNCHANGED <<bank, clearing, stale>>,
         \A a \in DOMAIN assoc' : \/ assoc'[a].job_usage = 0
                                  \/ a \in DOMAIN assoc /\ assoc'[a].job_usage = assoc[a].job_usage
  PROVE  BankInv'
<1>1. /\ BankType' /\ BankUsages' = BankUsages /\ ClearType' /\ SumIsPending'
      /\ \A b : Behind(b)' = Behind(b)
  BY DEF BankInv, BankType, BankUsages, ClearType, SumIsPending, Behind, Idle
<1>2. ASSUME NEW b \in Leaves
      PROVE  bank'[b].job_usage >= SumFunctionOnSet(AssocUsages', AssocsIn(b)')
  <2> DEFINE new == AssocsIn(b)'
             kept == new \cap AssocsIn(b)
             gone == new \ AssocsIn(b)
             have == AssocUsages'
             had == AssocUsages
  <2>0. b \in Banks
    BY DEF Leaves
  <2>1. IsFiniteSet(AssocsIn(b)) /\ \A a \in AssocsIn(b) : had[a] \in Nat
    BY AssocsInFacts
  <2>2. new \subseteq DOMAIN assoc' /\ DOMAIN assoc' \subseteq Assocs
    BY DEF AssocsIn, CountInv, CountType
  <2>3. IsFiniteSet(new) /\ IsFiniteSet(kept) /\ IsFiniteSet(gone)
    BY <2>2, UsageAssumption, FS_Subset
  <2>4. \A a \in new : have[a] = assoc'[a].job_usage /\ have[a] \in Nat
    BY <2>2 DEF AssocUsages, UsageType
  <2>5. \A a \in kept : have[a] <= had[a] /\ had[a] \in Nat
    <3> SUFFICES ASSUME NEW a \in kept PROVE have[a] <= had[a] /\ had[a] \in Nat
      OBVIOUS
    <3>1. had[a] \in Nat /\ had[a] = assoc[a].job_usage
      BY AssocsInFacts
    <3>2. have[a] = 0 \/ have[a] = assoc[a].job_usage
      BY <2>2, <2>4
    <3> QED BY <3>1, <3>2
  <2>6. \A a \in gone : have[a] = 0
    BY <2>2, <2>4 DEF AssocsIn
  <2>7. new = kept \cup gone /\ kept \cap gone = {} /\ kept \in SUBSET AssocsIn(b)
    OBVIOUS
  <2> HIDE DEF new, kept, gone, have, had
  <2>8. SumFunctionOnSet(have, kept \cup gone)
          = SumFunctionOnSet(have, kept) + SumFunctionOnSet(have, gone)
    <3>1. \A a \in kept \cup gone : have[a] \in Int
      BY <2>4, <2>7
    <3> QED BY <2>3, <2>7, <3>1, SumOfUnion
  <2>9. SumFunctionOnSet(have, gone) = 0
    BY <2>3, <2>6, SumOfZeros
  <2>10. SumFunctionOnSet(have, kept) <= SumFunctionOnSet(had, kept)
    <3>1. \A a \in kept : have[a] \in Int /\ had[a] \in Int /\ have[a] <= had[a]
      BY <2>4, <2>5, <2>7
    <3> QED BY <2>3, <3>1, SumAtMost
  <2>11. SumFunctionOnSet(had, kept) <= SumFunctionOnSet(had, AssocsIn(b))
    BY <2>1, <2>7, SumOfSubset
  <2> DEFINE x == SumFunctionOnSet(have, new)
             y == SumFunctionOnSet(have, kept)
             z == SumFunctionOnSet(had, kept)
             w == SumFunctionOnSet(had, AssocsIn(b))
             v == bank[b].job_usage
  <2>12. y \in Int /\ z \in Int /\ w \in Int
    <3>1. \A a \in kept : have[a] \in Int /\ had[a] \in Int
      BY <2>4, <2>5, <2>7
    <3>2. \A a \in AssocsIn(b) : had[a] \in Int
      BY <2>1
    <3> QED BY <2>1, <2>3, <3>1, <3>2, SumType
  <2>13. v \in Nat /\ v >= w
    BY <2>0 DEF BankInv, BankType, BankUsageSums, had
  <2>14. x = y
    BY <2>7, <2>8, <2>9, <2>12
  <2>15. v >= x
    <3> HIDE DEF v, w, x, y, z
    <3>1. y <= z /\ z <= w
      BY <2>10, <2>11 DEF w, y, z
    <3> QED BY <2>12, <2>13, <2>14, <3>1
  <2> QED BY <2>15 DEF have, new
<1> QED BY <1>1, <1>2 DEF BankInv, BankUsageSums

LEMMA NextBanks ==
  ASSUME BanksAreATree, LeavesAreCleared, CountInv, CountInv', UsageType, UsageType',
         BankInv, [Next]_vars
  PROVE  BankInv'
<1>1. ASSUME NEW u, Update(u) PROVE BankInv'
  BY <1>1, UpdateBanks DEF Update
<1>2. CASE Clears
  BY <1>2, ClearBanksSums, ReadBanksSums, WriteBanksSums, EndBanksSums
     DEF Clears, LeavesAreCleared
<1>3. ASSUME UNCHANGED <<bank, assoc, clearing, stale>> PROVE BankInv'
  BY <1>3, SameBanks
<1>4. CASE Records \/ (\E u \in Updaters : UpdateBegin(u)) \/ Reconfigures \/ UNCHANGED vars
  BY <1>3, <1>4 DEF Records, Tick, JobsEnd, FetchJobRecords, ScrubOldJobs, UpdateBegin,
     Reconfigures, EditConfig, vars, table, history
<1>5. ASSUME NEW a, AddUser(a) PROVE BankInv'
  BY <1>5, SameBanks DEF AddUser, history
<1>7. ASSUME NEW a, DeleteUser(a) PROVE BankInv'
  BY <1>7, SameBanks DEF DeleteUser, Restrict, history
<1> QED BY <1>1, <1>2, <1>4, <1>5, <1>7 DEF Next, Updates, Users

LEMMA InitBanks == CountInv /\ UsageType /\ Init => BankInv
<1> SUFFICES ASSUME CountInv, UsageType, Init PROVE BankInv
  OBVIOUS
<1>1. bank = [b \in Banks |-> [job_usage |-> 0, ignore_older_than |-> 0]]
      /\ assoc = [a \in Assocs \ UserEdits |-> [job_usage |-> 0]]
  BY DEF Init
<1>2. BankType /\ \A b \in Banks : bank[b].job_usage = 0 /\ BankUsages[b] = 0
  BY <1>1 DEF BankType, BankUsages
<1>3. ASSUME NEW b \in Banks PROVE SumOfSubBanks(BankUsages, b) = 0
  <2>1. IsFiniteSet(SubBanks(b)) /\ SubBanks(b) \subseteq Banks
    BY UsageAssumption, FS_Subset DEF SubBanks
  <2> QED BY <2>1, <1>2, SumOfZeros DEF SumOfSubBanks
<1>4. ASSUME NEW b \in Banks PROVE SumFunctionOnSet(AssocUsages, AssocsIn(b)) = 0
  <2>1. IsFiniteSet(AssocsIn(b)) /\ \A a \in AssocsIn(b) : AssocUsages[a] = 0
    BY <1>1, AssocsInFacts DEF AssocUsages, AssocsIn
  <2> QED BY <2>1, SumOfZeros
<1>5. ClearType /\ SumIsPending
  BY DEF Init, Nothing, Idle, ClearType, SumIsPending
<1> QED BY <1>2, <1>3, <1>4, <1>5 DEF BankInv, BankUsageSums

\* The usage of every bank is the sum of its sub-banks' and covers that of its
\* associations, whatever updates, leaf clears, additions and deletions come in
\* whatever order, an update in the middle of a clear included, for any tree of
\* banks: but for a bank that a clear has yet to come to or has failed to reach,
\* and one it has written with a sum it had read before an update.
THEOREM BankUsageAddsUp == BanksAreATree /\ LeavesAreCleared /\ Spec => []BankUsageSums
<1> SUFFICES ASSUME BanksAreATree, LeavesAreCleared PROVE Spec => []BankUsageSums
  OBVIOUS
<1>1. BankInv => BankUsageSums
  BY DEF BankInv
<1>2. Init => UsageType /\ BankInv
  BY InitCount, InitUsage, InitBanks DEF UsageInv
<1>3. CountInv /\ UsageType /\ [Next]_vars => UsageType'
  BY NextUsageType
<1>4. CountInv /\ CountInv' /\ UsageType /\ UsageType' /\ BankInv /\ [Next]_vars => BankInv'
  BY NextBanks
<1> QED BY <1>1, <1>2, <1>3, <1>4, CountInvariance, PTL DEF Spec
===============================================================================
