------------------------------ MODULE MCPluginSync ------------------------------
(***************************************************************************)
(* Instances of PluginSync for TLC: the owner and two users, of whom the   *)
(* first may be in two banks.  Of the other tables there is one that the   *)
(* plugin replaces, queues, and one that it merges, factors.               *)
(***************************************************************************)
EXTENDS PluginSync, TLC

CONSTANTS owner, u1, u2, own, A, B, queues, factors, name, default, j1, j2
VARIABLE stage

SentTables == <<queues, factors>>
EmptyMaps == [t \in {queues, factors} |->
                [n \in {name} |-> IF t = factors THEN default ELSE Absent]]
OneEach == j1 :> u1 @@ j2 :> u2
BothOfOne == j1 :> u1 @@ j2 :> u1

TouchedAssocs == {<<u1, A>>, <<u1, B>>, <<u2, A>>}

OneUser == [rows |-> [a \in Assocs |-> IF a = <<u1, A>> THEN On ELSE Absent],
            def |-> [u \in Users |-> A], more |-> EmptyMaps]

(* A stage: two overlapping runs of the script and no jobs, and either a   *)
(* run is killed or the plugin is loaded again; or one run of the script,  *)
(* jobs, and loads of the plugin.                                          *)
ScriptsNext == /\ \/ \E p \in Runs : Update(p)
                  \/ \E with_data \in BOOLEAN : Load(with_data)
                  \/ Command
               /\ kills' + loads' <= 1
JobsNext(p) == \/ StartRun(p) \/ Script(p)
               \/ \E j \in Jobs : JobEvent(j) \/ Callback(j)
               \/ \E with_data \in BOOLEAN : Load(with_data)
               \/ changes = 0 /\ (ChangeAssociation \/ ChangeDefault)

StagedInit == InitWith(OneUser) /\ stage \in {"scripts", "jobs"}
StagedNext ==
  /\ \/ stage = "scripts" /\ ScriptsNext
     \/ stage = "jobs" /\ JobsNext(CHOOSE p \in Runs : TRUE)
  /\ UNCHANGED stage
StagedFairness ==
  /\ \A p \in Runs : WF_vars(Script(p))
  /\ WF_vars(StartRun(CHOOSE p \in Runs : TRUE))
  /\ WF_vars(\E j \in Jobs : Callback(j))
JobsInit == InitWith(OneUser) /\ stage = "jobs"
JobsSpec == JobsInit /\ [][StagedNext]_<<vars, stage>> /\ StagedFairness
StagedSpec == StagedInit /\ [][StagedNext]_<<vars, stage>> /\ StagedFairness
=============================================================================
