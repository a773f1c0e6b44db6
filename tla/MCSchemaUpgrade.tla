---------------------------- MODULE MCSchemaUpgrade ----------------------------
(***************************************************************************)
(* Instances of SchemaUpgrade for TLC.  The newer version has a table for  *)
(* the usage of each period in place of the columns of the factor table, a *)
(* queue table with a column less and a column more, one column more in    *)
(* the association table, and one more entry in the configuration.         *)
(***************************************************************************)
EXTENDS SchemaUpgrade, TLC

CONSTANTS assocs, queues, config, factors, periods,
          name, shares, cores, time, last, bin0, bin1, value, k1, k2

OldSchema ==
  assocs :> {name, shares} @@ queues :> {name, time} @@ config :> {name, value}
  @@ factors :> {name, last, bin0, bin1} @@ periods :> {}
NewSchema ==
  assocs :> {name, shares, cores} @@ queues :> {name, cores} @@ config :> {name, value}
  @@ factors :> {name, last} @@ periods :> {name, value}
TwoSchemas == <<OldSchema, NewSchema>>

CreationOrder ==
  assocs :> 1 @@ factors :> 2 @@ queues :> 3 @@ config :> 4 @@ periods :> 5
NewEntries == [t \in Tables |-> IF t = config THEN {k1, k2} ELSE {}]

RowsWith(fs) == [t \in Tables |-> IF t = factors THEN fs
                                  ELSE IF t \in {assocs, queues, config} THEN {k1} ELSE {}]
SomeRows == {RowsWith({}), RowsWith({k1})}

(* What the theorems suppose of a history, this one meets. *)
ASSUME ThisHistory == SchemaHistory /\ UsageLeftAlone
=============================================================================
