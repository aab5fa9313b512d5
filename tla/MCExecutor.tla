---------------------------- MODULE MCExecutor ------------------------------
(***************************************************************************)
(* The executor's parts side by side: a behaviour is that of serializable  *)
(* transactions, whose reads and writes take and check predicate locks     *)
(* (Ssi), or of the sorters of one process (TupleSort), whose variables    *)
(* and constants this module has, or runs a join, another plan node or an  *)
(* expression. v1, v2, ... are the variables of that part, in the order of *)
(* its declaration.                                                        *)
(***************************************************************************)
EXTENDS Ssi, TupleSort, TLC

VARIABLES
  active,   \* the part that runs
  v1, v2, v3, v4, v5, v6, v7, v8, v9, v10

From7 == <<v7, v8, v9, v10>>
From1 == <<v1, v2, v3, v4, v5, v6, From7>>
mcVars == <<active, ssiVars, sortVars, From1>>

(* The variables from the i-th on, or the sorters, have no part in this    *)
(* behaviour.                                                              *)
Idle7 == v7 = 0 /\ v8 = 0 /\ v9 = 0 /\ v10 = 0
Idle1 == v1 = 0 /\ v2 = 0 /\ v3 = 0 /\ v4 = 0 /\ v5 = 0 /\ v6 = 0 /\ Idle7
NoSort == SortInit /\ order = [reverse |-> FALSE, nulls_first |-> FALSE]

(* The sorter below the outer side of a merge join gets rows of any keys,  *)
(* the one below the inner side a run's worth of equal ones.               *)
SortKeysOf == "outer" :> {0, 1, 2} @@ "inner" :> {1}
SortRowsOf == "outer" :> 3 @@ "inner" :> 2

Symmetric == Permutations(Xids) \cup Permutations(Tuples)

J == INSTANCE Joins WITH
  JoinKeys <- {0, 1, 2}, MaxOuter <- 2, MaxInner <- 3, HashMem <- 1,
  MaxRescans <- 1,
  plan <- v1, outer <- v2, inner <- v3, lpos <- v4, rpos <- v5, st <- v6,
  pc <- v7, out <- v8, ended <- v9, rescans <- v10

N == INSTANCE PlanNodes WITH
  Values <- {0, 1, 2}, MaxRows <- 3, MaxRescans <- 1,
  plan <- v1, child <- v2, child2 <- v3, cpos <- v4, st <- v5, pc <- v6,
  out <- v7, ended <- v8, rescans <- v9

E == INSTANCE Expressions WITH
  Types <- {"int4", "int8", "float8"}, Columns <- {1, 7},
  Operators <- {"<", "-"}, Functions <- {"coalesce", "nullif", "least"},
  kInt4Bits <- 3, kInt8Bits <- 4, MaxNodes <- 2,
  expr <- v1, type <- v2, coltype <- v3, row <- v4, params <- v5, nodes <- v6

MCInit ==
  \/ active = "ssi" /\ SsiInit /\ NoSort /\ Idle1
  \/ active = "sorters" /\ SortInit /\ SsiInit /\ Idle1
  \/ active = "join" /\ J!Init /\ SsiInit /\ NoSort
  \/ active = "plan node" /\ N!Init /\ v10 = 0 /\ SsiInit /\ NoSort
  \/ active = "expression" /\ E!Init /\ Idle7 /\ SsiInit /\ NoSort

MCNext ==
  /\ \/ active = "ssi" /\ SsiNext /\ UNCHANGED <<sortVars, From1>>
     \/ active = "sorters" /\ SortNext /\ UNCHANGED <<ssiVars, From1>>
     \/ active = "join" /\ J!Next /\ UNCHANGED <<ssiVars, sortVars>>
     \/ active = "plan node" /\ N!Next /\ UNCHANGED <<ssiVars, sortVars, v10>>
     \/ active = "expression" /\ E!Next /\ UNCHANGED <<ssiVars, sortVars, From7>>
  /\ UNCHANGED active

MCSpec == MCInit /\ [][MCNext]_mcVars

(* Joins's JoinsComplete: hash, merge and nested-loop joins deliver the    *)
(* rows SQL defines, in several batches and after a rescan.                *)
JoinsComplete == active = "join" => J!JoinsComplete

(* PlanNodes's NodesReturnRight: every other node delivers the rows it is  *)
(* defined to, also when it is rescanned before its end.                   *)
NodesReturnRight == active = "plan node" => N!NodesReturnRight

(* Expressions's EvaluatesAsSql and CompiledAgrees: the interpreter        *)
(* returns what SQL defines where it does not lose a NULL, and compiled    *)
(* code what the interpreter returns.                                      *)
ExpressionsRight ==
  active = "expression" => E!EvaluatesAsSql /\ E!CompiledAgrees
=============================================================================
