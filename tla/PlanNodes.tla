----------------------------- MODULE PlanNodes -----------------------------
(***************************************************************************)
(* The executor nodes that are not joins and read no table: Limit, Unique, *)
(* Group, SetOp, Append, MergeAppend, Material, CteScan, Sort, GatherMerge *)
(* and IncrementalSort, SubqueryScan, ValuesScan and Gather, Agg,          *)
(* WindowAgg, RecursiveUnion over a WorkTableScan, and ProjectSet          *)
(* (src/executor/node_*.cpp).                                              *)
(*                                                                         *)
(* As in Joins, a step is a pass through a call of ExecProcNode, and the   *)
(* parent may rescan between two calls.  The children deliver the rows of  *)
(* child and, for an append, of child2.  A row has a key and, where a node *)
(* looks at it, a second column v: the argument of an aggregate, or the    *)
(* flag of SetOp, 0 for its first input.                                   *)
(***************************************************************************)
EXTENDS Integers, Sequences, FiniteSets, FiniteSetsExt, SequencesExt

CONSTANTS Values,      \* column values; Null among them
          MaxRows,     \* bound: rows of a child
          MaxRescans   \* bound: calls of ExecReScan

VARIABLES
  plan,     \* node and its parameters
  child,    \* rows of the child: [k, v]
  child2,   \* rows of the second child of an append
  cpos,     \* rows the child has delivered since its last rescan
  st,       \* the node's private state
  pc,       \* "idle" | "loop"
  out,      \* history: what was returned since the last rescan
  ended,    \* history: ExecProcNode returned nullptr
  rescans   \* number of rescans

vars == <<plan, child, child2, cpos, st, pc, out, ended, rescans>>

Null == 0
NoLimit == -1
NoRow == [k |-> -1, v |-> -1]

Plans ==
  [node : {"limit"}, limit : {NoLimit, 0, 1}, offset : {0, 1}] \cup
  [node : {"sort"}, limit : {NoLimit, 0, 1}, offset : {0, 1},
   reverse : BOOLEAN, nulls_first : BOOLEAN] \cup
  [node : {"gathermerge", "incrementalsort"}, limit : {NoLimit}, offset : {0},
   reverse : BOOLEAN, nulls_first : BOOLEAN] \cup
  [node : {"mergeappend"}, reverse : BOOLEAN, nulls_first : BOOLEAN] \cup
  [node : {"setop"}, cmd : {"intersect", "except"}, all : BOOLEAN] \cup
  [node : {"ctescan", "subqueryscan", "valuesscan"}, qual : BOOLEAN] \cup
  [node : {"agg"}, grouped : BOOLEAN, having : BOOLEAN,
   kind : {"count_star", "count", "sum", "max", "sum_distinct"}] \cup
  [node : {"windowagg"}, full : BOOLEAN, kind : {"count_star", "count", "sum", "max"}] \cup
  [node : {"projectset"}, srfs : 0 .. 2] \cup
  [node : {"unique", "group", "append", "material", "gather", "recursiveunion"}]

(* Keys in the order CompareDatumValues gives them, NULL first.            *)
Ascending(rows) == \A i, j \in DOMAIN rows : i < j => rows[i].k <= rows[j].k

(* TupleSort::Compare(a, b) < 0, the order of Sort and its relatives.      *)
Before(a, b) ==
  CASE a.k = Null /\ b.k = Null -> FALSE
    [] a.k = Null -> plan.nulls_first
    [] b.k = Null -> ~plan.nulls_first
    [] OTHER -> IF plan.reverse THEN b.k < a.k ELSE a.k < b.k
InOrder(rows) == \A i, j \in DOMAIN rows : i < j => ~Before(rows[j], rows[i])

(* MergeAppendState::CompareHeads(a, b) < 0: reverse turns the NULLs too.  *)
CompareHeads(a, b) ==
  LET nulls_first == plan.nulls_first # plan.reverse
  IN CASE a.k = Null /\ b.k = Null -> FALSE
       [] a.k = Null -> nulls_first
       [] b.k = Null -> ~nulls_first
       [] OTHER -> IF plan.reverse THEN b.k < a.k ELSE a.k < b.k

(* Accumulate for one aggregate, and the value BuildOutputSlot gives it.   *)
EmptyGroup == [count |-> 0, acc |-> Null, seen |-> {}]
Accumulate(g, v) ==
  CASE plan.kind = "count_star" -> [g EXCEPT !.count = @ + 1]
    [] plan.kind # "count_star" /\ v = Null -> g
    [] plan.kind = "sum_distinct" /\ v \in g.seen -> g
    [] OTHER ->
         [count |-> g.count + 1, seen |-> g.seen \cup {v},
          acc |-> CASE plan.kind = "max" -> Max({g.acc, v})
                    [] plan.kind = "count" -> g.acc
                    [] OTHER -> g.acc + v]
Result(g) == IF plan.kind \in {"count_star", "count"} THEN g.count ELSE g.acc

(* The private state after ExecInit of each node.                          *)
LimitInit == [count |-> plan.limit, skip |-> plan.offset]
SortInit == [done |-> FALSE, rows |-> <<>>, index |-> 0, output |-> 0]
MergeAppendInit == [heads |-> <<NoRow, NoRow>>, pos |-> <<0, 0>>]
SetOpInit ==
  [left |-> 0, right |-> 0, first |-> NoRow, has_group |-> FALSE, remaining |-> 0]
MaterialInit == [done |-> FALSE, rows |-> <<>>, index |-> 0]
AggInit ==
  [started |-> FALSE, groups |-> [k \in {} |-> EmptyGroup], left |-> {},
   plain |-> EmptyGroup, plain_init |-> TRUE]
WindowAggInit ==
  [drained |-> FALSE, index |-> 0, last |-> NoRow, running |-> EmptyGroup]
ProjectSetInit == [queues |-> <<>>, pos |-> 0, row |-> NoRow]
UniqueInit == [last |-> NoRow]
AppendInit == [which |-> 1, pos |-> 0]
RecursiveUnionInit ==
  [initialized |-> FALSE, results |-> <<>>, index |-> 0, worktable |-> <<>>]

Start ==
  CASE plan.node = "limit" -> LimitInit
    [] plan.node \in {"sort", "gathermerge", "incrementalsort"} -> SortInit
    [] plan.node = "mergeappend" -> MergeAppendInit
    [] plan.node = "setop" -> SetOpInit
    [] plan.node \in {"material", "ctescan"} -> MaterialInit
    [] plan.node = "agg" -> AggInit
    [] plan.node = "windowagg" -> WindowAggInit
    [] plan.node = "projectset" -> ProjectSetInit
    [] plan.node \in {"unique", "group"} -> UniqueInit
    [] plan.node = "append" -> AppendInit
    [] plan.node = "recursiveunion" -> RecursiveUnionInit
    [] OTHER -> [none |-> 0]

Rows ==
  [k : Values,
   v : CASE plan.node \in {"agg", "windowagg"} -> Values
         [] plan.node = "setop" -> {0, 1}
         [] OTHER -> {0}]

(* The children deliver any rows, in the order the node relies on.         *)
Init ==
  /\ plan \in Plans
  /\ child \in BoundedSeq(Rows, MaxRows)
  /\ child2 \in IF plan.node \in {"append", "mergeappend"}
                  THEN BoundedSeq(Rows, MaxRows - 1) ELSE {<<>>}
  /\ plan.node \in {"unique", "group", "setop", "windowagg"} => Ascending(child)
  /\ plan.node = "mergeappend" => InOrder(child) /\ InOrder(child2)
  /\ cpos = 0 /\ st = Start
  /\ pc = "idle" /\ out = <<>> /\ ended = FALSE /\ rescans = 0

(* How a pass ends: something is returned, nullptr is, or it goes on.      *)
Return(x) == out' = Append(out, x) /\ pc' = "idle" /\ UNCHANGED ended
ReturnNothing == ended' = TRUE /\ pc' = "idle" /\ UNCHANGED out
Continue == pc' = "loop" /\ UNCHANGED <<out, ended>>

Running(node) ==
  /\ plan.node = node /\ ~ended
  /\ UNCHANGED <<plan, child, child2, rescans>>
AtEnd == cpos = Len(child)
Row == child[cpos + 1]
Read == cpos' = cpos + 1
Drain == cpos' = Len(child)

-----------------------------------------------------------------------------
(* LimitState::ExecProcNode: first the skipping of OFFSET rows, then LIMIT. *)
Limit ==
  /\ Running("limit")
  /\ IF st.skip > 0
       THEN IF AtEnd THEN ReturnNothing /\ UNCHANGED <<st, cpos>>
            ELSE Read /\ st' = [st EXCEPT !.skip = @ - 1] /\ Continue
       ELSE IF st.count = 0 \/ AtEnd THEN ReturnNothing /\ UNCHANGED <<st, cpos>>
            ELSE /\ Read /\ Return(Row)
                 /\ st' = [st EXCEPT !.count = IF @ > 0 THEN @ - 1 ELSE @]

(* UniqueState and GroupState: a row whose key differs from the last one.  *)
FirstOfEach(node) ==
  /\ Running(node)
  /\ IF AtEnd THEN ReturnNothing /\ UNCHANGED <<st, cpos>>
     ELSE /\ Read
          /\ IF st.last.k = Row.k THEN Continue /\ UNCHANGED st
             ELSE Return(Row) /\ st' = [last |-> Row]
Unique == FirstOfEach("unique")
Group == FirstOfEach("group")

(* AppendState::ExecProcNode.                                              *)
AppendNode ==
  LET rows == <<child, child2>>[st.which]
  IN /\ Running("append")
     /\ CASE st.which = 3 -> ReturnNothing /\ UNCHANGED st
          [] st.which < 3 /\ st.pos < Len(rows) ->
               Return(rows[st.pos + 1]) /\ st' = [st EXCEPT !.pos = @ + 1]
          [] OTHER -> Continue /\ st' = [which |-> st.which + 1, pos |-> 0]
     /\ UNCHANGED cpos

(* MergeAppendState::ExecProcNode: fill the empty heads, take the first of *)
(* the smallest.                                                           *)
MergeAppend ==
  LET rows == <<child, child2>>
      fill(i) == st.heads[i] = NoRow /\ st.pos[i] < Len(rows[i])
      heads == [i \in 1 .. 2 |-> IF fill(i) THEN rows[i][st.pos[i] + 1] ELSE st.heads[i]]
      live == {i \in 1 .. 2 : heads[i] # NoRow}
      best == CHOOSE i \in live : \A j \in live \ {i} :
                IF j < i THEN CompareHeads(heads[i], heads[j])
                         ELSE ~CompareHeads(heads[j], heads[i])
  IN /\ Running("mergeappend")
     /\ st' = [pos |-> [i \in 1 .. 2 |-> IF fill(i) THEN st.pos[i] + 1 ELSE st.pos[i]],
               heads |-> IF live = {} THEN heads ELSE [heads EXCEPT ![best] = NoRow]]
     /\ IF live = {} THEN ReturnNothing ELSE Return(heads[best])
     /\ UNCHANGED cpos

-----------------------------------------------------------------------------
(* SetOpState::ComputeOutputCount.                                         *)
ComputeOutputCount ==
  CASE plan.cmd = "intersect" /\ plan.all -> Min({st.left, st.right})
    [] plan.cmd = "intersect" /\ ~plan.all -> IF st.left > 0 /\ st.right > 0 THEN 1 ELSE 0
    [] plan.cmd = "except" /\ plan.all -> Max({0, st.left - st.right})
    [] plan.cmd = "except" /\ ~plan.all -> IF st.left > 0 /\ st.right = 0 THEN 1 ELSE 0

(* StartNewGroup: whatever the last group has still to deliver is gone.    *)
StartNewGroup(row) ==
  [left |-> IF row.v = 0 THEN 1 ELSE 0, right |-> IF row.v = 0 THEN 0 ELSE 1,
   first |-> row, has_group |-> TRUE, remaining |-> 0]

(* SetOpState::ExecProcNode.                                               *)
SetOp ==
  LET n == ComputeOutputCount
  IN /\ Running("setop")
     /\ CASE st.remaining > 0 ->
               /\ Return(st.first.k)
               /\ st' = [st EXCEPT !.remaining = @ - 1]
               /\ UNCHANGED cpos
          [] st.remaining = 0 /\ AtEnd ->
               /\ IF st.has_group /\ n > 0
                    THEN Return(st.first.k) /\ st' = [st EXCEPT !.remaining = n - 1,
                                                               !.has_group = FALSE]
                    ELSE ReturnNothing /\ st' = [st EXCEPT !.has_group = FALSE]
               /\ UNCHANGED cpos
          [] st.remaining = 0 /\ ~AtEnd /\ st.has_group /\ st.first.k = Row.k ->
               /\ Read /\ Continue
               /\ st' = IF Row.v = 0 THEN [st EXCEPT !.left = @ + 1]
                                     ELSE [st EXCEPT !.right = @ + 1]
          [] OTHER ->
               /\ Read
               /\ st' = StartNewGroup(Row)
               /\ IF st.has_group /\ n > 0 THEN Return(st.first.k) ELSE Continue

-----------------------------------------------------------------------------
(* ExecQual of a scan: here that the key is 1, which NULL is not.          *)
Passes(row) == plan.qual => row.k = 1

(* SubqueryScanState, ValuesScanState: a filter; GatherState: none.        *)
Filter(node, passes(_)) ==
  /\ Running(node)
  /\ IF AtEnd THEN ReturnNothing /\ UNCHANGED cpos
     ELSE Read /\ IF passes(Row) THEN Return(Row) ELSE Continue
  /\ UNCHANGED st
SubqueryScan == Filter("subqueryscan", Passes)
ValuesScan == Filter("valuesscan", Passes)
Gather == Filter("gather", LAMBDA row : TRUE)

(* MaterialState and CteScanState: the child is read once, also over       *)
(* rescans, and replayed.                                                  *)
Replay(node, passes(_)) ==
  /\ Running(node)
  /\ IF ~st.done
       THEN Drain /\ Continue /\ st' = [done |-> TRUE, rows |-> child, index |-> 0]
       ELSE /\ IF st.index = Len(st.rows) THEN ReturnNothing /\ UNCHANGED st
               ELSE /\ st' = [st EXCEPT !.index = @ + 1]
                    /\ IF passes(st.rows[st.index + 1])
                         THEN Return(st.rows[st.index + 1]) ELSE Continue
            /\ UNCHANGED cpos
Material == Replay("material", LAMBDA row : TRUE)
CteScan == Replay("ctescan", Passes)

(* The ordered arrangements of rows, of which TupleSort delivers one.      *)
Arrangements(rows) ==
  {a \in {[i \in DOMAIN rows |-> rows[p[i]]] :
            p \in {q \in [DOMAIN rows -> DOMAIN rows] : IsInjective(q)}} : InOrder(a)}

(* SortState, GatherMergeState, IncrementalSortState: the child is sorted  *)
(* at the first call, OFFSET is skipped, LIMIT counted.                    *)
SortAndReturn(node) ==
  /\ Running(node)
  /\ IF ~st.done
       THEN /\ Drain /\ Continue
            /\ \E rows \in Arrangements(child) :
                 st' = [done |-> TRUE, rows |-> rows, output |-> 0,
                        index |-> Min({plan.offset, Len(rows)})]
       ELSE /\ IF (plan.limit >= 0 /\ st.output >= plan.limit) \/ st.index = Len(st.rows)
                 THEN ReturnNothing /\ UNCHANGED st
                 ELSE /\ Return(st.rows[st.index + 1])
                      /\ st' = [st EXCEPT !.index = @ + 1, !.output = @ + 1]
            /\ UNCHANGED cpos
Sort == SortAndReturn("sort")
GatherMerge == SortAndReturn("gathermerge")
IncrementalSort == SortAndReturn("incrementalsort")

-----------------------------------------------------------------------------
(* AggState::ExecProcNode, phase 1: a row joins its group.                 *)
AggConsume ==
  LET group == IF Row.k \in DOMAIN st.groups THEN st.groups[Row.k] ELSE EmptyGroup
      joined == Accumulate(IF plan.grouped THEN group ELSE st.plain, Row.v)
  IN /\ Running("agg") /\ ~st.started
     /\ IF AtEnd
          THEN /\ st' = [st EXCEPT !.started = TRUE, !.left = DOMAIN st.groups]
               /\ UNCHANGED cpos
          ELSE /\ Read
               /\ st' = IF plan.grouped
                    THEN [st EXCEPT !.groups = [k \in DOMAIN @ \cup {Row.k} |->
                            IF k = Row.k THEN joined ELSE @[k]]]
                    ELSE [st EXCEPT !.plain = joined]
     /\ Continue

(* The HAVING qual: here that the aggregate is at least 2.                 *)
Having(g) == plan.having => Result(g) >= 2

(* Phase 2 with GROUP BY: the groups in the order of the hash table.       *)
AggGroups ==
  /\ Running("agg") /\ st.started /\ plan.grouped
  /\ IF st.left = {} THEN ReturnNothing /\ UNCHANGED st
     ELSE \E k \in st.left :
            /\ st' = [st EXCEPT !.left = @ \ {k}]
            /\ IF Having(st.groups[k])
                 THEN Return(<<k, Result(st.groups[k])>>) ELSE Continue
  /\ UNCHANGED cpos

(* Phase 2 without: one row, also when there was no input.                 *)
AggPlain ==
  /\ Running("agg") /\ st.started /\ ~plan.grouped
  /\ st' = [st EXCEPT !.plain_init = FALSE]
  /\ IF st.plain_init /\ Having(st.plain)
       THEN Return(<<Null, Result(st.plain)>>) ELSE ReturnNothing
  /\ UNCHANGED cpos

(* Mutant: the running aggregate goes on into the next partition.          *)
NeverReset(row) == st.last # NoRow

(* WindowAggState::SamePartition.                                          *)
SamePartition(row) == st.last # NoRow /\ st.last.k = row.k

(* WindowAggState::ExecProcNode.  Without ORDER BY the frame is the whole  *)
(* partition, accumulated at its first row; with it, the rows so far.      *)
WindowAgg ==
  LET row == child[st.index + 1]
      base == IF SamePartition(row) THEN st.running ELSE EmptyGroup
      partition == SelectSeq(SubSeq(child, st.index + 1, Len(child)),
                             LAMBDA r : r.k = row.k)
      running == IF ~plan.full THEN Accumulate(base, row.v)
                 ELSE IF SamePartition(row) THEN st.running
                 ELSE FoldLeft(LAMBDA g, r : Accumulate(g, r.v), EmptyGroup, partition)
  IN /\ Running("windowagg")
     /\ IF ~st.drained
          THEN Drain /\ Continue /\ st' = [st EXCEPT !.drained = TRUE]
          ELSE /\ IF st.index = Len(child) THEN ReturnNothing /\ UNCHANGED st
                  ELSE /\ Return(<<row.k, Result(running)>>)
                       /\ st' = [st EXCEPT !.index = @ + 1, !.last = row,
                                           !.running = running]
               /\ UNCHANGED cpos

-----------------------------------------------------------------------------
(* The recursive term, here SELECT k + 1 WHERE k < the largest value: a    *)
(* WorkTableScan from the start of the working table to its end.           *)
WorkTableScan(rows) ==
  LET passed == SelectSeq(rows, LAMBDA k : k # Null /\ k < Max(Values))
  IN [i \in DOMAIN passed |-> passed[i] + 1]

(* RecursiveUnionState::ExecProcNode.                                      *)
RecursiveUnion ==
  LET seed == [i \in DOMAIN child |-> child[i].k]
      new == WorkTableScan(st.worktable)
  IN /\ Running("recursiveunion")
     /\ CASE ~st.initialized ->
               /\ Drain /\ Continue
               /\ st' = [initialized |-> TRUE, results |-> seed, index |-> 0,
                         worktable |-> seed]
          [] st.initialized /\ st.index < Len(st.results) ->
               /\ Return(st.results[st.index + 1])
               /\ st' = [st EXCEPT !.index = @ + 1]
               /\ UNCHANGED cpos
          [] OTHER ->
               /\ IF new = <<>> THEN ReturnNothing /\ UNCHANGED st
                  ELSE /\ Continue
                       /\ st' = [st EXCEPT !.results = @ \o new, !.worktable = new]
               /\ UNCHANGED cpos

(* EvalSRFValues: generate_series(1, k), nothing for NULL.                 *)
EvalSRFValues(k) == [i \in 1 .. k |-> i]

(* ProjectSetState::ExecProcNode, with generate_series(1, k) and           *)
(* generate_series(1, 2) in the target list beside the row itself.  A      *)
(* function with fewer values than another is padded with NULLs.           *)
ProjectSet ==
  LET more == {q \in DOMAIN st.queues : st.pos < Len(st.queues[q])}
  IN /\ Running("projectset")
     /\ IF more # {}
          THEN /\ Return(<<st.row>> \o [q \in DOMAIN st.queues |->
                            IF q \in more THEN st.queues[q][st.pos + 1] ELSE Null])
               /\ st' = [st EXCEPT !.pos = @ + 1]
               /\ UNCHANGED cpos
          ELSE IF AtEnd THEN ReturnNothing /\ UNCHANGED <<st, cpos>>
          ELSE /\ Read
               /\ st' = [row |-> Row, pos |-> 0,
                         queues |-> SubSeq(<<EvalSRFValues(Row.k), EvalSRFValues(2)>>,
                                           1, plan.srfs)]
               /\ IF plan.srfs = 0 THEN Return(<<Row>>) ELSE Continue

-----------------------------------------------------------------------------
(* ExecReScan of each node.  What Material and CteScan have read they      *)
(* keep; the working table stays as it is until the union is seeded again. *)
ExecReScan ==
  /\ pc = "idle" /\ rescans < MaxRescans
  /\ rescans' = rescans + 1
  /\ out' = <<>> /\ ended' = FALSE
  /\ IF plan.node \in {"material", "ctescan"}
       THEN st' = [st EXCEPT !.index = 0] /\ UNCHANGED cpos
       ELSE /\ cpos' = 0
            /\ st' = IF plan.node = "recursiveunion"
                       THEN [Start EXCEPT !.worktable = st.worktable] ELSE Start
  /\ UNCHANGED <<plan, child, child2, pc>>

Next ==
  \/ Limit \/ Unique \/ Group \/ AppendNode \/ MergeAppend \/ SetOp
  \/ SubqueryScan \/ ValuesScan \/ Gather \/ Material \/ CteScan
  \/ Sort \/ GatherMerge \/ IncrementalSort
  \/ AggConsume \/ AggGroups \/ AggPlain \/ WindowAgg
  \/ RecursiveUnion \/ ProjectSet
  \/ ExecReScan

Spec == Init /\ [][Next]_vars

(***************************************************************************)
(* Properties                                                              *)
(***************************************************************************)
(* What SQL defines, over the rows as a whole.                             *)
Count(x, s) == Cardinality({i \in DOMAIN s : s[i] = x})
SameBag(s, t) == \A x \in ToSet(s) \cup ToSet(t) : Count(x, s) = Count(x, t)

Aggregate(S) ==
  LET given == {i \in S : child[i].v # Null}
      vals == {child[i].v : i \in given}
  IN CASE plan.kind = "count_star" -> Cardinality(S)
       [] plan.kind = "count" -> Cardinality(given)
       [] plan.kind = "sum" -> MapThenSumSet(LAMBDA i : child[i].v, given)
       [] plan.kind = "sum_distinct" -> SumSet(vals)
       [] plan.kind = "max" -> Max(vals \cup {Null})

Copies(k) ==
  LET n(f) == Count([k |-> k, v |-> f], child)
  IN CASE plan.cmd = "intersect" -> Min({n(0), n(1), IF plan.all THEN MaxRows ELSE 1})
       [] plan.cmd = "except" /\ plan.all -> Max({0, n(0) - n(1)})
       [] plan.cmd = "except" /\ ~plan.all -> IF n(0) > 0 /\ n(1) = 0 THEN 1 ELSE 0

Keys == SetToSortSeq({child[i].k : i \in DOMAIN child}, <)
Window(rows) ==
  SubSeq(rows, plan.offset + 1,
         IF plan.limit = NoLimit THEN Len(rows) ELSE Min({Len(rows), plan.offset + plan.limit}))

(* The sequence a node has to return, where its order is determined.       *)
Sequence ==
  CASE plan.node = "limit" -> Window(child)
    [] plan.node \in {"unique", "group"} -> [i \in DOMAIN Keys |-> [k |-> Keys[i], v |-> 0]]
    [] plan.node = "append" -> child \o child2
    [] plan.node \in {"material", "gather"} -> child
    [] plan.node \in {"ctescan", "subqueryscan", "valuesscan"} -> SelectSeq(child, Passes)
    [] plan.node = "setop" ->
         FlattenSeq([i \in DOMAIN Keys |-> [n \in 1 .. Copies(Keys[i]) |-> Keys[i]]])
    [] plan.node = "windowagg" ->
         [i \in DOMAIN child |->
            <<child[i].k, Aggregate({j \in DOMAIN child :
                 child[j].k = child[i].k /\ (plan.full \/ j <= i)})>>]
    [] plan.node = "projectset" ->
         FlattenSeq([i \in DOMAIN child |->
           LET k == child[i].k
               pad(n, max) == IF n <= max THEN n ELSE Null
           IN CASE plan.srfs = 0 -> <<<<child[i]>>>>
                [] plan.srfs = 1 -> [n \in 1 .. k |-> <<child[i], n>>]
                [] plan.srfs = 2 -> [n \in 1 .. Max({k, 2}) |-> <<child[i], pad(n, k), pad(n, 2)>>]])

(* What a node has to return as a whole, where its order is not.           *)
Whole ==
  CASE plan.node = "agg" /\ plan.grouped ->
         {r \in {<<k, Aggregate({i \in DOMAIN child : child[i].k = k})>> : k \in ToSet(Keys)} :
            plan.having => r[2] >= 2}
    [] plan.node = "agg" /\ ~plan.grouped ->
         {r \in {<<Null, Aggregate(DOMAIN child)>>} : plan.having => r[2] >= 2}

Derived ==
  LET from(k) == IF k = Null THEN {k} ELSE k .. Max(Values)
  IN [x \in Values |-> Cardinality({i \in DOMAIN child : x \in from(child[i].k)})]

(* Every node returns the rows SQL defines for it, in the order it         *)
(* promises, a prefix of them before the end, and again after a rescan at  *)
(* any point: LIMIT and OFFSET, one row of each group, bags of set         *)
(* operations, merged and sorted orders with NULLs first or last,          *)
(* aggregates over NULLs and no rows at all, partitions, the closure of a  *)
(* recursion.  Two cases are left out, which the code gets wrong: ALL set  *)
(* operations with more than one copy of a key that is not the last, and   *)
(* descending merges with NULLs.                                           *)
NodesReturnRight ==
  CASE plan.node \in {"sort", "gathermerge", "incrementalsort"} ->
         \E rows \in Arrangements(child) :
           IF ended THEN out = Window(rows) ELSE IsPrefix(out, Window(rows))
    [] plan.node = "mergeappend" ->
         (plan.reverse => \A i \in DOMAIN (child \o child2) : (child \o child2)[i].k # Null)
           => InOrder(out) /\ (ended => SameBag(out, child \o child2))
    [] plan.node = "setop" ->
         (\A i \in DOMAIN Keys : i < Len(Keys) => Copies(Keys[i]) <= 1)
           => IF ended THEN out = Sequence ELSE IsPrefix(out, Sequence)
    [] plan.node = "agg" ->
         /\ IsInjective(out) /\ ToSet(out) \subseteq Whole
         /\ ended => ToSet(out) = Whole
    [] plan.node = "recursiveunion" ->
         ended => \A x \in Values : Count(x, out) = Derived[x]
    [] OTHER -> IF ended THEN out = Sequence ELSE IsPrefix(out, Sequence)

(* INTERSECT ALL and EXCEPT ALL return as many copies as                   *)
(* include/executor/node_setop.hpp says.                                   *)
SetOpCopies == plan.node = "setop" /\ ended => out = Sequence
=============================================================================
