------------------------------- MODULE Joins -------------------------------
(***************************************************************************)
(* The join nodes of the executor: src/executor/node_nestloop.cpp,         *)
(* node_mergejoin.cpp, and node_hashjoin.cpp with node_hash.cpp.           *)
(*                                                                         *)
(* A node returns one row per call of ExecProcNode and keeps its place in  *)
(* between; its parent may call ExecReScan between any two calls.  A step  *)
(* here is a part of one pass through the for(;;) of ExecProcNode: with    *)
(* pc = "loop" the call goes on, with pc = "idle" it has returned.         *)
(*                                                                         *)
(* The children deliver the rows of outer and inner, of which only the     *)
(* join key is shown.  An output row is a pair of row numbers, 0 for the   *)
(* side that is padded with NULLs.  The hash is one-to-one on keys; a NULL *)
(* inner key hashes to 0, to which no key does.                            *)
(***************************************************************************)
EXTENDS Integers, Sequences, FiniteSets, FiniteSetsExt, SequencesExt

CONSTANTS JoinKeys,     \* key values; Null among them
          MaxOuter,     \* bound: rows of the outer child
          MaxInner,     \* bound: rows of the inner child
          HashMem,      \* hash table entries that fit work_mem
          MaxRescans    \* bound: calls of ExecReScan

VARIABLES
  plan,     \* node, join type, and whether a nested loop has a qual
  outer,    \* keys of the rows the left child delivers
  inner,    \* keys of the rows the right child delivers
  lpos,     \* rows the left child has delivered since its last rescan
  rpos,     \* the same of the right child
  st,       \* the node's private state
  pc,       \* "idle" | "loop"
  out,      \* history: rows returned since the last rescan
  ended,    \* history: ExecProcNode returned nullptr
  rescans   \* number of rescans

vars == <<plan, outer, inner, lpos, rpos, st, pc, out, ended, rescans>>

Null == 0
Plans ==
  [node : {"nestloop"}, jointype : {"inner", "left"}, qual : BOOLEAN] \cup
  [node : {"mergejoin"}, jointype : {"inner", "left"}, qual : {FALSE}] \cup
  [node : {"hashjoin"}, qual : {FALSE},
   jointype : {"inner", "left", "right", "full", "semi", "anti"}]

(* The initial private state, which ExecReScan restores.                   *)
NestLoopStart == [NeedNewOuter |-> TRUE, MatchedOuter |-> FALSE, row |-> 0]

MergeJoinStart ==
  [NeedNewOuter |-> TRUE, NeedNewInner |-> TRUE, MatchedOuter |-> FALSE, row |-> 0]

HashJoinStart ==
  [phase |-> "build", hasBucket |-> FALSE, MatchedOuter |-> FALSE, row |-> 0,
   bucket |-> {}, table |-> {}, matched |-> {}, scan |-> {},
   cur_batch |-> 0, num_batches |-> 1,
   inner_batch |-> {}, outer_batch |-> <<>>, opos |-> 0]

Start ==
  CASE plan.node = "nestloop" -> NestLoopStart
    [] plan.node = "mergejoin" -> MergeJoinStart
    [] plan.node = "hashjoin" -> HashJoinStart

Sorted(keys) == \A i, j \in DOMAIN keys : i < j => keys[i] <= keys[j]

(* Any rows; those of a merge join are sorted.                             *)
Init ==
  /\ plan \in Plans
  /\ outer \in BoundedSeq(JoinKeys, MaxOuter)
  /\ inner \in BoundedSeq(JoinKeys, MaxInner)
  /\ plan.node = "mergejoin" => Sorted(outer) /\ Sorted(inner)
  /\ lpos = 0 /\ rpos = 0
  /\ st = Start
  /\ pc = "idle" /\ out = <<>> /\ ended = FALSE /\ rescans = 0

(* How a pass ends: a row is returned, nullptr is returned, or it goes on. *)
Return(o, i) == out' = Append(out, <<o, i>>) /\ pc' = "idle" /\ UNCHANGED ended
ReturnNothing == ended' = TRUE /\ pc' = "idle" /\ UNCHANGED out
Continue == pc' = "loop" /\ UNCHANGED <<out, ended>>

Running(node) == plan.node = node /\ ~ended
Fixed == UNCHANGED <<plan, outer, inner, rescans>>

-----------------------------------------------------------------------------
(* NestLoopState::ExecProcNode, a new outer row: the inner side starts     *)
(* again.                                                                  *)
NestLoopOuter ==
  /\ Running("nestloop") /\ st.NeedNewOuter
  /\ IF lpos = Len(outer)
       THEN ReturnNothing /\ UNCHANGED <<lpos, rpos, st>>
       ELSE /\ lpos' = lpos + 1 /\ rpos' = 0
            /\ st' = [NeedNewOuter |-> FALSE, MatchedOuter |-> FALSE, row |-> lpos + 1]
            /\ Continue
  /\ Fixed

(* The qual is an equality of keys, and not true when one is NULL.         *)
ExecQual(o, i) == plan.qual => outer[o] = inner[i] /\ outer[o] # Null

(* NestLoopState::ExecProcNode, the next inner row.                        *)
NestLoopInner ==
  /\ Running("nestloop") /\ ~st.NeedNewOuter
  /\ IF rpos = Len(inner)
       THEN /\ st' = [st EXCEPT !.NeedNewOuter = TRUE]
            /\ IF plan.jointype = "left" /\ ~st.MatchedOuter
                 THEN Return(st.row, 0) ELSE Continue
            /\ UNCHANGED rpos
       ELSE /\ rpos' = rpos + 1
            /\ IF ExecQual(st.row, rpos + 1)
                 THEN /\ st' = [st EXCEPT !.MatchedOuter = TRUE]
                      /\ Return(st.row, rpos + 1)
                 ELSE Continue /\ UNCHANGED st
  /\ UNCHANGED lpos /\ Fixed

-----------------------------------------------------------------------------
(* MergeJoinState::ExecProcNode, a new outer row.                          *)
MergeJoinOuter ==
  /\ Running("mergejoin") /\ st.NeedNewOuter
  /\ IF lpos = Len(outer)
       THEN ReturnNothing /\ UNCHANGED <<lpos, rpos, st>>
       ELSE /\ lpos' = lpos + 1 /\ rpos' = 0
            /\ st' = [MergeJoinStart EXCEPT !.NeedNewOuter = FALSE, !.row = lpos + 1]
            /\ Continue
  /\ Fixed

(* TuplesMatch: CompareDatumValues takes two NULLs for equal.              *)
TuplesMatch(o, i) == outer[o] = inner[i]

(* The search for a matching inner row.  mj_buffer receives the first one  *)
(* and no other, since mj_NeedNewInner is cleared: its replay is the       *)
(* return of that row.                                                     *)
MergeJoinInner ==
  LET matches == {i \in rpos + 1 .. Len(inner) : TuplesMatch(st.row, i)}
  IN /\ Running("mergejoin") /\ ~st.NeedNewOuter /\ st.NeedNewInner
     /\ IF matches = {}
          THEN /\ rpos' = Len(inner)
               /\ st' = [st EXCEPT !.NeedNewInner = FALSE, !.NeedNewOuter = TRUE]
               /\ IF plan.jointype = "left" THEN Return(st.row, 0) ELSE Continue
          ELSE /\ rpos' = Min(matches)
               /\ st' = [st EXCEPT !.NeedNewInner = FALSE, !.MatchedOuter = TRUE]
               /\ Return(st.row, Min(matches))
     /\ UNCHANGED lpos /\ Fixed

(* The buffer is exhausted: on to the next outer row.                      *)
MergeJoinExhausted ==
  /\ Running("mergejoin") /\ ~st.NeedNewOuter /\ ~st.NeedNewInner
  /\ st' = [st EXCEPT !.NeedNewOuter = TRUE]
  /\ Continue
  /\ UNCHANGED <<lpos, rpos>> /\ Fixed

-----------------------------------------------------------------------------
(* HashDatum and BatchOfHash.                                              *)
Hash(k) == k
BatchOfHash(k, n) == Hash(k) % n

(* Mutant: ExpandBatches leaves the rows it finds where they are.          *)
ExpandInPlace(s) == [s EXCEPT !.num_batches = 2]

(* ExpandBatches: rows of batch 1 move from the table to the tuplestore.   *)
(* The table has just outgrown work_mem, so two batches are enough, and    *)
(* later growth does not expand again.                                     *)
ExpandBatches(s) ==
  LET moved == {i \in s.table : BatchOfHash(inner[i], 2) = 1}
  IN [s EXCEPT !.num_batches = 2, !.table = @ \ moved,
               !.inner_batch = @ \cup moved]

(* BuildHashTable, one inner row.                                          *)
HashJoinBuild ==
  LET i == rpos + 1
      grown == [st EXCEPT !.table = @ \cup {i}]
  IN /\ Running("hashjoin") /\ st.phase = "build"
     /\ rpos < Len(inner)
     /\ rpos' = i
     /\ st' = IF BatchOfHash(inner[i], st.num_batches) = 1
                THEN [st EXCEPT !.inner_batch = @ \cup {i}]
                ELSE IF st.num_batches = 1 /\ Cardinality(grown.table) > HashMem
                THEN ExpandBatches(grown) ELSE grown
     /\ Continue
     /\ UNCHANGED lpos /\ Fixed

HashJoinBuilt ==
  /\ Running("hashjoin") /\ st.phase = "build"
  /\ rpos = Len(inner)
  /\ st' = [st EXCEPT !.phase = "probe"]
  /\ Continue
  /\ UNCHANGED <<lpos, rpos>> /\ Fixed

(* Phase A: the next entry of the bucket.  A semi join returns the outer   *)
(* row and leaves the bucket, an anti join only leaves it.                 *)
HashJoinBucket ==
  /\ Running("hashjoin") /\ st.phase = "probe"
  /\ st.hasBucket
  /\ \E i \in st.bucket :
       LET found == [st EXCEPT !.matched = @ \cup {i}, !.bucket = @ \ {i},
                               !.MatchedOuter = TRUE]
       IN CASE plan.jointype = "semi" ->
                 Return(st.row, 0) /\ st' = [found EXCEPT !.hasBucket = FALSE]
            [] plan.jointype = "anti" ->
                 Continue /\ st' = [found EXCEPT !.hasBucket = FALSE]
            [] OTHER -> Return(st.row, i) /\ st' = found
  /\ UNCHANGED <<lpos, rpos>> /\ Fixed

(* The bucket is exhausted.                                                *)
HashJoinBucketEnd ==
  /\ Running("hashjoin") /\ st.phase = "probe"
  /\ st.hasBucket /\ st.bucket = {}
  /\ st' = [st EXCEPT !.hasBucket = FALSE]
  /\ IF plan.jointype \in {"anti", "left", "full"} /\ ~st.MatchedOuter
       THEN Return(st.row, 0) ELSE Continue
  /\ UNCHANGED <<lpos, rpos>> /\ Fixed

(* LoadNextBatch: the table is cleared and filled from the tuplestore.     *)
LoadNextBatch(s) ==
  IF s.cur_batch + 1 >= s.num_batches
    THEN [s EXCEPT !.phase = "done"]
    ELSE [s EXCEPT !.phase = "probe", !.cur_batch = @ + 1,
                   !.table = s.inner_batch, !.matched = {}, !.opos = 0]

(* Phase B: the next outer row, of the child or of the batch's tuplestore. *)
HashJoinOuter ==
  LET fromChild == st.cur_batch = 0
      atEnd == IF fromChild THEN lpos = Len(outer) ELSE st.opos = Len(st.outer_batch)
      o == IF fromChild THEN lpos + 1 ELSE st.outer_batch[st.opos + 1]
      fetched == [st EXCEPT !.row = o, !.MatchedOuter = FALSE,
                            !.opos = IF fromChild THEN @ ELSE @ + 1]
      batch == BatchOfHash(outer[o], st.num_batches)
  IN /\ Running("hashjoin") /\ st.phase = "probe" /\ ~st.hasBucket
     /\ IF atEnd
          THEN /\ st' = IF plan.jointype \in {"right", "full"}
                          THEN [st EXCEPT !.phase = "scan", !.scan = st.table \ st.matched]
                          ELSE LoadNextBatch(st)
               /\ Continue
               /\ UNCHANGED lpos
          ELSE /\ lpos' = IF fromChild THEN lpos + 1 ELSE lpos
               /\ IF outer[o] = Null
                    THEN /\ st' = fetched
                         /\ IF plan.jointype \in {"anti", "left", "full"}
                              THEN Return(o, 0) ELSE Continue
                    ELSE /\ Continue
                         /\ st' = IF batch # st.cur_batch
                              THEN [fetched EXCEPT !.outer_batch = Append(@, o)]
                              ELSE [fetched EXCEPT !.hasBucket = TRUE,
                                      !.bucket = {i \in st.table : inner[i] = outer[o]}]
     /\ UNCHANGED rpos /\ Fixed

(* ScanUnmatched, for a right or full join, in the order of the table.     *)
HashJoinScanUnmatched ==
  /\ Running("hashjoin") /\ st.phase = "scan"
  /\ IF st.scan = {} THEN st' = LoadNextBatch(st) /\ Continue
     ELSE \E i \in st.scan : Return(0, i) /\ st' = [st EXCEPT !.scan = @ \ {i}]
  /\ UNCHANGED <<lpos, rpos>> /\ Fixed

HashJoinDone ==
  /\ Running("hashjoin") /\ st.phase = "done"
  /\ ReturnNothing
  /\ UNCHANGED <<lpos, rpos, st>> /\ Fixed

-----------------------------------------------------------------------------
(* ExecReScan of the three nodes; a hash join also resets its batches.     *)
ExecReScan ==
  /\ pc = "idle" /\ rescans < MaxRescans
  /\ rescans' = rescans + 1
  /\ lpos' = 0 /\ rpos' = 0
  /\ st' = Start
  /\ out' = <<>> /\ ended' = FALSE
  /\ UNCHANGED <<plan, outer, inner, pc>>

Next ==
  \/ NestLoopOuter \/ NestLoopInner
  \/ MergeJoinOuter \/ MergeJoinInner \/ MergeJoinExhausted
  \/ HashJoinBuild \/ HashJoinBuilt \/ HashJoinBucket \/ HashJoinBucketEnd
  \/ HashJoinOuter \/ HashJoinScanUnmatched \/ HashJoinDone
  \/ ExecReScan

Spec == Init /\ [][Next]_vars

(***************************************************************************)
(* Properties                                                              *)
(***************************************************************************)
Pairs ==
  {p \in (DOMAIN outer) \X (DOMAIN inner) :
     \/ plan.node = "nestloop" /\ ~plan.qual
     \/ outer[p[1]] = inner[p[2]] /\ outer[p[1]] # Null}
LoneOuter == {o \in DOMAIN outer : \A p \in Pairs : p[1] # o}
LoneInner == {i \in DOMAIN inner : \A p \in Pairs : p[2] # i}

(* The rows SQL defines for the join.                                      *)
JoinRows ==
  CASE plan.jointype = "inner" -> Pairs
    [] plan.jointype = "left"  -> Pairs \cup (LoneOuter \X {0})
    [] plan.jointype = "right" -> Pairs \cup ({0} \X LoneInner)
    [] plan.jointype = "full"  -> Pairs \cup (LoneOuter \X {0}) \cup ({0} \X LoneInner)
    [] plan.jointype = "semi"  -> {p[1] : p \in Pairs} \X {0}
    [] plan.jointype = "anti"  -> LoneOuter \X {0}

Complete ==
  /\ IsInjective(out) /\ ToSet(out) \subseteq JoinRows
  /\ ended => ToSet(out) = JoinRows

(* Every join delivers the rows SQL defines, each once: with NULL keys and *)
(* duplicates on both sides, with rows spilled to the second batch before, *)
(* during and after the table outgrows its memory, and after a rescan at   *)
(* any point.  Of a merge join this is claimed where the inner keys are    *)
(* distinct and not NULL.                                                  *)
JoinsComplete ==
  (plan.node = "mergejoin" => IsInjective(inner) /\ Null \notin ToSet(inner)) => Complete

(* The same of merge joins with repeated inner keys: "all matching inner   *)
(* tuples are buffered and replayed for each outer tuple with the same     *)
(* key" (src/executor/node_mergejoin.cpp).                                 *)
MergeJoinComplete ==
  plan.node = "mergejoin" /\ Null \notin ToSet(inner) => Complete
=============================================================================
