----------------------------- MODULE TupleSort -----------------------------
(***************************************************************************)
(* The external merge sort (src/utils/sort/tuplesort.cpp) behind Sort,     *)
(* IncrementalSort and GatherMerge.  A plan may hold several sorters in    *)
(* one process, a merge join over two Sorts for instance, and an operation *)
(* of one falls between any two of another.  Their runs are files in one   *)
(* directory, named after the process and a number that each sorter        *)
(* counts from 0.                                                          *)
(*                                                                         *)
(* A row is a sort key with an identity.  A run is written out at once:    *)
(* runs have the size of work_mem, far beyond a stdio buffer.              *)
(***************************************************************************)
EXTENDS Integers, Sequences, Functions

CONSTANTS Sorters,
          SortKeys,    \* the key values of the rows of each sorter
          WorkMem,     \* rows kept in memory before a run is dumped
          MaxRows,     \* bound: rows put into each sorter
          MaxRuns,     \* bound: runs of a sorter
          Files,       \* bound: files that exist at a time
          MaxRescans   \* bound: sorters thrown away and built again

ASSUME SortAssumption ==
  /\ WorkMem \in Nat /\ MaxRuns \in Nat /\ 0 \notin Files
  /\ \A s \in Sorters : SortKeys[s] \subseteq Nat /\ MaxRows[s] \in 0 .. MaxRuns

VARIABLES
  order,      \* the SortKey: reverse, nulls_first
  mem,        \* mem_tuples_
  sorted,     \* state_ = kSorted
  tapes,      \* tapes_: path and file of each run
  heap,       \* merge_heap_, with the read position of each tape
  dir,        \* path -> file, or NoFile
  data,       \* contents of the files
  rescans,    \* number of rescans
  input,      \* history: rows put since the sorter was built
  output,     \* history: rows returned
  ended,      \* history: GetTuple returned nullptr
  disturbed   \* history: sorters with a run that another one truncated

sortVars == <<order, mem, sorted, tapes, heap, dir, data, rescans,
              input, output, ended, disturbed>>

Null == 0
NoFile == 0
Paths == 0 .. MaxRuns - 1

SortInit ==
  /\ order \in [reverse : BOOLEAN, nulls_first : BOOLEAN]
  /\ mem = [s \in Sorters |-> <<>>]
  /\ sorted = [s \in Sorters |-> FALSE]
  /\ tapes = [s \in Sorters |-> <<>>]
  /\ heap = [s \in Sorters |-> <<>>]
  /\ dir = [p \in Paths |-> NoFile]
  /\ data = [f \in Files |-> <<>>]
  /\ rescans = 0
  /\ input = [s \in Sorters |-> <<>>]
  /\ output = [s \in Sorters |-> <<>>]
  /\ ended = [s \in Sorters |-> FALSE]
  /\ disturbed = {}

(* Compare(a, b) < 0: reverse turns the values round, never the NULLs.     *)
Before(a, b) ==
  IF a.k = Null \/ b.k = Null
    THEN IF order.nulls_first THEN a.k = Null /\ b.k # Null
                              ELSE a.k # Null /\ b.k = Null
    ELSE IF order.reverse THEN b.k < a.k ELSE a.k < b.k

Ordered(rows) == \A i, j \in DOMAIN rows : i < j => ~Before(rows[j], rows[i])

(* SortInMemory: std::sort is not stable, so any ordered arrangement.      *)
SortInMemory(rows) ==
  {arranged \in {[i \in DOMAIN rows |-> rows[p[i]]] :
                   p \in Bijection(DOMAIN rows, DOMAIN rows)} :
     Ordered(arranged)}

OpenFiles(s) == {tapes[s][i].file : i \in DOMAIN tapes[s]}

(* MakeTempPath and the tape's fopen("w+b"), which truncates a file of     *)
(* that name; then one WriteTuple for each row of the run.                 *)
WriteRun(s, run) ==
  LET path == Len(tapes[s])
      free == Files \ ({dir[p] : p \in Paths} \cup UNION {OpenFiles(t) : t \in Sorters})
      file == IF dir[path] # NoFile THEN dir[path] ELSE CHOOSE f \in free : TRUE
  IN /\ dir[path] # NoFile \/ free # {}
     /\ tapes' = [tapes EXCEPT ![s] =
                    Append(@, [path |-> path, file |-> file])]
     /\ dir' = [dir EXCEPT ![path] = file]
     /\ data' = [data EXCEPT ![file] = run]
     /\ disturbed' = disturbed \cup
          {t \in Sorters : file \in OpenFiles(t)}

(* PutTuple, with DumpRun once the memory is exceeded.                     *)
PutTuple(s, k) ==
  LET row  == [k |-> k, id |-> Len(input[s]) + 1, of |-> s]
      rows == Append(mem[s], row)
  IN /\ ~sorted[s]
     /\ Len(input[s]) < MaxRows[s]
     /\ input' = [input EXCEPT ![s] = Append(@, row)]
     /\ IF Len(rows) > WorkMem
          THEN /\ \E run \in SortInMemory(rows) : WriteRun(s, run)
               /\ mem' = [mem EXCEPT ![s] = <<>>]
          ELSE /\ mem' = [mem EXCEPT ![s] = rows]
               /\ UNCHANGED <<tapes, dir, data, disturbed>>
     /\ UNCHANGED <<order, sorted, heap, rescans, output, ended>>

(* The members of a set of numbers up to n, in increasing order.           *)
Increasing(S, n) ==
  CHOOSE q \in UNION {[1 .. m -> S] : m \in 0 .. n} :
    /\ \A i, j \in DOMAIN q : i < j => q[i] < q[j]
    /\ S \subseteq Range(q)

(* The contents of a sorter's tapes.                                       *)
Runs(s) == [i \in DOMAIN tapes[s] |-> data[tapes[s][i].file]]

(* BeginMerge: rewind every tape and read its first row, if there is one,  *)
(* into the heap.                                                          *)
FirstHeads(runs) ==
  LET source == Increasing({i \in DOMAIN runs : runs[i] # <<>>}, Len(runs)) IN
  [a \in DOMAIN source |->
     [source |-> source[a], row |-> runs[source[a]][1], next |-> 2]]

BeginMerge(s) == heap' = [heap EXCEPT ![s] = FirstHeads(Runs(s)')]

(* Mutant: the rows still in memory are not written before the merge.      *)
ForgetLastRun(s) ==
  /\ ~sorted[s]
  /\ sorted' = [sorted EXCEPT ![s] = TRUE]
  /\ UNCHANGED <<tapes, dir, data, disturbed>>
  /\ IF tapes[s] = <<>>
       THEN /\ \E rows \in SortInMemory(mem[s]) : mem' = [mem EXCEPT ![s] = rows]
            /\ UNCHANGED heap
       ELSE BeginMerge(s) /\ mem' = [mem EXCEPT ![s] = <<>>]
  /\ UNCHANGED <<order, rescans, input, output, ended>>

PerformSort(s) ==
  /\ ~sorted[s]
  /\ sorted' = [sorted EXCEPT ![s] = TRUE]
  /\ \E rows \in SortInMemory(mem[s]) :
       IF tapes[s] = <<>>
         THEN /\ mem' = [mem EXCEPT ![s] = rows]
              /\ UNCHANGED <<tapes, dir, data, disturbed, heap>>
         ELSE /\ IF rows = <<>> THEN UNCHANGED <<tapes, dir, data, disturbed>>
                                ELSE WriteRun(s, rows)
              /\ mem' = [mem EXCEPT ![s] = <<>>]
              /\ BeginMerge(s)
  /\ UNCHANGED <<order, rescans, input, output, ended>>

(* GetTuple from memory: mem_output_index_ is the number of rows returned. *)
GetTupleFromMemory(s) ==
  /\ sorted[s] /\ tapes[s] = <<>>
  /\ IF Len(output[s]) < Len(mem[s])
       THEN /\ output' = [output EXCEPT ![s] = Append(@, mem[s][Len(@) + 1])]
            /\ UNCHANGED ended
       ELSE /\ ended' = [ended EXCEPT ![s] = TRUE]
            /\ UNCHANGED output
  /\ UNCHANGED <<order, mem, sorted, tapes, heap, dir, data, rescans, input, disturbed>>

(* GetTupleFromMerge: the first of the smallest heads; its tape delivers   *)
(* the next one, or its place is taken by the last head.                   *)
Least(h) ==
  CHOOSE i \in DOMAIN h : /\ \A j \in DOMAIN h : ~Before(h[j].row, h[i].row)
                         /\ \A j \in 1 .. i - 1 : Before(h[i].row, h[j].row)

Moved(h, min, rows) ==
  IF h[min].next <= Len(rows)
    THEN [h EXCEPT ![min] =
            [source |-> @.source, row |-> rows[@.next], next |-> @.next + 1]]
    ELSE SubSeq([h EXCEPT ![min] = h[Len(h)]], 1, Len(h) - 1)

GetTupleFromMerge(s) ==
  /\ sorted[s] /\ tapes[s] # <<>>
  /\ IF heap[s] = <<>>
       THEN /\ ended' = [ended EXCEPT ![s] = TRUE]
            /\ UNCHANGED <<heap, output>>
       ELSE LET min == Least(heap[s])
                rows == Runs(s)[heap[s][min].source]
            IN /\ output' = [output EXCEPT ![s] = Append(@, heap[s][min].row)]
               /\ heap' = [heap EXCEPT ![s] = Moved(@, min, rows)]
               /\ UNCHANGED ended
  /\ UNCHANGED <<order, mem, sorted, tapes, dir, data, rescans, input, disturbed>>

(* ExecReScan of the node: the destructor closes each tape and removes its *)
(* path, whoever's file that is by now, and a new sorter is built.         *)
ReScan(s) ==
  LET others == UNION {OpenFiles(t) : t \in Sorters \ {s}} IN
  /\ rescans < MaxRescans
  /\ rescans' = rescans + 1
  /\ dir' = [p \in Paths |-> IF p < Len(tapes[s]) THEN NoFile ELSE dir[p]]
  /\ mem' = [mem EXCEPT ![s] = <<>>]
  /\ sorted' = [sorted EXCEPT ![s] = FALSE]
  /\ tapes' = [tapes EXCEPT ![s] = <<>>]
  /\ heap' = [heap EXCEPT ![s] = <<>>]
  /\ input' = [input EXCEPT ![s] = <<>>]
  /\ output' = [output EXCEPT ![s] = <<>>]
  /\ ended' = [ended EXCEPT ![s] = FALSE]
  /\ disturbed' = disturbed \ {s}
  /\ data' = [f \in Files |-> IF f \in others THEN data[f] ELSE <<>>]
  /\ UNCHANGED order

SortNext ==
  \E s \in Sorters :
    \/ \E k \in SortKeys[s] : PutTuple(s, k)
    \/ PerformSort(s)
    \/ GetTupleFromMemory(s)
    \/ GetTupleFromMerge(s)
    \/ ReScan(s)

SortSpec == SortInit /\ [][SortNext]_sortVars

(***************************************************************************)
(* Properties                                                              *)
(***************************************************************************)
SortedAll(s) ==
  /\ Ordered(output[s])
  /\ IsInjective(output[s])
  /\ Range(output[s]) \subseteq Range(input[s])
  /\ ended[s] => Range(output[s]) = Range(input[s])

(* What GetTuple returns is in order, and by the end it is every row that  *)
(* PutTuple took, once, whether the rows stayed in memory, were spilled in *)
(* some runs or all, and whatever an earlier scan left behind: as long as  *)
(* no other sorter opened a run of the same number meanwhile.              *)
UndisturbedSortsAll == \A s \in Sorters \ disturbed : SortedAll(s)

(* The same of every sorter, as "Create a unique temp file path" promises. *)
SortsAll == \A s \in Sorters : SortedAll(s)

-----------------------------------------------------------------------------
(* The inductive invariant of the proofs (module SortProofs).              *)

Rows == [k : Nat, id : Nat, of : Sorters]

(* The rows of some runs.                                                  *)
InRuns(runs) == UNION {Range(runs[i]) : i \in DOMAIN runs}

IsRun(rows) == rows \in Seq(Rows) /\ Ordered(rows) /\ IsInjective(rows)

SortedRuns(runs) ==
  /\ \A i \in DOMAIN runs : IsRun(runs[i]) /\ runs[i] # <<>>
  /\ \A i, j \in DOMAIN runs : i # j => Range(runs[i]) \cap Range(runs[j]) = {}

(* The rows that a merge with these heads has not returned.                *)
RowsLeft(h, runs) ==
  UNION {{runs[h[a].source][j] : j \in h[a].next - 1 .. Len(runs[h[a].source])} :
           a \in DOMAIN h}

(* Before PerformSort every row is in memory or in one run ...             *)
Collecting(m, runs, put, got, end) ==
  /\ IsInjective(m) /\ Range(m) \cap InRuns(runs) = {}
  /\ Range(put) = Range(m) \cup InRuns(runs)
  /\ got = <<>> /\ ~end

(* ... after it, the sorted memory is read from its start ...              *)
FromMemory(m, put, got, end) ==
  /\ IsRun(m) /\ Range(m) = Range(put)
  /\ got \in Seq(Rows) /\ Len(got) <= Len(m) /\ \A i \in DOMAIN got : got[i] = m[i]
  /\ end => Len(got) = Len(m)

(* ... or the runs are merged: each head is a row of a tape of its own,    *)
(* and no row left comes before one returned.                              *)
HeadRows == [source : Nat, row : Rows, next : Nat]

Heads(h, runs) ==
  /\ \A a \in DOMAIN h :
       /\ h[a].source \in DOMAIN runs
       /\ h[a].next - 1 \in DOMAIN runs[h[a].source]
       /\ h[a].row = runs[h[a].source][h[a].next - 1]
  /\ \A a, b \in DOMAIN h : a # b => h[a].source # h[b].source

Merging(h, runs, put, got, end) ==
  /\ h \in Seq(HeadRows) /\ Heads(h, runs)
  /\ IsRun(got)
  /\ Range(put) = Range(got) \cup RowsLeft(h, runs)
  /\ Range(got) \cap RowsLeft(h, runs) = {}
  /\ \A g \in Range(got), r \in RowsLeft(h, runs) : ~Before(r, g)
  /\ end => h = <<>>

Sound(m, done, h, runs, put, got, end) ==
  /\ \A i \in DOMAIN put : put[i].id = i
  /\ SortedRuns(runs)
  /\ IF ~done THEN Collecting(m, runs, put, got, end)
     ELSE IF runs = <<>> THEN FromMemory(m, put, got, end)
     ELSE Merging(h, runs, put, got, end)

SortTypes ==
  /\ order \in [reverse : BOOLEAN, nulls_first : BOOLEAN]
  /\ mem \in [Sorters -> Seq(Rows)] /\ sorted \in [Sorters -> BOOLEAN]
  /\ tapes \in [Sorters -> Seq([path : Paths, file : Files])]
  /\ DOMAIN heap = Sorters /\ DOMAIN output = Sorters
  /\ dir \in [Paths -> Files \cup {NoFile}] /\ data \in [Files -> Seq(Rows)]
  /\ input \in [Sorters -> Seq(Rows)]
  /\ ended \in [Sorters -> BOOLEAN] /\ disturbed \subseteq Sorters

(* A sorter has no more runs than rows.                                    *)
FewRuns(s) ==
  /\ Len(input[s]) <= MaxRows[s]
  /\ ~sorted[s] => Len(tapes[s]) + Len(mem[s]) <= Len(input[s])

(* The tapes of a sorter that is not disturbed are files of its own.       *)
OwnFiles(s) ==
  \A i, j \in DOMAIN tapes[s] : i # j => tapes[s][i].file # tapes[s][j].file

SortInv ==
  /\ SortTypes
  /\ \A s \in Sorters : FewRuns(s)
  /\ \A s \in Sorters \ disturbed :
       /\ OwnFiles(s)
       /\ Sound(mem[s], sorted[s], heap[s], Runs(s), input[s], output[s], ended[s])
=============================================================================
