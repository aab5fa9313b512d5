---------------------------- MODULE MCStorage -------------------------------
(***************************************************************************)
(* The parts below the executor side by side: a behaviour is that of the   *)
(* commit log over restarts (Restart, whose own variables and constants    *)
(* this module has), of the buffer pool, an index, a page of a table or of *)
(* an index, the write-ahead log, or the SLRU logs. v1, v2, ... are the    *)
(* variables of the part, in the order of its declaration.                 *)
(***************************************************************************)
EXTENDS Restart, Sequences, TLC

CONSTANTS t1, t2, t3,        \* pages of the buffer pool
          Handles, Values,   \* its pins and the contents of its pages
          p1, b1, b2         \* processes

VARIABLES
  active,   \* the part that runs
  v1, v2, v3, v4, v5, v6, v7, v8, v9, v10, v11, v12, v13, v14, v15, v16, v17,
  v18, v19

From12 == <<v12, v13, v14, v15, v16, v17, v18, v19>>
From10 == <<v10, v11, From12>>
From7 == <<v7, v8, v9, From10>>
From6 == <<v6, From7>>
From3 == <<v3, v4, v5, From6>>
From1 == <<v1, v2, From3>>
mcVars == <<active, vars, From1>>

(* The variables from the i-th on have no part in this behaviour.          *)
Idle12 ==
  /\ v12 = 0 /\ v13 = 0 /\ v14 = 0 /\ v15 = 0
  /\ v16 = 0 /\ v17 = 0 /\ v18 = 0 /\ v19 = 0
Idle10 == v10 = 0 /\ v11 = 0 /\ Idle12
Idle7 == v7 = 0 /\ v8 = 0 /\ v9 = 0 /\ Idle10
Idle6 == v6 = 0 /\ Idle7
Idle3 == v3 = 0 /\ v4 = 0 /\ v5 = 0 /\ Idle6
Idle1 == v1 = 0 /\ v2 = 0 /\ Idle3

(* Home slots of the mapping table, and partitions, of the three pages.    *)
Spread == t1 :> 0 @@ t2 :> 2 @@ t3 :> 3
Partitions == t1 :> 0 @@ t2 :> 1 @@ t3 :> 2

(* Sizes an index tuple may be overwritten with.                           *)
Overwrites == 2 :> {2} @@ 3 :> {3} @@ 4 :> {3, 4}

Symmetric == Permutations(Handles) \cup Permutations(Values)

Buf == INSTANCE BufMgr WITH
  Backends <- {p1}, Handles <- Handles, Tags <- {t1, t2, t3}, NBuffers <- 2,
  HashTableSize <- 4, HashTableSlot <- Spread, Partition <- Partitions,
  kMaxUsageCount <- 1, Values <- Values, MaxFailures <- 1,
  tag <- v1, valid <- v2, dirty <- v3, refcount <- v4, usage <- v5,
  free_next <- v6, first_free <- v7, clock_hand <- v8, table <- v9,
  page <- v10, disk <- v11, lock <- v12, pc <- v13, want <- v14, var <- v15,
  victim <- v16, hold <- v17, memory <- v18, failed <- v19

BT == INSTANCE BTree WITH
  Keys <- {1, 2, 3}, LeafItems <- 2, RootItems <- 3, MaxInserts <- 4,
  meta_root <- v1, pages <- v2, scan <- v3, inserted <- v4, unsorted <- v5

AM == INSTANCE IndexAM WITH
  Methods <- {"hash", "gin", "gist", "spgist", "brin"}, Keys <- 0 .. 3,
  KeyBits <- 2, PageItems <- 2, NBuckets <- 2, Blocks <- {0, 1},
  pages_per_range <- 1, MaxInserts <- 4,
  am <- v1, pages <- v2, nblocks <- v3, inserted <- v4, calls <- v5,
  spoilt <- v6

T == INSTANCE Table WITH
  PageSize <- 14, kItemAlign <- 2, Sizes <- {2, 3}, MaxRows <- 3,
  MaxStatements <- 6,
  heap <- v1, stmt <- v2, scan <- v3, curcid <- v4, rows <- v5,
  statements <- v6, live <- v7, target <- v8, touched <- v9

IP == INSTANCE IndexPage WITH
  PageSize <- 10, kItemAlign <- 2, EntrySizes <- {2, 3},
  OverwriteSizes <- Overwrites,
  index <- v1, entries <- v2

W == INSTANCE Wal WITH
  Procs <- {b1, b2}, MaxRecords <- 2, MaxStarts <- 3,
  file <- v1, synced <- v2, buffer <- v3, insert <- v4, up <- v5,
  records <- v6, starts <- v7, flushed <- v8, torn <- v9

L == INSTANCE Slru WITH
  Capacity <- 1, PerPage <- 2, Xids <- {1, 2}, Statuses <- {1},
  Times <- {1, 2}, MaxMulti <- 3, MaxCrashes <- 2,
  use <- v1, stamps <- v2, offsets <- v3, members <- v4, next <- v5,
  control <- v6, flushing <- v7, crashes <- v8, created <- v9, stamped <- v10,
  kept <- v11

MCInit ==
  \/ active = "restart" /\ Init /\ Idle1
  \/ active = "buffers" /\ Buf!Init /\ Init
  \/ active = "btree" /\ BT!Init /\ Idle6 /\ Init
  \/ active = "index" /\ AM!Init /\ Idle7 /\ Init
  \/ active = "table" /\ T!Init /\ Idle10 /\ Init
  \/ active = "index page" /\ IP!Init /\ Idle3 /\ Init
  \/ active = "wal" /\ W!Init /\ Idle10 /\ Init
  \/ active = "slru" /\ L!Init /\ Idle12 /\ Init

MCNext ==
  /\ \/ active = "restart" /\ Next /\ UNCHANGED From1
     \/ active = "buffers" /\ Buf!Next /\ UNCHANGED vars
     \/ active = "btree" /\ BT!Next /\ UNCHANGED <<vars, From6>>
     \/ active = "index" /\ AM!Next /\ UNCHANGED <<vars, From7>>
     \/ active = "table" /\ T!Next /\ UNCHANGED <<vars, From10>>
     \/ active = "index page" /\ IP!Next /\ UNCHANGED <<vars, From3>>
     \/ active = "wal" /\ W!Next /\ UNCHANGED <<vars, From10>>
     \/ active = "slru" /\ L!Next /\ UNCHANGED <<vars, From12>>
  /\ UNCHANGED active

MCSpec == MCInit /\ [][MCNext]_mcVars

(* BufMgr's Coherent and PinsKeep: a pinned buffer keeps its page, and a   *)
(* valid one holds what was last written to that page, through eviction,   *)
(* write-back and failed reads.                                            *)
BuffersCoherent == active = "buffers" => Buf!Coherent /\ Buf!PinsKeep

(* BTree's TreeOrdered and ScanFindsAll: splits lose no entry and keep the *)
(* leaves in order, and a scan survives inserts between its fetches.       *)
(* IndexAM's IndexMissesNothing and EqualIsExact: a scan of the other      *)
(* methods returns all that was inserted and matches, an equality scan     *)
(* nothing else.                                                           *)
IndexesRight ==
  /\ active = "btree" => BT!TreeOrdered /\ BT!ScanFindsAll
  /\ active = "index" => AM!IndexMissesNothing /\ AM!EqualIsExact

(* Table's RowsIntact and IndexPage's EntriesIntact: compaction, pruning,  *)
(* deletes and overwrites leave every live tuple where its line pointer    *)
(* says, unharmed.                                                         *)
PagesIntact ==
  /\ active = "table" => T!RowsIntact
  /\ active = "index page" => IP!EntriesIntact

(* Wal's FlushedReplayed and Slru's LogsKept: replay after a crash applies *)
(* the flushed records in their order; eviction, flushing and a crash in   *)
(* the middle of it lose no member of a MultiXact that counts and no       *)
(* flushed timestamp.                                                      *)
LogsRight ==
  /\ active = "wal" => W!FlushedReplayed
  /\ active = "slru" => L!LogsKept
=============================================================================
