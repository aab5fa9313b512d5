------------------------------- MODULE BufMgr ------------------------------
(***************************************************************************)
(* The shared buffer pool: src/storage/buffer/bufmgr.cpp and freelist.cpp, *)
(* over the blocks of src/storage/smgr/md.cpp.                             *)
(*                                                                         *)
(* A page is identified by its tag.  The pool finds it through an open-    *)
(* addressing hash table, replaces pages by a clock sweep, and protects    *)
(* the table with partition locks and the sweep with the freelist lock.    *)
(* ReadBuffer holds one partition lock throughout but neither pins nor     *)
(* locks the buffer it has chosen as victim until InsertBuffer, so its     *)
(* parts are steps of their own.  What happens under the freelist lock is  *)
(* one step, as is a section under a partition lock that does no I/O.      *)
(*                                                                         *)
(* The callers follow the interface: they touch a page only through a      *)
(* buffer they have pinned, mark it dirty before they release it, and      *)
(* discard pages only while they hold no buffer.                           *)
(***************************************************************************)
EXTENDS Integers, FiniteSets

CONSTANTS Backends,       \* processes attached to the pool
          Handles,        \* the Buffer variables of a process
          Tags,           \* pages (BufferTag)
          NBuffers,       \* n_buffers_
          HashTableSize,  \* hash_table_size_
          HashTableSlot,  \* the home slot of each tag
          Partition,      \* BufMappingPartition of each tag
          kMaxUsageCount, \* 5 in the source
          Values,         \* page images
          MaxFailures     \* bound: reads that fail with an I/O error

Buffers == 0 .. NBuffers - 1
Slots   == 0 .. HashTableSize - 1
Parts   == {Partition[t] : t \in Tags}
None    == "none"

VARIABLES
  tag,        \* desc.tag, None when not kBMTagged
  valid,      \* kBMValid
  dirty,      \* kBMDirty
  refcount,   \* desc.refcount
  usage,      \* desc.usage_count
  free_next,  \* desc.free_next
  first_free, \* head of the freelist
  clock_hand, \* next buffer the sweep looks at
  table,      \* hash_table_: slot -> buffer and tag
  page,       \* the pool's copy of each page
  disk,       \* the relation files
  lock,       \* partition locks: who holds each one how many times
  pc,         \* where a process is in ReadBuffer
  want,       \* the tag it reads
  var,        \* the handle that gets the buffer
  victim,     \* victim_id
  hold,       \* what each handle of a process holds: buffer and tag
  memory,     \* history: the image last written to each page
  failed      \* history: pages whose read has failed, in order of failure

pool  == <<tag, valid, dirty, refcount, usage, free_next, first_free,
           clock_hand, table, page>>
local == <<pc, want, var, victim>>
vars  == <<pool, disk, lock, local, hold, memory, failed>>

Empty    == [tag |-> None, buf |-> -1]
NoHandle == [buf |-> -1, tag |-> None, touched |-> FALSE]

TypeOK ==
  /\ tag \in [Buffers -> Tags \cup {None}]
  /\ valid \in [Buffers -> BOOLEAN] /\ dirty \in [Buffers -> BOOLEAN]
  /\ refcount \in [Buffers -> Nat]
  /\ usage \in [Buffers -> 0 .. kMaxUsageCount]
  /\ free_next \in [Buffers -> Buffers \cup {-1}]
  /\ first_free \in Buffers \cup {-1} /\ clock_hand \in Buffers
  /\ table \in [Slots -> [tag : Tags, buf : Buffers] \cup {Empty}]
  /\ page \in [Buffers -> Values] /\ disk \in [Tags -> Values]
  /\ lock \in [Parts -> [by : Backends \cup {None}, n : Nat]]
  /\ pc \in [Backends -> {"idle", "victim", "flush", "insert", "read"}]
  /\ want \in [Backends -> Tags \cup {None}]
  /\ var \in [Backends -> Handles \cup {None}]
  /\ victim \in [Backends -> Buffers \cup {-1}]
  /\ hold \in [Backends -> [Handles ->
        [buf : Buffers, tag : Tags, touched : BOOLEAN] \cup {NoHandle}]]
  /\ memory \in [Tags -> Values]
  /\ failed \subseteq Tags

(* InitBufferPool on a cluster whose files hold some image of each page.   *)
Init ==
  /\ \E v \in Values :
       /\ page = [b \in Buffers |-> v]
       /\ disk = [t \in Tags |-> v]
       /\ memory = [t \in Tags |-> v]
  /\ tag = [b \in Buffers |-> None]
  /\ valid = [b \in Buffers |-> FALSE]
  /\ dirty = [b \in Buffers |-> FALSE]
  /\ refcount = [b \in Buffers |-> 0]
  /\ usage = [b \in Buffers |-> 0]
  /\ free_next = [b \in Buffers |-> IF b + 1 \in Buffers THEN b + 1 ELSE -1]
  /\ first_free = 0
  /\ clock_hand = 0
  /\ table = [s \in Slots |-> Empty]
  /\ lock = [x \in Parts |-> [by |-> None, n |-> 0]]
  /\ pc = [p \in Backends |-> "idle"]
  /\ want = [p \in Backends |-> None]
  /\ var = [p \in Backends |-> None]
  /\ victim = [p \in Backends |-> -1]
  /\ hold = [p \in Backends |-> [h \in Handles |-> NoHandle]]
  /\ failed = {}

Goto(p, label) == pc' = [pc EXCEPT ![p] = label]

(* ReadBuffer returns or raises an error: its local variables are gone.    *)
Leave(p) ==
  /\ Goto(p, "idle")
  /\ want' = [want EXCEPT ![p] = None]
  /\ var' = [var EXCEPT ![p] = None]
  /\ victim' = [victim EXCEPT ![p] = -1]

-----------------------------------------------------------------------------
(* Partition locks.  LWLockAcquire by the holder only counts; an error in  *)
(* smgrread leaves the lock held, since nothing releases it.               *)

CanAcquire(p, x) == lock[x].by \in {None, p}

Acquire(p, x) == lock' = [lock EXCEPT ![x] = [by |-> p, n |-> @.n + 1]]

Release(p, x) ==
  lock' = [lock EXCEPT ![x] = IF @.n = 1 THEN [by |-> None, n |-> 0]
                              ELSE [@ EXCEPT !.n = @ - 1]]

-----------------------------------------------------------------------------
(* The hash table, by linear probing.  A deleted entry becomes an empty    *)
(* slot, which ends the probe sequences that run through it.               *)

Probe(t, i) == (HashTableSlot[t] + i) % HashTableSize

(* The number of probes after which the search for t in tab stops: at an   *)
(* empty slot or at t.  There is always one, as the table has more slots   *)
(* than the pool has buffers.                                              *)
Stops(tab, t) ==
  {i \in 0 .. HashTableSize - 1 : tab[Probe(t, i)].tag \in {None, t}}

ProbeEnd(tab, t) ==
  Probe(t, CHOOSE i \in Stops(tab, t) : \A j \in Stops(tab, t) : i <= j)

LookupBuffer(tab, t) == tab[ProbeEnd(tab, t)].buf

HashTableDelete(tab, t) ==
  IF t = None THEN tab ELSE [tab EXCEPT ![ProbeEnd(tab, t)] = Empty]

HashTableInsert(tab, t, b) ==
  [tab EXCEPT ![ProbeEnd(tab, t)] = [tag |-> t, buf |-> b]]

-----------------------------------------------------------------------------
(* ReadBuffer.                                                             *)

Gets(p, h, b, t) ==
  hold' = [hold EXCEPT ![p][h] = [buf |-> b, tag |-> t, touched |-> FALSE]]

PinBuffer(b) ==
  /\ refcount' = [refcount EXCEPT ![b] = @ + 1]
  /\ usage' = [usage EXCEPT ![b] = IF @ < kMaxUsageCount THEN @ + 1 ELSE @]

(* Step 1, a hit: the buffer is pinned under the partition lock.           *)
ReadHit(p, h, t) ==
  /\ pc[p] = "idle" /\ hold[p][h] = NoHandle
  /\ CanAcquire(p, Partition[t])
  /\ LET b == LookupBuffer(table, t)
     IN  /\ b # -1
         /\ PinBuffer(b)
         /\ Gets(p, h, b, t)
  /\ UNCHANGED <<tag, valid, dirty, free_next, first_free, clock_hand, table,
                 page, disk, lock, local, memory, failed>>

(* Step 1, a miss: the partition lock stays with the process.              *)
ReadMiss(p, h, t) ==
  /\ pc[p] = "idle" /\ hold[p][h] = NoHandle
  /\ CanAcquire(p, Partition[t])
  /\ LookupBuffer(table, t) = -1
  /\ Acquire(p, Partition[t])
  /\ want' = [want EXCEPT ![p] = t]
  /\ var' = [var EXCEPT ![p] = h]
  /\ Goto(p, "victim")
  /\ UNCHANGED <<pool, disk, victim, hold, memory, failed>>

(* The clock sweep.  Step i looks at buffer (clock_hand + i) % n_buffers_  *)
(* for the (i \div n_buffers_ + 1)st time, and each earlier look has taken *)
(* one off its usage count.  It gives up after two rounds.                 *)
At(i) == (clock_hand + i) % NBuffers

SweepHits ==
  {i \in 0 .. 2 * NBuffers - 1 :
     refcount[At(i)] = 0 /\ usage[At(i)] = i \div NBuffers}

Looks(b, n) == Cardinality({i \in 0 .. n - 1 : At(i) = b})

AfterSweep(n) ==
  usage' = [b \in Buffers |-> IF refcount[b] = 0 THEN usage[b] - Looks(b, n)
                              ELSE usage[b]]

(* Step 2: the head of the freelist, else the sweep.  Without a victim     *)
(* ReadBuffer releases the lock and raises an error.                       *)
FindVictimBuffer(p) ==
  /\ pc[p] = "victim"
  /\ \/ /\ first_free # -1
        /\ victim' = [victim EXCEPT ![p] = first_free]
        /\ first_free' = free_next[first_free]
        /\ free_next' = [free_next EXCEPT ![first_free] = -1]
        /\ Goto(p, "flush")
        /\ UNCHANGED <<usage, clock_hand, lock, want, var>>
     \/ /\ first_free = -1 /\ SweepHits # {}
        /\ LET n == CHOOSE i \in SweepHits : \A j \in SweepHits : i <= j
           IN  /\ victim' = [victim EXCEPT ![p] = At(n)]
               /\ clock_hand' = (At(n) + 1) % NBuffers
               /\ AfterSweep(n)
        /\ Goto(p, "flush")
        /\ UNCHANGED <<free_next, first_free, lock, want, var>>
     \/ /\ first_free = -1 /\ SweepHits = {}
        /\ AfterSweep(2 * NBuffers)
        /\ Release(p, Partition[want[p]])
        /\ Leave(p)
        /\ UNCHANGED <<clock_hand, free_next, first_free>>
  /\ UNCHANGED <<tag, valid, dirty, refcount, table, page, disk, hold,
                 memory, failed>>

(* FlushBuffer writes a dirty, valid page to its block.                    *)
FlushBuffer(b) ==
  IF tag[b] # None /\ valid[b] /\ dirty[b]
  THEN /\ disk' = [disk EXCEPT ![tag[b]] = page[b]]
       /\ dirty' = [dirty EXCEPT ![b] = FALSE]
  ELSE UNCHANGED <<disk, dirty>>

(* Mutant: the victim is reused without being written.                     *)
NoFlush(p) ==
  /\ pc[p] = "flush"
  /\ Goto(p, "insert")
  /\ UNCHANGED <<pool, disk, lock, want, var, victim, hold, memory, failed>>

FlushVictim(p) ==
  /\ pc[p] = "flush"
  /\ FlushBuffer(victim[p])
  /\ Goto(p, "insert")
  /\ UNCHANGED <<tag, valid, refcount, usage, free_next, first_free,
                 clock_hand, table, page, lock, want, var, victim, hold,
                 memory, failed>>

(* Mutant: the mapping of the old page stays in the table.                 *)
KeepOldMapping(p) ==
  LET b == victim[p]  t == want[p] IN
  /\ pc[p] = "insert"
  /\ table' = HashTableInsert(table, t, b)
  /\ tag' = [tag EXCEPT ![b] = t]
  /\ valid' = [valid EXCEPT ![b] = FALSE]
  /\ refcount' = [refcount EXCEPT ![b] = 1]
  /\ usage' = [usage EXCEPT ![b] = 1]
  /\ free_next' = [free_next EXCEPT ![b] = -1]
  /\ Goto(p, "read")
  /\ UNCHANGED <<dirty, first_free, clock_hand, page, disk, lock, want, var,
                 victim, hold, memory, failed>>

(* Step 3: the victim's descriptor gets the new tag and one pin, whatever  *)
(* has happened to it since it was chosen.                                 *)
InsertBuffer(p) ==
  LET b == victim[p]  t == want[p] IN
  /\ pc[p] = "insert"
  /\ table' = HashTableInsert(HashTableDelete(table, tag[b]), t, b)
  /\ tag' = [tag EXCEPT ![b] = t]
  /\ valid' = [valid EXCEPT ![b] = FALSE]
  /\ refcount' = [refcount EXCEPT ![b] = 1]
  /\ usage' = [usage EXCEPT ![b] = 1]
  /\ free_next' = [free_next EXCEPT ![b] = -1]
  /\ Goto(p, "read")
  /\ UNCHANGED <<dirty, first_free, clock_hand, page, disk, lock, want, var,
                 victim, hold, memory, failed>>

(* Steps 4 and 5: the block is read, the buffer is valid.                  *)
ReadBlock(p) ==
  LET b == victim[p] IN
  /\ pc[p] = "read"
  /\ page' = [page EXCEPT ![b] = disk[want[p]]]
  /\ valid' = [valid EXCEPT ![b] = TRUE]
  /\ Gets(p, var[p], b, want[p])
  /\ Release(p, Partition[want[p]])
  /\ Leave(p)
  /\ UNCHANGED <<tag, dirty, refcount, usage, free_next, first_free,
                 clock_hand, table, disk, memory, failed>>

(* smgrread raises an error: the mapping, the pin and the partition lock   *)
(* stay, and the buffer is not valid.                                      *)
ReadError(p) ==
  /\ pc[p] = "read"
  /\ Cardinality(failed) < MaxFailures /\ want[p] \notin failed
  /\ failed' = failed \cup {want[p]}
  /\ Leave(p)
  /\ UNCHANGED <<pool, disk, lock, hold, memory>>

-----------------------------------------------------------------------------
(* What a process does with the buffers it holds.                          *)

Holds(p, h) == pc[p] = "idle" /\ hold[p][h] # NoHandle

(* The section under the partition lock of the buffer's tag.               *)
Locked(p, h) ==
  LET t == tag[hold[p][h].buf] IN t # None => CanAcquire(p, Partition[t])

(* The caller changes the page it holds.                                   *)
ModifyPage(p, h, v) ==
  /\ Holds(p, h)
  /\ page' = [page EXCEPT ![hold[p][h].buf] = v]
  /\ memory' = [memory EXCEPT ![hold[p][h].tag] = v]
  /\ hold' = [hold EXCEPT ![p][h].touched = TRUE]
  /\ UNCHANGED <<tag, valid, dirty, refcount, usage, free_next, first_free,
                 clock_hand, table, disk, lock, local, failed>>

(* MarkBufferDirty and MarkBufferDirtyHint.                                *)
MarkBufferDirty(p, h) ==
  /\ Holds(p, h) /\ hold[p][h].touched /\ Locked(p, h)
  /\ dirty' = [dirty EXCEPT ![hold[p][h].buf] = TRUE]
  /\ hold' = [hold EXCEPT ![p][h].touched = FALSE]
  /\ UNCHANGED <<tag, valid, refcount, usage, free_next, first_free,
                 clock_hand, table, page, disk, lock, local, memory, failed>>

(* Mutant: the pin is given back twice.                                    *)
UnpinTwice(p, h) ==
  /\ Holds(p, h) /\ ~hold[p][h].touched /\ Locked(p, h)
  /\ refcount' = [refcount EXCEPT ![hold[p][h].buf] =
                    IF @ > 1 THEN @ - 2 ELSE 0]
  /\ hold' = [hold EXCEPT ![p][h] = NoHandle]
  /\ UNCHANGED <<tag, valid, dirty, usage, free_next, first_free, clock_hand,
                 table, page, disk, lock, local, memory, failed>>

ReleaseBuffer(p, h) ==
  /\ Holds(p, h) /\ ~hold[p][h].touched /\ Locked(p, h)
  /\ refcount' = [refcount EXCEPT ![hold[p][h].buf] =
                    IF @ > 0 THEN @ - 1 ELSE @]
  /\ hold' = [hold EXCEPT ![p][h] = NoHandle]
  /\ UNCHANGED <<tag, valid, dirty, usage, free_next, first_free, clock_hand,
                 table, page, disk, lock, local, memory, failed>>

(* IncrBufferRefCount: a second handle for a buffer already held.          *)
IncrBufferRefCount(p, h, g) ==
  /\ Holds(p, h) /\ hold[p][g] = NoHandle /\ Locked(p, h)
  /\ PinBuffer(hold[p][h].buf)
  /\ hold' = [hold EXCEPT ![p][g] = [hold[p][h] EXCEPT !.touched = FALSE]]
  /\ UNCHANGED <<tag, valid, dirty, free_next, first_free, clock_hand, table,
                 page, disk, lock, local, memory, failed>>

-----------------------------------------------------------------------------
(* One buffer of the loops that write pages: FlushBuffer, FlushRelation-   *)
(* Buffers, FlushDatabaseBuffers and FlushAllDirtyBuffers take any dirty   *)
(* page, the background writer's FlushDirtyBuffers skips pinned ones.      *)
FlushOne(p, b) ==
  /\ pc[p] = "idle"
  /\ valid[b] /\ dirty[b]
  /\ FlushBuffer(b)
  /\ UNCHANGED <<tag, valid, refcount, usage, free_next, first_free,
                 clock_hand, table, page, lock, local, hold, memory, failed>>

(* One buffer of DropRelationBuffers, DropRelFileNodeBuffers or            *)
(* DropDatabaseBuffers.  The first does not look at the pin count.         *)
InvalidateBuffer(p, b) ==
  /\ pc[p] = "idle"
  /\ \A h \in Handles : hold[p][h] = NoHandle
  /\ tag[b] # None
  /\ CanAcquire(p, Partition[tag[b]])
  /\ disk' = IF valid[b] /\ dirty[b] THEN [disk EXCEPT ![tag[b]] = page[b]]
             ELSE disk
  /\ table' = HashTableDelete(table, tag[b])
  /\ tag' = [tag EXCEPT ![b] = None]
  /\ valid' = [valid EXCEPT ![b] = FALSE]
  /\ dirty' = [dirty EXCEPT ![b] = FALSE]
  /\ usage' = [usage EXCEPT ![b] = 0]
  /\ free_next' = [free_next EXCEPT ![b] = first_free]
  /\ first_free' = b
  /\ UNCHANGED <<refcount, clock_hand, page, lock, local, hold, memory, failed>>

Next ==
  \E p \in Backends :
    \/ \E h \in Handles, t \in Tags : ReadHit(p, h, t) \/ ReadMiss(p, h, t)
    \/ FindVictimBuffer(p) \/ FlushVictim(p) \/ InsertBuffer(p)
    \/ ReadBlock(p) \/ ReadError(p)
    \/ \E h \in Handles, v \in Values : ModifyPage(p, h, v)
    \/ \E h \in Handles : MarkBufferDirty(p, h) \/ ReleaseBuffer(p, h)
    \/ \E h, g \in Handles : IncrBufferRefCount(p, h, g)
    \/ \E b \in Buffers : FlushOne(p, b) \/ InvalidateBuffer(p, b)

Spec == Init /\ [][Next]_vars

-----------------------------------------------------------------------------
(* The page a ReadBuffer of t would return now.                            *)
Cached(t) == LET b == LookupBuffer(table, t)
             IN  IF b # -1 /\ valid[b] THEN page[b] ELSE disk[t]

(* The pool is a coherent cache: whatever has been evicted, written back,  *)
(* discarded and read again, ReadBuffer returns the image last written     *)
(* through any buffer, for every page whose read has not failed            *)
(* (ReadBuffer, FindVictimBuffer, InsertBuffer, FlushBuffer).              *)
Coherent == \A t \in Tags \ failed : Cached(t) = memory[t]

(* A pin keeps the page in its buffer, "the caller must hold a pin, which  *)
(* prevents eviction" (BufferGetPage): the buffer of every handle still    *)
(* has the handle's tag, and the pin count covers all its handles.         *)
PinsKeep ==
  /\ \A p \in Backends, h \in Handles : hold[p][h] # NoHandle =>
       tag[hold[p][h].buf] = hold[p][h].tag
  /\ \A b \in Buffers :
       refcount[b] >= Cardinality({x \in Backends \X Handles :
                                     hold[x[1]][x[2]].buf = b})

(* FindVictimBuffer "returns the 0-based buffer index, or -1 if all        *)
(* buffers are pinned": ReadBuffer's error "no buffer available in buffer  *)
(* pool (all pinned)" comes only when each buffer has a pin.               *)
FullOnlyIfPinned ==
  \A p \in Backends : pc[p] = "victim" /\ first_free = -1 /\ SweepHits = {}
                        => \A b \in Buffers : refcount[b] > 0
=============================================================================
