------------------------------- MODULE Heap --------------------------------
(***************************************************************************)
(* One row version under MVCC: src/access/heap/heapam.cpp writes its       *)
(* header, src/transaction/visibility.cpp decides who sees it and leaves   *)
(* hint bits in it, and src/commands/vacuum.cpp reclaims or freezes it.    *)
(*                                                                         *)
(* The transaction layer is taken at its promise: assigning an XID, ending *)
(* a transaction and taking a snapshot are single steps here (module       *)
(* Transam splits them).  No lock covers the row: a scan decides which     *)
(* rows it sees, and the statement then deletes, updates or locks the ones *)
(* it was given in later steps, between which anything may happen.         *)
(* Command ids are left out: each write ends with                          *)
(* CommandCounterIncrement, so a transaction sees its own earlier writes   *)
(* (module Xact).                                                          *)
(***************************************************************************)
EXTENDS Integers, Sequences, FiniteSets, TLC

CONSTANTS Backends,   \* backend processes
          MaxXid,     \* bound: no XID above this one is assigned
          MaxMulti    \* bound: MultiXactIds one backend creates

kInvalidTransactionId     == 0
kFrozenTransactionId      == 2
kFirstNormalTransactionId == 3

ASSUME BoundsAssumption ==
  /\ MaxXid \in Nat /\ MaxXid >= kFirstNormalTransactionId
  /\ MaxMulti \in Nat /\ MaxMulti <= MaxXid

(* The t_infomask bits visibility depends on.  Two of them are one bit.    *)
kHeapXmaxLocked    == 128
kHeapXminCommitted == 256
kHeapXminInvalid   == 512
kHeapXminFrozen    == 1024
kHeapXmaxCommitted == 1024
kHeapXmaxInvalid   == 2048

VARIABLES
  nextXid,   \* VariableCache.nextXid
  clog,      \* the shared commit log
  xid,       \* each backend's transaction_id, also in its PGXACT
  snap,      \* its transaction snapshot, xmax = 0 when it has none
  cache,     \* its TransactionLogFetch cache
  prepared,  \* each backend's own list of prepared transactions
  members,   \* the members of each MultiXactId the backend created
  target,    \* backends whose scan returned the row to a statement
  oldest,    \* the oldest_xmin of a running VACUUM, 0 when there is none
  tup,       \* the row version: line pointer, t_xmin, t_xmax, t_infomask
  inserter,  \* history: the XID that inserted it
  deleters   \* history: the XIDs that deleted or updated it

vars == <<nextXid, clog, xid, snap, cache, prepared, members, target, oldest,
          tup, inserter, deleters>>

Xids       == kFirstNormalTransactionId .. MaxXid
MaybeXid   == Xids \cup {kInvalidTransactionId}
XidStatus  == {"kInProgress", "kCommitted", "kAborted"}
Flags      == {kHeapXmaxLocked, kHeapXminCommitted, kHeapXminInvalid,
               kHeapXminFrozen, kHeapXmaxCommitted, kHeapXmaxInvalid}
NoSnapshot == [xmax |-> kInvalidTransactionId, xip |-> {}]
NoEntry    == [xid |-> kInvalidTransactionId, status |-> "kInProgress"]
NoTuple    == [lp |-> "kUnused", xmin |-> 0, xmax |-> 0, infomask |-> {}]

TypeOK ==
  /\ nextXid \in kFirstNormalTransactionId .. MaxXid + 1
  /\ clog \in [0 .. MaxXid -> XidStatus]
  /\ xid \in [Backends -> MaybeXid]
  /\ snap \in [Backends -> [xmax : 0 .. MaxXid + 1, xip : SUBSET Xids]]
  /\ cache \in [Backends -> {NoEntry} \cup [xid : Xids, status : XidStatus]]
  /\ prepared \in [Backends -> SUBSET Xids]
  /\ members \in [Backends -> Seq(SUBSET Xids)]
  /\ \A b \in Backends : Len(members[b]) <= MaxMulti
  /\ target \in SUBSET Backends
  /\ oldest \in [Backends -> MaybeXid \cup {kFrozenTransactionId}]
  /\ tup \in [lp : {"kUnused", "kNormal", "kDead"}, xmin : 0 .. MaxXid,
              xmax : 0 .. MaxXid, infomask : SUBSET Flags]
  /\ inserter \in MaybeXid
  /\ deleters \in SUBSET Xids

Init ==
  /\ nextXid = kFirstNormalTransactionId
  /\ clog = [x \in 0 .. MaxXid |->
               IF x < kFirstNormalTransactionId THEN "kCommitted" ELSE "kInProgress"]
  /\ xid = [b \in Backends |-> kInvalidTransactionId]
  /\ snap = [b \in Backends |-> NoSnapshot]
  /\ cache = [b \in Backends |-> NoEntry]
  /\ prepared = [b \in Backends |-> {}]
  /\ members = [b \in Backends |-> <<>>]
  /\ target = {}
  /\ oldest = [b \in Backends |-> kInvalidTransactionId]
  /\ tup = NoTuple
  /\ inserter = kInvalidTransactionId
  /\ deleters = {}

HasSnapshot(b) == snap[b].xmax # kInvalidTransactionId
Running        == {xid[b] : b \in Backends} \ {kInvalidTransactionId}

-----------------------------------------------------------------------------
(* Transactions.                                                           *)

(* GetCurrentTransactionId: the XID of b's transaction, assigned now if it *)
(* has none.                                                               *)
CurrentXid(b) == IF xid[b] = kInvalidTransactionId THEN nextXid ELSE xid[b]

AssignXid(b) ==
  /\ CurrentXid(b) <= MaxXid
  /\ xid' = [xid EXCEPT ![b] = CurrentXid(b)]
  /\ nextXid' = IF xid[b] = kInvalidTransactionId THEN nextXid + 1 ELSE nextXid
  /\ UNCHANGED <<clog, snap, prepared>>

(* A write to another table.                                               *)
WriteElsewhere(b) ==
  /\ xid[b] = kInvalidTransactionId
  /\ AssignXid(b)
  /\ UNCHANGED <<cache, members, target, tup, inserter, deleters>>

(* The code's xmin, the oldest running XID, is never above an XID of xip   *)
(* and only spares the search of xip.                                      *)
GetTransactionSnapshot(b) ==
  /\ ~HasSnapshot(b)
  /\ snap' = [snap EXCEPT ![b] = [xmax |-> nextXid, xip |-> Running]]
  /\ UNCHANGED <<nextXid, clog, xid, cache, prepared, members, target, tup,
                 inserter, deleters>>

SetXidStatus(b, x, status) ==
  /\ clog' = [clog EXCEPT ![x] = status]
  /\ cache' = IF cache[b].xid = x THEN [cache EXCEPT ![b] = NoEntry] ELSE cache

LeaveTransaction(b) ==
  /\ xid' = [xid EXCEPT ![b] = kInvalidTransactionId]
  /\ snap' = [snap EXCEPT ![b] = NoSnapshot]
  /\ target' = target \ {b}

(* CommitTransaction or AbortTransaction.                                  *)
EndTransaction(b, status) ==
  /\ xid[b] # kInvalidTransactionId \/ HasSnapshot(b)
  /\ IF xid[b] = kInvalidTransactionId
       THEN UNCHANGED <<clog, cache>>
       ELSE SetXidStatus(b, xid[b], status)
  /\ LeaveTransaction(b)
  /\ UNCHANGED <<nextXid, prepared, members, tup, inserter, deleters>>

(* PREPARE TRANSACTION takes the XID out of PGXACT and enters it in the    *)
(* StateList of this process.                                              *)
PrepareTransactionBlock(b) ==
  /\ xid[b] # kInvalidTransactionId
  /\ prepared' = [prepared EXCEPT ![b] = @ \cup {xid[b]}]
  /\ LeaveTransaction(b)
  /\ UNCHANGED <<nextXid, clog, cache, members, tup, inserter, deleters>>

(* COMMIT PREPARED or ROLLBACK PREPARED.                                   *)
FinishPrepared(b, x, status) ==
  /\ x \in prepared[b]
  /\ prepared' = [prepared EXCEPT ![b] = @ \ {x}]
  /\ SetXidStatus(b, x, status)
  /\ UNCHANGED <<nextXid, xid, snap, members, target, tup, inserter, deleters>>

-----------------------------------------------------------------------------
(* Mutant: special XIDs are cached like any other.                         *)
FetchCachesSpecial(entry, x) ==
  IF entry.xid = x THEN entry
  ELSE [xid |-> x, status |-> clog[x]]

(* Looking XIDs up: the entry a cache holds after x was looked up, which   *)
(* is the answer for a normal XID.  Special XIDs always count as committed *)
(* and leave the cache alone.                                              *)

TransactionLogFetch(entry, x) ==
  IF x < kFirstNormalTransactionId \/ entry.xid = x THEN entry
  ELSE [xid |-> x, status |-> clog[x]]

StatusOf(entry, x) ==
  IF x < kFirstNormalTransactionId THEN "kCommitted"
  ELSE TransactionLogFetch(entry, x).status

(* Neither assigned after the snapshot nor running when it was taken.      *)
Finished(x, s) == x < s.xmax /\ x \notin s.xip

-----------------------------------------------------------------------------
(* HeapTupleSatisfiesMVCC.                                                 *)

GetXminStatus ==
  CASE kHeapXminCommitted \in tup.infomask -> "kCommitted"
    [] kHeapXminInvalid \in tup.infomask   -> "kAborted"
    [] kHeapXminFrozen \in tup.infomask    -> "kFrozen"
    [] OTHER                               -> "kInProgress"

GetXmaxStatus ==
  CASE kHeapXmaxCommitted \in tup.infomask -> "kCommitted"
    [] kHeapXmaxInvalid \in tup.infomask   -> "kAborted"
    [] OTHER                               -> "kInProgress"

(* What one half of the test finds: whether the transaction's effect on    *)
(* the row counts, the hint bits it leaves, the cache after its lookups.   *)
Finding(counts, infomask, entry) ==
  [counts |-> counts, infomask |-> infomask, entry |-> entry]

(* Mutant: an inserter that did not commit is taken to have aborted.       *)
TestXminNotCommitted(b) ==
  LET x      == tup.xmin
      status == StatusOf(cache[b], x)
      seen   == Finished(x, snap[b]) /\ status = "kCommitted"
      hint   == IF seen THEN kHeapXminCommitted ELSE kHeapXminInvalid
  IN  CASE GetXminStatus = "kInProgress" /\ x # xid[b] ->
             Finding(seen, tup.infomask \cup {hint}, TransactionLogFetch(cache[b], x))
        [] OTHER -> Finding(GetXminStatus # "kAborted", tup.infomask, cache[b])

(* Mutant: an inserter that is not in xip is not looked up.                *)
TestXminNoLookup(b) ==
  LET x    == tup.xmin
      seen == Finished(x, snap[b])
  IN  CASE GetXminStatus = "kInProgress" /\ x # xid[b] ->
             Finding(seen, tup.infomask, cache[b])
        [] OTHER -> Finding(GetXminStatus # "kAborted", tup.infomask, cache[b])

(* Step 1, the inserter.                                                   *)
TestXmin(b) ==
  LET x      == tup.xmin
      status == StatusOf(cache[b], x)
      seen   == Finished(x, snap[b]) /\ status = "kCommitted"
      hinted == CASE seen -> (tup.infomask \cup {kHeapXminCommitted})
                               \ {kHeapXminInvalid}
                  [] ~seen /\ status = "kAborted" ->
                       (tup.infomask \cup {kHeapXminInvalid}) \ {kHeapXminCommitted}
                  [] OTHER -> tup.infomask
  IN  CASE GetXminStatus \in {"kCommitted", "kFrozen"} ->
             Finding(TRUE, tup.infomask, cache[b])
        [] GetXminStatus = "kAborted" ->
             Finding(FALSE, tup.infomask, cache[b])
        [] GetXminStatus = "kInProgress" /\ x = xid[b] ->
             Finding(TRUE, tup.infomask, cache[b])
        [] OTHER -> Finding(seen, hinted, TransactionLogFetch(cache[b], x))

(* Mutant: a deleter in xip is hinted committed without a look at the log. *)
TestXmaxHintsEarly(b, infomask, entry) ==
  IF tup.xmax \in snap[b].xip /\ kHeapXmaxLocked \notin infomask
    THEN Finding(FALSE, infomask \cup {kHeapXmaxCommitted}, entry)
    ELSE Finding(FALSE, infomask, entry)

(* Mutant: the lock-only bit is not looked at.                             *)
TestXmaxNoLockOnly(b, infomask, entry) ==
  LET x == tup.xmax
  IN  Finding(/\ x # kInvalidTransactionId
              /\ kHeapXmaxInvalid \notin infomask
              /\ x = xid[b] \/ (Finished(x, snap[b]) /\ StatusOf(entry, x) = "kCommitted"),
              infomask, entry)

(* Step 2, the deleter, with the hint bits and the cache step 1 left.      *)
(* GetXmaxStatus does not depend on the bits step 1 sets.                  *)
TestXmax(b, infomask, entry) ==
  LET x       == tup.xmax
      status  == StatusOf(entry, x)
      past    == Finished(x, snap[b])
      deleted == past /\ status = "kCommitted"
      hinted  == CASE deleted -> (infomask \cup {kHeapXmaxCommitted})
                                   \ {kHeapXmaxInvalid}
                   [] status # "kCommitted" ->
                        (infomask \cup {kHeapXmaxInvalid}) \ {kHeapXmaxCommitted}
                   [] OTHER -> infomask
  IN  CASE x = kInvalidTransactionId \/ kHeapXmaxLocked \in infomask ->
             Finding(FALSE, infomask, entry)
        [] x # kInvalidTransactionId /\ kHeapXmaxLocked \notin infomask ->
             CASE GetXmaxStatus = "kCommitted" -> Finding(past, infomask, entry)
               [] GetXmaxStatus = "kAborted" -> Finding(FALSE, infomask, entry)
               [] GetXmaxStatus = "kInProgress" /\ x = xid[b] ->
                    Finding(TRUE, infomask, entry)
               [] GetXmaxStatus = "kInProgress" /\ x # xid[b] /\ x >= snap[b].xmax ->
                    Finding(FALSE, infomask, entry)
               [] OTHER ->
                    Finding(deleted, hinted, TransactionLogFetch(entry, x))

HeapTupleSatisfiesMVCC(b) ==
  LET min == TestXmin(b)
      max == TestXmax(b, min.infomask, min.entry)
  IN  IF min.counts
        THEN [visible |-> ~max.counts, infomask |-> max.infomask, entry |-> max.entry]
        ELSE [visible |-> FALSE, infomask |-> min.infomask, entry |-> min.entry]

(* heap_scan_page reaches the row's line pointer.                          *)
HeapScan(b) ==
  /\ HasSnapshot(b) /\ tup.lp = "kNormal"
  /\ LET test == HeapTupleSatisfiesMVCC(b) IN
       /\ tup' = [tup EXCEPT !.infomask = test.infomask]
       /\ cache' = [cache EXCEPT ![b] = test.entry]
       /\ target' = IF test.visible THEN target \cup {b} ELSE target \ {b}
  /\ UNCHANGED <<nextXid, clog, xid, snap, prepared, members, inserter, deleters>>

-----------------------------------------------------------------------------
(* Writes.  A statement works on a row its scan returned.  If VACUUM has   *)
(* reclaimed the line pointer since, the bytes written are not this row's. *)

HeapInsert(b) ==
  /\ inserter = kInvalidTransactionId
  /\ AssignXid(b)
  /\ tup' = [lp |-> "kNormal", xmin |-> CurrentXid(b), xmax |-> 0, infomask |-> {}]
  /\ inserter' = CurrentXid(b)
  /\ UNCHANGED <<cache, members, target, deleters>>

(* heap_delete, and what heap_update does to the old version.              *)
HeapDelete(b) ==
  /\ b \in target
  /\ AssignXid(b)
  /\ IF tup.lp = "kNormal"
       THEN /\ tup' = [tup EXCEPT !.xmax = CurrentXid(b)]
            /\ deleters' = deleters \cup {CurrentXid(b)}
       ELSE UNCHANGED <<tup, deleters>>
  /\ target' = target \ {b}
  /\ UNCHANGED <<cache, members, inserter>>

Locked(xmax) ==
  [tup EXCEPT !.xmax = xmax,
              !.infomask = (@ \cup {kHeapXmaxLocked}) \ {kHeapXmaxInvalid}]

(* SELECT FOR UPDATE and FOR NO KEY UPDATE.                                *)
HeapLockExclusive(b) ==
  /\ b \in target
  /\ AssignXid(b)
  /\ tup' = IF tup.lp = "kNormal" THEN Locked(CurrentXid(b)) ELSE tup
  /\ target' = target \ {b}
  /\ UNCHANGED <<cache, members, inserter, deleters>>

(* The MultiXactId a shared locker stores: a locked row's xmax is expanded *)
(* if it is one of the ids this backend created.                           *)
LockedBefore   == kHeapXmaxLocked \in tup.infomask /\ tup.xmax # 0
IsMulti(b, m)  == m \in DOMAIN members[b]
KeepsMulti(b)  == LockedBefore /\ (IsMulti(b, tup.xmax) =>
                                     CurrentXid(b) \in members[b][tup.xmax])
NewMembers(b)  == {CurrentXid(b)} \cup
                  (IF LockedBefore THEN members[b][tup.xmax] ELSE {})

(* SELECT FOR SHARE and FOR KEY SHARE.                                     *)
HeapLockShared(b) ==
  /\ b \in target
  /\ AssignXid(b)
  /\ \/ /\ tup.lp # "kNormal"
        /\ UNCHANGED <<tup, members>>
     \/ /\ tup.lp = "kNormal" /\ KeepsMulti(b)
        /\ tup' = Locked(tup.xmax)
        /\ UNCHANGED members
     \/ /\ tup.lp = "kNormal" /\ ~KeepsMulti(b)
        /\ Len(members[b]) < MaxMulti
        /\ members' = [members EXCEPT ![b] = Append(@, NewMembers(b))]
        /\ tup' = Locked(Len(members[b]) + 1)
  /\ target' = target \ {b}
  /\ UNCHANGED <<cache, inserter, deleters>>

-----------------------------------------------------------------------------
(* VACUUM.                                                                 *)

GetOldestXmin ==
  IF Running = {} THEN kFrozenTransactionId
  ELSE CHOOSE x \in Running : \A y \in Running : x <= y

HeapTupleIsSurelyDead(entry, xmin) ==
  /\ tup.xmax # kInvalidTransactionId
  /\ StatusOf(entry, tup.xmax) = "kCommitted"
  /\ tup.xmax < xmin

(* The cache after HeapTupleIsSurelyDead's lookup.                         *)
DeadLookup(entry) ==
  IF tup.xmax = kInvalidTransactionId THEN entry
  ELSE TransactionLogFetch(entry, tup.xmax)

(* FreezeTupleIfNeeded looks t_xmin up when it is old enough.              *)
FreezeCandidate(limit) ==
  /\ GetXminStatus # "kFrozen"
  /\ tup.xmin >= kFirstNormalTransactionId
  /\ tup.xmin < limit

Frozen ==
  [tup EXCEPT !.xmin = kFrozenTransactionId,
              !.infomask = (@ \cup {kHeapXminFrozen, kHeapXminCommitted})
                             \ {kHeapXminInvalid}]

(* ExecVacuum begins: the limit is computed once, before the first page.   *)
VacuumBegin(b) ==
  /\ oldest' = [oldest EXCEPT ![b] = GetOldestXmin]
  /\ UNCHANGED <<nextXid, clog, xid, snap, cache, prepared, members, target, tup,
                 inserter, deleters>>

(* ExecVacuum's visit of the row.  For XIDs this low the freeze limit is   *)
(* OldestXmin with and without FREEZE.  pg_class.relfrozenxid, which it    *)
(* then advances in its own copy of the catalog, is left out.              *)
VacuumRow(b) ==
  /\ LET entry == DeadLookup(cache[b])
         dead  == HeapTupleIsSurelyDead(cache[b], oldest[b]) IN
       \/ /\ tup.lp # "kNormal"
          /\ UNCHANGED <<tup, cache>>
       \/ /\ tup.lp = "kNormal" /\ dead
          /\ tup' = [tup EXCEPT !.lp = "kDead"]
          /\ cache' = [cache EXCEPT ![b] = entry]
       \/ /\ tup.lp = "kNormal" /\ ~dead /\ FreezeCandidate(oldest[b])
          /\ tup' = IF StatusOf(entry, tup.xmin) = "kCommitted" THEN Frozen ELSE tup
          /\ cache' = [cache EXCEPT ![b] = TransactionLogFetch(entry, tup.xmin)]
       \/ /\ tup.lp = "kNormal" /\ ~dead /\ ~FreezeCandidate(oldest[b])
          /\ cache' = [cache EXCEPT ![b] = entry]
          /\ UNCHANGED tup
  /\ oldest' = [oldest EXCEPT ![b] = kInvalidTransactionId]
  /\ UNCHANGED <<nextXid, clog, xid, snap, prepared, members, target,
                 inserter, deleters>>

(* Any statement but VACUUM.                                               *)
Statement(b) ==
  /\ \/ WriteElsewhere(b)
     \/ GetTransactionSnapshot(b)
     \/ \E status \in {"kCommitted", "kAborted"} : EndTransaction(b, status)
     \/ PrepareTransactionBlock(b)
     \/ \E x \in prepared[b], status \in {"kCommitted", "kAborted"} :
          FinishPrepared(b, x, status)
     \/ HeapScan(b)
     \/ HeapInsert(b)
     \/ HeapDelete(b)
     \/ HeapLockExclusive(b)
     \/ HeapLockShared(b)
  /\ UNCHANGED oldest

Next ==
  \E b \in Backends :
    IF oldest[b] = kInvalidTransactionId THEN Statement(b) \/ VacuumBegin(b)
    ELSE VacuumRow(b)

Spec == Init /\ [][Next]_vars

-----------------------------------------------------------------------------
(* A hint about the inserter is true: the committed and the frozen bits    *)
(* stand for an inserter the log has as committed, the invalid bit for one *)
(* that aborted (visibility.cpp:117-127, vacuum.cpp:126-128).              *)
XminHintsTrue ==
  inserter # kInvalidTransactionId =>
    /\ GetXminStatus \in {"kCommitted", "kFrozen"} => clog[inserter] = "kCommitted"
    /\ GetXminStatus = "kAborted" => clog[inserter] = "kAborted"
    /\ tup.xmin # inserter => clog[inserter] = "kCommitted"

(* No dirty read: a row a snapshot sees was inserted by the reader's own   *)
(* transaction or by one that committed.                                   *)
NoDirtyRead ==
  \A b \in Backends :
    HasSnapshot(b) /\ tup.lp = "kNormal" /\ HeapTupleSatisfiesMVCC(b).visible =>
      inserter = xid[b] \/ clog[inserter] = "kCommitted"

DeleteCommitted == \E x \in deleters : clog[x] = "kCommitted"

(* The committed hint about the deleter is true of some deleter, as long   *)
(* as freezing has not set the same bit.                                   *)
XmaxHintTrue ==
  kHeapXmaxCommitted \in tup.infomask => \/ tup.xmin = kFrozenTransactionId
                                         \/ DeleteCommitted

(* No row goes missing: one whose inserter a snapshot counts as committed  *)
(* is hidden from it only if a transaction that committed, or the reader's *)
(* own, deleted it, whatever was locked, rolled back or hinted meanwhile.  *)
(* Two exceptions: a reader that still remembers the inserter as in        *)
(* progress, and a frozen row (see FrozenRowsKept).                        *)
NoRowLost ==
  \A b \in Backends :
    /\ HasSnapshot(b) /\ tup.lp = "kNormal"
    /\ Finished(inserter, snap[b]) /\ clog[inserter] = "kCommitted"
    /\ cache[b].xid # inserter
    /\ tup.xmin # kFrozenTransactionId
    /\ ~HeapTupleSatisfiesMVCC(b).visible
    => xid[b] \in deleters \/ DeleteCommitted

-----------------------------------------------------------------------------
(* The inductive invariant of the proofs (module HeapProofs).              *)

(* A transaction that runs or is prepared belongs to one backend or to     *)
(* none, and the log has no decision for it.                               *)
UndecidedInv ==
  /\ \A b \in Backends : xid[b] # kInvalidTransactionId =>
       /\ xid[b] < nextXid /\ clog[xid[b]] = "kInProgress"
       /\ \A c \in Backends : xid[b] \notin prepared[c]
       /\ \A c \in Backends : xid[c] = xid[b] => c = b
  /\ \A b \in Backends : \A x \in prepared[b] :
       /\ x < nextXid /\ clog[x] = "kInProgress"
       /\ \A c \in Backends : x \in prepared[c] => c = b
  /\ \A x \in nextXid .. MaxXid : clog[x] = "kInProgress"

(* A cached decision is the log's.                                         *)
EntryTrue(entry) == entry.status # "kInProgress" => clog[entry.xid] = entry.status

(* What the inserter bits of an infomask assert of the inserter.           *)
InserterBitsTrue(mask) ==
  /\ kHeapXminCommitted \in mask => clog[inserter] = "kCommitted"
  /\ kHeapXminInvalid \in mask => clog[inserter] = "kAborted"
  /\ kHeapXminFrozen \in mask => clog[inserter] = "kCommitted"

(* The row's inserter and deleters.  Whoever may delete it, or has, is its *)
(* inserter or saw it committed.                                           *)
RowInv ==
  /\ inserter = kInvalidTransactionId =>
       tup = NoTuple /\ deleters = {} /\ target = {}
  /\ inserter # kInvalidTransactionId =>
       /\ inserter < nextXid
       /\ tup.xmin \in {inserter, kFrozenTransactionId}
       /\ tup.xmin = kFrozenTransactionId => clog[inserter] = "kCommitted"
       /\ InserterBitsTrue(tup.infomask)
  /\ tup.xmax # kInvalidTransactionId /\ kHeapXmaxLocked \notin tup.infomask =>
       tup.xmax \in deleters
  /\ \A x \in deleters : x = inserter \/ clog[inserter] = "kCommitted"
  /\ \A b \in target : xid[b] = inserter \/ clog[inserter] = "kCommitted"

HeapInv ==
  /\ TypeOK /\ UndecidedInv /\ RowInv /\ XmaxHintTrue
  /\ \A b \in Backends : EntryTrue(cache[b])

-----------------------------------------------------------------------------
(* What the code and its comments claim and the model refutes.             *)

SeesRow(b) == HasSnapshot(b) /\ tup.lp = "kNormal" /\ HeapTupleSatisfiesMVCC(b).visible

(* A delete that committed before a snapshot was taken hides the row from  *)
(* it: "xmax is committed and in [xmin, xmax) but not in xip - it was      *)
(* committed before the snapshot. Not visible." (visibility.cpp:174-175).  *)
(* A scan that meets the delete while it is in progress marks it aborted.  *)
(* Rows that were ever locked are left aside: heap_delete keeps their      *)
(* locked bit, which makes every later delete void.                        *)
DeletesTakeEffect ==
  \A b \in Backends, x \in deleters :
    /\ Finished(x, snap[b]) /\ clog[x] = "kCommitted" /\ cache[b].xid # x
    /\ kHeapXmaxLocked \notin tup.infomask
    => ~SeesRow(b)

(* A snapshot sees only rows of transactions it counts as finished: "Hint  *)
(* says committed - but we still need to check the snapshot."              *)
(* (visibility.cpp:82).  The code does not check it.                       *)
SnapshotRespected ==
  \A b \in Backends :
    SeesRow(b) => inserter = xid[b] \/ Finished(inserter, snap[b])

(* VACUUM reclaims only rows that are "definitely dead (deleted by a       *)
(* committed transaction ...)" (visibility.hpp:52-53).  It takes the XID   *)
(* or the MultiXactId of a row lock for a deleter.                         *)
ReclaimOnlyDeleted ==
  [][tup.lp = "kNormal" /\ tup'.lp = "kDead" => DeleteCommitted]_vars

(* Freezing hides no row: one that VACUUM froze is hidden only if its      *)
(* deletion committed or is the reader's own.  The bits "match             *)
(* PostgreSQL's HEAP_XMIN_* and HEAP_XMAX_* constants exactly"             *)
(* (heap_tuple.hpp:85), but the frozen bit is also the XMAX_COMMITTED bit. *)
FrozenRowsKept ==
  \A b \in Backends :
    /\ HasSnapshot(b) /\ tup.lp = "kNormal" /\ tup.xmin = kFrozenTransactionId
    /\ ~SeesRow(b)
    => xid[b] \in deleters \/ DeleteCommitted


(* The backends are interchangeable.                                       *)
Symmetric == Permutations(Backends)
=============================================================================
