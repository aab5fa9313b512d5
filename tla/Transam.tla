------------------------------ MODULE Transam ------------------------------
(***************************************************************************)
(* XID assignment, the commit log, the running-transaction array and MVCC  *)
(* snapshots, shared by forked backends: src/transaction/transam.cpp,      *)
(* procarray.cpp, snapshot.cpp, the parts of xact.cpp and twophase.cpp     *)
(* that touch shared memory, and InitProcess / ProcKill of proc.cpp.       *)
(*                                                                         *)
(* No lock covers a transaction's life.  Assigning an XID is three         *)
(* separate writes (nextXid, the commit log, PGXACT), ending one is two    *)
(* (the commit log, PGXACT), and a snapshot is read entry by entry and     *)
(* then, after kProcArrayLock is released, completed with nextXid.  Each   *)
(* of these is a step of its own.  A backend's PGXACT entry is its own     *)
(* (module ProcPool is about how it gets one).  Sections under a           *)
(* lightweight lock are single steps: module LWLock.                       *)
(***************************************************************************)
EXTENDS Integers, FiniteSets, FiniteSetsExt, TLC

CONSTANTS Backends,   \* backend processes that may connect
          kMaxXids,   \* XIDs the commit log has room for (2^24 in the code)
          MaxXid      \* bound: no XID above this one is assigned

kInvalidTransactionId     == 0
kFrozenTransactionId      == 2
kFirstNormalTransactionId == 3

ASSUME LimitsAssumption ==
  /\ kMaxXids \in Nat /\ kMaxXids >= kFirstNormalTransactionId
  /\ MaxXid \in Nat /\ MaxXid >= kFirstNormalTransactionId

XidStatus == {"kInProgress", "kCommitted", "kAborted"}

VARIABLES
  nextXid,      \* VariableCache.nextXid
  clog,         \* the shared commit log, indexed by XID
  pgxact,       \* the xid field of each backend's PGXACT entry
  pc,           \* what each backend is doing
  xid,          \* the backend's top-level transaction_id
  snap,         \* its transaction snapshot; xmax is 0 until it is complete
  todo,         \* PGXACT entries its snapshot scan has not read yet
  prepared,     \* its process-local list of prepared transactions
  cache,        \* its TransactionLogFetch cache: at most one XID and status
  atScan        \* history: what was true when its snapshot scan began

vars == <<nextXid, clog, pgxact, pc, xid, snap, todo, prepared,
          cache, atScan>>

Xids       == kFirstNormalTransactionId .. MaxXid
MaybeXid   == Xids \cup {kInvalidTransactionId}
Phases     == {"none", "idle", "run", "alloc", "publish", "scan", "xmax",
               "commit", "abort"}
NoSnapshot == [xmin |-> kInvalidTransactionId, xmax |-> kInvalidTransactionId,
               xip |-> {}]
Snapshots  == [xmin : 0 .. MaxXid, xmax : 0 .. MaxXid + 1, xip : SUBSET Xids]
NoEntry    == [xid |-> kInvalidTransactionId, status |-> "kInProgress"]
NoScan     == [committed |-> {}, running |-> {}]

TypeOK ==
  /\ nextXid \in kFirstNormalTransactionId .. MaxXid + 1
  /\ clog \in [0 .. kMaxXids - 1 -> XidStatus]
  /\ pgxact \in [Backends -> MaybeXid]
  /\ pc \in [Backends -> Phases]
  /\ xid \in [Backends -> MaybeXid]
  /\ snap \in [Backends -> Snapshots]
  /\ todo \in [Backends -> SUBSET Backends]
  /\ prepared \in [Backends -> SUBSET Xids]
  /\ cache \in [Backends -> {NoEntry} \cup [xid : Xids, status : XidStatus]]
  /\ atScan \in [Backends -> [committed : SUBSET Xids, running : SUBSET Xids]]

Init ==
  /\ nextXid = kFirstNormalTransactionId
  /\ clog = [x \in 0 .. kMaxXids - 1 |->
               IF x < kFirstNormalTransactionId THEN "kCommitted" ELSE "kInProgress"]
  /\ pgxact = [b \in Backends |-> kInvalidTransactionId]
  /\ pc = [b \in Backends |-> "none"]
  /\ xid = [b \in Backends |-> kInvalidTransactionId]
  /\ snap = [b \in Backends |-> NoSnapshot]
  /\ todo = [b \in Backends |-> {}]
  /\ prepared = [b \in Backends |-> {}]
  /\ cache = [b \in Backends |-> NoEntry]
  /\ atScan = [b \in Backends |-> NoScan]

Goto(b, phase) == pc' = [pc EXCEPT ![b] = phase]

-----------------------------------------------------------------------------
(* The commit log.                                                         *)

(* An XID the log has no room for reads as in progress.                    *)
FetchFromCommitLog(x) == IF x < kMaxXids THEN clog[x] ELSE "kInProgress"

(* The common body of TransactionIdCommit, TransactionIdAbort and          *)
(* TransactionIdSetInProgress, run by b: the entry is written under        *)
(* kCLogControlLock, and b's own cache entry for x is dropped.             *)
SetXidStatus(b, x, status) ==
  /\ clog' = IF x < kMaxXids THEN [clog EXCEPT ![x] = status] ELSE clog
  /\ cache' = IF cache[b].xid = x THEN [cache EXCEPT ![b] = NoEntry] ELSE cache

(* Mutant: the status is remembered, the XID only when there was no entry. *)
FetchKeepsCachedXid(b, x) ==
  /\ pc[b] = "run" /\ snap[b].xmax # kInvalidTransactionId
  /\ x # cache[b].xid
  /\ cache' = [cache EXCEPT ![b] =
                 [xid |-> IF @ = NoEntry THEN x ELSE @.xid,
                  status |-> FetchFromCommitLog(x)]]
  /\ UNCHANGED <<nextXid, clog, pgxact, pc, xid, snap, todo, prepared, atScan>>

(* A lookup by b that misses its single-entry cache.  A hit changes        *)
(* nothing.  Visibility checks look up XIDs found in tuples.               *)
TransactionLogFetch(b, x) ==
  /\ pc[b] = "run" /\ snap[b].xmax # kInvalidTransactionId
  /\ x # cache[b].xid
  /\ cache' = [cache EXCEPT ![b] = [xid |-> x, status |-> FetchFromCommitLog(x)]]
  /\ UNCHANGED <<nextXid, clog, pgxact, pc, xid, snap, todo, prepared, atScan>>

-----------------------------------------------------------------------------
(* Backends.  Registering and deregistering need kProcArrayLock            *)
(* exclusively, a snapshot scan holds it shared.                           *)

NoScanInProgress == \A c \in Backends : pc[c] # "scan"

InitProcess(b) ==
  /\ pc[b] = "none"
  /\ NoScanInProgress
  /\ Goto(b, "idle")
  /\ pgxact' = [pgxact EXCEPT ![b] = kInvalidTransactionId]
  /\ UNCHANGED <<nextXid, clog, xid, snap, todo, prepared, cache, atScan>>

(* The client went away: BackendMain returns, ProcKill clears the entry    *)
(* and the process exits.  An open transaction is neither committed nor    *)
(* aborted, and everything process-local is gone.                          *)
ProcKill(b) ==
  /\ pc[b] \in {"idle", "run"}
  /\ NoScanInProgress
  /\ Goto(b, "none")
  /\ pgxact' = [pgxact EXCEPT ![b] = kInvalidTransactionId]
  /\ xid' = [xid EXCEPT ![b] = kInvalidTransactionId]
  /\ snap' = [snap EXCEPT ![b] = NoSnapshot]
  /\ atScan' = [atScan EXCEPT ![b] = NoScan]
  /\ prepared' = [prepared EXCEPT ![b] = {}]
  /\ cache' = [cache EXCEPT ![b] = NoEntry]
  /\ UNCHANGED <<nextXid, clog, todo>>

-----------------------------------------------------------------------------
(* Transactions.                                                           *)

StartTransaction(b) ==
  /\ pc[b] = "idle"
  /\ Goto(b, "run")
  /\ UNCHANGED <<nextXid, clog, pgxact, xid, snap, todo, prepared, cache, atScan>>

(* Mutant: without kXactGenLock the increment of nextXid may be lost.      *)
AllocateUnlocked(b) ==
  /\ pc[b] = "run" /\ xid[b] = kInvalidTransactionId
  /\ nextXid <= MaxXid
  /\ xid' = [xid EXCEPT ![b] = nextXid]
  /\ nextXid' \in {nextXid, nextXid + 1}
  /\ Goto(b, "alloc")
  /\ UNCHANGED <<clog, pgxact, snap, todo, prepared, cache, atScan>>

(* GetCurrentTransactionId on the first write, or PrepareTransactionBlock: *)
(* AllocateNextTransactionId takes the counter under kXactGenLock ...      *)
AllocateNextTransactionId(b) ==
  /\ pc[b] = "run" /\ xid[b] = kInvalidTransactionId
  /\ nextXid <= MaxXid
  /\ xid' = [xid EXCEPT ![b] = nextXid]
  /\ nextXid' = nextXid + 1
  /\ Goto(b, "alloc")
  /\ UNCHANGED <<clog, pgxact, snap, todo, prepared, cache,
                 atScan>>

(* ... then records the XID as in progress ...                             *)
TransactionIdSetInProgress(b) ==
  /\ pc[b] = "alloc"
  /\ SetXidStatus(b, xid[b], "kInProgress")
  /\ Goto(b, "publish")
  /\ UNCHANGED <<nextXid, pgxact, xid, snap, todo, prepared, atScan>>

(* Mutant: the counter is published instead of the XID taken from it.      *)
PublishNextXid(b) ==
  /\ pc[b] = "publish"
  /\ pgxact' = [pgxact EXCEPT ![b] = nextXid]
  /\ Goto(b, "run")
  /\ UNCHANGED <<nextXid, clog, xid, snap, todo, prepared, cache, atScan>>

(* ... and the caller publishes it in PGXACT, without a lock.              *)
PublishXid(b) ==
  /\ pc[b] = "publish"
  /\ pgxact' = [pgxact EXCEPT ![b] = xid[b]]
  /\ Goto(b, "run")
  /\ UNCHANGED <<nextXid, clog, xid, snap, todo, prepared, cache, atScan>>

(* Mutant: PGXACT is cleared before the commit log has the decision.       *)
UnpublishFirst(b, phase, status) ==
  /\ pc[b] = "run"
  /\ Goto(b, phase)
  /\ pgxact' = [pgxact EXCEPT ![b] = kInvalidTransactionId]
  /\ IF xid[b] # kInvalidTransactionId
       THEN SetXidStatus(b, xid[b], status)
       ELSE UNCHANGED <<clog, cache>>
  /\ UNCHANGED <<nextXid, xid, snap, todo, prepared, atScan>>

(* CommitTransaction and AbortTransaction, first the commit log ...        *)
EndTransaction(b, phase, status) ==
  /\ pc[b] = "run"
  /\ Goto(b, phase)
  /\ IF xid[b] # kInvalidTransactionId
       THEN SetXidStatus(b, xid[b], status)
       ELSE UNCHANGED <<clog, cache>>
  /\ UNCHANGED <<nextXid, pgxact, xid, snap, todo, prepared, atScan>>

CommitTransaction(b) == EndTransaction(b, "commit", "kCommitted")
AbortTransaction(b)  == EndTransaction(b, "abort", "kAborted")

(* ... then PGXACT, the snapshot and the transaction state.                *)
FinishTransaction(b) ==
  /\ pc[b] \in {"commit", "abort"}
  /\ Goto(b, "idle")
  /\ pgxact' = [pgxact EXCEPT ![b] = kInvalidTransactionId]
  /\ xid' = [xid EXCEPT ![b] = kInvalidTransactionId]
  /\ snap' = [snap EXCEPT ![b] = NoSnapshot]
  /\ atScan' = [atScan EXCEPT ![b] = NoScan]
  /\ UNCHANGED <<nextXid, clog, todo, prepared, cache>>

(* Mutant: the transaction state keeps the XID it has handed over.         *)
PrepareKeepsXid(b) ==
  /\ pc[b] = "run" /\ xid[b] # kInvalidTransactionId
  /\ Goto(b, "idle")
  /\ prepared' = [prepared EXCEPT ![b] = @ \cup {xid[b]}]
  /\ pgxact' = [pgxact EXCEPT ![b] = kInvalidTransactionId]
  /\ snap' = [snap EXCEPT ![b] = NoSnapshot]
  /\ atScan' = [atScan EXCEPT ![b] = NoScan]
  /\ UNCHANGED <<nextXid, clog, xid, todo, cache>>

(* PREPARE TRANSACTION, the XID having been forced: it goes to this        *)
(* process's list and leaves PGXACT, still in progress in the log.         *)
PrepareTransactionBlock(b) ==
  /\ pc[b] = "run" /\ xid[b] # kInvalidTransactionId
  /\ Goto(b, "idle")
  /\ prepared' = [prepared EXCEPT ![b] = @ \cup {xid[b]}]
  /\ pgxact' = [pgxact EXCEPT ![b] = kInvalidTransactionId]
  /\ xid' = [xid EXCEPT ![b] = kInvalidTransactionId]
  /\ snap' = [snap EXCEPT ![b] = NoSnapshot]
  /\ atScan' = [atScan EXCEPT ![b] = NoScan]
  /\ UNCHANGED <<nextXid, clog, todo, cache>>

(* Mutant: the entry is not removed, so it can be finished once more.      *)
FinishPreparedNoRemove(b, x, status) ==
  /\ pc[b] = "run"
  /\ x \in prepared[b]
  /\ SetXidStatus(b, x, status)
  /\ UNCHANGED <<nextXid, pgxact, pc, xid, snap, todo, prepared, atScan>>

(* COMMIT PREPARED and ROLLBACK PREPARED find the transaction only in the  *)
(* list of the process that prepared it.                                   *)
FinishPreparedTransaction(b, x, status) ==
  /\ pc[b] = "run"
  /\ x \in prepared[b]
  /\ SetXidStatus(b, x, status)
  /\ prepared' = [prepared EXCEPT ![b] = @ \ {x}]
  /\ UNCHANGED <<nextXid, pgxact, pc, xid, snap, todo, atScan>>

-----------------------------------------------------------------------------
(* Snapshots.                                                              *)

Registered == {c \in Backends : pc[c] # "none"}

(* XIDs of transactions over in every sense: committed in the log and no   *)
(* longer published by anyone.                                             *)
FullyCommitted ==
  {x \in Xids : x < nextXid /\ FetchFromCommitLog(x) = "kCommitted"
                /\ \A c \in Backends : pgxact[c] # x}

Published == {pgxact[c] : c \in Backends} \ {kInvalidTransactionId}

(* GetTransactionSnapshot finds no active snapshot: GetSnapshotData calls  *)
(* GetRunningTransactionData, which takes kProcArrayLock shared.           *)
GetSnapshotData(b) ==
  /\ pc[b] = "run" /\ snap[b].xmax = kInvalidTransactionId
  /\ Goto(b, "scan")
  /\ todo' = [todo EXCEPT ![b] = Registered]
  /\ snap' = [snap EXCEPT ![b] = NoSnapshot]
  /\ atScan' = [atScan EXCEPT ![b] =
                  [committed |-> FullyCommitted, running |-> Published]]
  /\ UNCHANGED <<nextXid, clog, pgxact, xid, prepared, cache>>

(* Mutant: each entry replaces what was collected before.                  *)
ScanEntryOverwrites(b, c) ==
  /\ pc[b] = "scan" /\ c \in todo[b]
  /\ todo' = [todo EXCEPT ![b] = @ \ {c}]
  /\ snap' = [snap EXCEPT ![b].xip = {pgxact[c]} \ {kInvalidTransactionId}]
  /\ UNCHANGED <<nextXid, clog, pgxact, pc, xid, prepared, cache, atScan>>

(* One iteration of the scan.  The array order depends on the history of   *)
(* registrations, so the next entry may be any one not read yet.           *)
ScanEntry(b, c) ==
  /\ pc[b] = "scan" /\ c \in todo[b]
  /\ todo' = [todo EXCEPT ![b] = @ \ {c}]
  /\ snap' = [snap EXCEPT ![b].xip = @ \cup ({pgxact[c]} \ {kInvalidTransactionId})]
  /\ UNCHANGED <<nextXid, clog, pgxact, pc, xid, prepared, cache, atScan>>

(* The loop ends and kProcArrayLock is released ...                        *)
EndScan(b) ==
  /\ pc[b] = "scan" /\ todo[b] = {}
  /\ Goto(b, "xmax")
  /\ UNCHANGED <<nextXid, clog, pgxact, xid, snap, todo, prepared, cache, atScan>>

OldestOf(xip) == IF xip = {} THEN kFrozenTransactionId ELSE Min(xip)

(* Mutant: xmax is GetNextTransactionId(), which is one too low.           *)
CompleteSnapshotOffByOne(b) ==
  /\ pc[b] = "xmax"
  /\ Goto(b, "run")
  /\ snap' = [snap EXCEPT ![b].xmax = nextXid - 1,
                          ![b].xmin = OldestOf(snap[b].xip)]
  /\ UNCHANGED <<nextXid, clog, pgxact, xid, todo, prepared, cache, atScan>>

(* ... and only then xmax is read, as GetNextTransactionId() + 1.          *)
CompleteSnapshot(b) ==
  /\ pc[b] = "xmax"
  /\ Goto(b, "run")
  /\ snap' = [snap EXCEPT ![b].xmax = nextXid,
                          ![b].xmin = OldestOf(snap[b].xip)]
  /\ UNCHANGED <<nextXid, clog, pgxact, xid, todo, prepared, cache, atScan>>

(* XidVisibleInSnapshot with an up-to-date commit log lookup: the verdict  *)
(* of snapshot s on the effects of transaction x.                          *)
XidVisibleInSnapshot(x, s) ==
  \/ x < kFirstNormalTransactionId
  \/ /\ x < s.xmax
     /\ x < s.xmin \/ x \notin s.xip
     /\ FetchFromCommitLog(x) = "kCommitted"

-----------------------------------------------------------------------------
Step(b) ==
  \/ InitProcess(b) \/ ProcKill(b) \/ StartTransaction(b)
  \/ AllocateNextTransactionId(b) \/ TransactionIdSetInProgress(b) \/ PublishXid(b)
  \/ CommitTransaction(b) \/ AbortTransaction(b) \/ FinishTransaction(b)
  \/ PrepareTransactionBlock(b)
  \/ \E x \in prepared[b] : \/ FinishPreparedTransaction(b, x, "kCommitted")
                            \/ FinishPreparedTransaction(b, x, "kAborted")
  \/ GetSnapshotData(b) \/ EndScan(b) \/ CompleteSnapshot(b)
  \/ \E c \in todo[b] : ScanEntry(b, c)
  \/ \E x \in kFirstNormalTransactionId .. nextXid - 1 : TransactionLogFetch(b, x)

Next == \E b \in Backends : Step(b)

Spec == Init /\ [][Next]_vars

-----------------------------------------------------------------------------
(* Properties.                                                             *)

HasSnapshot(b) == snap[b].xmax # kInvalidTransactionId

Final(x) == FetchFromCommitLog(x) # "kInProgress"

(* A transaction that has not reached its commit or abort record.          *)
Undecided(b) == xid[b] # kInvalidTransactionId /\ pc[b] \notin {"commit", "abort"}

(* An XID belongs to one transaction: no two backends run under the same   *)
(* XID, none runs under one that is prepared somewhere, and no two process *)
(* lists hold the same prepared transaction.                               *)
XidsDistinct ==
  \A b, c \in Backends :
    /\ xid[b] # kInvalidTransactionId /\ b # c => xid[b] # xid[c]
    /\ xid[b] \notin prepared[c]
    /\ b # c => prepared[b] \cap prepared[c] = {}

(* The commit log agrees with the transactions' progress: whatever has not *)
(* reached its end, running or prepared, reads as in progress, and so does *)
(* every XID not handed out yet.                                           *)
UndecidedIsInProgress ==
  /\ \A b \in Backends : /\ Undecided(b) => ~Final(xid[b])
                         /\ \A x \in prepared[b] : ~Final(x)
  /\ \A x \in nextXid .. MaxXid : ~Final(x)

(* A decision in the commit log is never revised: not by a late            *)
(* TransactionIdSetInProgress, a second end of the same XID, or COMMIT     *)
(* PREPARED racing another backend.                                        *)
DecisionsAreFinal ==
  [][\A x \in Xids : Final(x) => FetchFromCommitLog(x)' = FetchFromCommitLog(x)]_vars

(* The XIDs that b can still decide: its own before the commit or abort    *)
(* record, and those it prepared.                                          *)
Decidable(b) == (IF Undecided(b) THEN {xid[b]} ELSE {}) \cup prepared[b]

Open    == UNION {Decidable(b) : b \in Backends}
Outcome == [x \in Xids |-> FetchFromCommitLog(x)]

Out == INSTANCE Outcomes WITH next <- nextXid, open <- Open, outcome <- Outcome

(* The separate writes to the counter, the log, PGXACT and the prepared    *)
(* list look to everyone like single steps: an XID is handed out once,     *)
(* and what is open is decided once and for all, or abandoned by a backend *)
(* that goes away (or to a full log) and then never decided.               *)
ImplementsOutcomes == Out!Spec

(* Ends are recorded before they are seen: while its backend lives, a      *)
(* transaction leaves PGXACT only when the commit log has its decision, or *)
(* when it has been prepared.  In between, a snapshot would take it for    *)
(* aborted.  XIDs the log has no room for are excepted.                    *)
DecidedBeforeUnpublished ==
  [][\A b \in Backends :
       /\ pgxact[b] \in Xids /\ pgxact[b] < kMaxXids
       /\ pgxact'[b] # pgxact[b] /\ pc'[b] # "none"
       => Final(pgxact[b]) \/ pgxact[b] \in prepared'[b]]_vars

(* Freshness: a snapshot sees every transaction that was over when the     *)
(* snapshot was begun, although its entries and xmax are read later and    *)
(* one by one while other backends assign and end XIDs.                    *)
SeesEarlierCommits ==
  \A b \in Backends : HasSnapshot(b) =>
    \A x \in atScan[b].committed : XidVisibleInSnapshot(x, snap[b])

(* Isolation, as far as the code gives it: a transaction that was          *)
(* published when the snapshot was begun and is still running in its       *)
(* backend is listed in xip, so its effects stay invisible to this         *)
(* snapshot also after it commits.                                         *)
HidesRunning ==
  \A b, c \in Backends :
    HasSnapshot(b) /\ Undecided(c) /\ xid[c] \in atScan[b].running =>
      xid[c] \in snap[b].xip

(* The single-entry cache never holds a wrong decision.                    *)
CachedDecisionCorrect ==
  \A b \in Backends :
    cache[b].status # "kInProgress" =>
      cache[b].status = FetchFromCommitLog(cache[b].xid)

-----------------------------------------------------------------------------
(* The inductive invariant of the proofs (module TransamProofs).           *)

(* What a backend's phase says of its XID, its PGXACT entry and the log.   *)
PhaseInv ==
  \A b \in Backends :
    /\ xid[b] < nextXid
    /\ \A x \in prepared[b] : x < nextXid
    /\ pc[b] \in {"none", "idle"} => xid[b] = kInvalidTransactionId
    /\ pc[b] \in {"alloc", "publish"} => xid[b] # kInvalidTransactionId
    /\ pc[b] \in {"scan", "xmax"} => ~HasSnapshot(b)
    /\ pgxact[b] = IF pc[b] \in {"alloc", "publish"}
                     THEN kInvalidTransactionId ELSE xid[b]
    /\ pc[b] \in {"commit", "abort"} /\ xid[b] # kInvalidTransactionId
         /\ xid[b] < kMaxXids => Final(xid[b])

(* What b's scan has established so far of the transactions that were over *)
(* when it began, and of those that were running.                          *)
ScanInv ==
  \A b \in Backends :
    /\ \A x \in atScan[b].committed :
         /\ x < nextXid
         /\ FetchFromCommitLog(x) = "kCommitted"
         /\ x \notin snap[b].xip
         /\ HasSnapshot(b) => x < snap[b].xmax
         /\ \A c \in Backends : xid[c] # x
    /\ \A x \in atScan[b].running : x < nextXid
    /\ \A c \in Backends : xid[c] \in atScan[b].running =>
         /\ pgxact[c] = xid[c]
         /\ Undecided(c) => \/ xid[c] \in snap[b].xip
                            \/ pc[b] = "scan" /\ c \in todo[b]

TransamInv ==
  /\ TypeOK /\ XidsDistinct /\ UndecidedIsInProgress
  /\ PhaseInv /\ ScanInv /\ CachedDecisionCorrect

-----------------------------------------------------------------------------
(* What comments in the code claim and the code does not keep.             *)

(* visibility.cpp: an XID below xmax and not in xip that is not committed  *)
(* "must be aborted", so no transaction is left that could still commit    *)
(* and become visible in the middle of the snapshot's life.                *)
NotListedIsFinished ==
  \A b \in Backends : HasSnapshot(b) =>
    \A x \in kFirstNormalTransactionId .. snap[b].xmax - 1 :
      x < kMaxXids /\ x \notin snap[b].xip => Final(x)

(* The backends are interchangeable.                                       *)
Symmetric == Permutations(Backends)
=============================================================================
