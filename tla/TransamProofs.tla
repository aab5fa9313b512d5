--------------------------- MODULE TransamProofs ---------------------------
(***************************************************************************)
(* Proofs about module Transam, for any number of backends, XIDs and any   *)
(* size of the commit log.  The inductive invariant is TransamInv: the     *)
(* properties XidsDistinct, UndecidedIsInProgress and                      *)
(* CachedDecisionCorrect, with PhaseInv (what a backend's position in the  *)
(* code says of its XID, its PGXACT entry and the log) and ScanInv (what a *)
(* half-built snapshot has established).  One lemma per action shows that  *)
(* it keeps all six conjuncts.                                             *)
(***************************************************************************)
EXTENDS Transam, WellFoundedInduction, TLAPS

USE DEF kInvalidTransactionId, kFrozenTransactionId, kFirstNormalTransactionId

(* The xmin that CompleteSnapshot computes from xip is an XID: a nonempty  *)
(* set of naturals has a least element.                                    *)
LEMMA OldestOfType ==
  ASSUME NEW xip \in SUBSET Xids
  PROVE  OldestOf(xip) \in 0 .. MaxXid
<1>1. CASE xip = {}  BY <1>1, LimitsAssumption DEF OldestOf
<1>2. CASE xip # {}
  <2> DEFINE R == {ss \in Nat \X Nat : ss[1] < ss[2]}
             m == Min(xip)
  <2>1. xip \subseteq Nat  BY LimitsAssumption DEF Xids
  <2>2. IsWellFoundedOn(R, Nat)  BY NatLessThanWellFounded DEF OpToRel
  <2>3. \E x \in xip : \A y \in xip : ~(<<y, x>> \in R)
    <3> HIDE DEF R
    <3> QED  BY <1>2, <2>1, <2>2, WFMin
  <2>4. \E x \in xip : \A y \in xip : x =< y
    <3>1. PICK x \in xip : \A y \in xip : <<y, x>> \notin R  BY <2>3
    <3>2. ASSUME NEW y \in xip  PROVE x =< y
      <4>1. x \in Nat /\ y \in Nat  BY <2>1
      <4>2. ~(y < x)  BY <3>1, <4>1
      <4>3. QED  BY <4>1, <4>2
    <3>3. QED  BY <3>2
  <2>5. m \in xip  BY <2>4 DEF Min
  <2> HIDE DEF m
  <2>6. m \in 0 .. MaxXid  BY <2>5, LimitsAssumption DEF Xids
  <2>7. QED  BY <1>2, <2>6 DEF OldestOf, m
<1>3. QED  BY <1>1, <1>2

(* Filling in the fields of a snapshot, as ScanEntry and CompleteSnapshot  *)
(* do, keeps its type.                                                     *)
LEMMA SnapshotUpdate ==
  ASSUME NEW r \in Snapshots
  PROVE  /\ \A xip \in SUBSET Xids : [r EXCEPT !.xip = xip] \in Snapshots
         /\ \A xmax \in 0 .. MaxXid + 1, xmin \in 0 .. MaxXid :
              [r EXCEPT !.xmax = xmax, !.xmin = xmin] \in Snapshots
BY DEF Snapshots

(* A status write changes what the commit log says of no other XID.        *)
LEMMA WriteFrame ==
  ASSUME TypeOK, NEW b \in Backends, NEW x \in Xids, NEW status,
         SetXidStatus(b, x, status)
  PROVE  \A y \in Xids : y # x => FetchFromCommitLog(y)' = FetchFromCommitLog(y)
BY LimitsAssumption DEF TypeOK, SetXidStatus, FetchFromCommitLog, Xids

(* InitializeCommitLog and an empty array establish the invariant.         *)
LEMMA InitHolds == Init => TransamInv
<1> SUFFICES ASSUME Init PROVE TransamInv  OBVIOUS
<1> USE LimitsAssumption DEF Init, NoSnapshot, NoScan, NoEntry
<1>1. TypeOK  BY DEF TypeOK, Snapshots, XidStatus, Phases, MaybeXid, Xids
<1>2. XidsDistinct  BY DEF XidsDistinct
<1>3. UndecidedIsInProgress
  BY DEF UndecidedIsInProgress, Undecided, Final, FetchFromCommitLog
<1>4. PhaseInv  BY DEF PhaseInv
<1>5. ScanInv  BY DEF ScanInv
<1>6. CachedDecisionCorrect  BY DEF CachedDecisionCorrect
<1>7. QED  BY <1>1, <1>2, <1>3, <1>4, <1>5, <1>6 DEF TransamInv

(* AllocateNextTransactionId keeps the invariant: the counter is above     *)
(* every XID in use, so the new one is distinct.                           *)
LEMMA AllocStep ==
  ASSUME TransamInv, NEW b \in Backends, AllocateNextTransactionId(b)
  PROVE  TransamInv'
<1> USE LimitsAssumption DEF AllocateNextTransactionId, Goto
<1>1. TypeOK'  BY DEF TransamInv, TypeOK, Snapshots, Phases, MaybeXid, Xids
<1>2. XidsDistinct'  BY DEF TransamInv, TypeOK, XidsDistinct, PhaseInv
<1>3. UndecidedIsInProgress'
  BY DEF TransamInv, TypeOK, UndecidedIsInProgress, Undecided, Final,
      FetchFromCommitLog, Xids, MaybeXid
<1>4. PhaseInv'
  BY DEF TransamInv, TypeOK, PhaseInv, HasSnapshot, Xids, MaybeXid, Final,
      FetchFromCommitLog
<1>5. ScanInv'
  BY DEF TransamInv, TypeOK, ScanInv, PhaseInv, HasSnapshot, Undecided,
      FetchFromCommitLog, Xids, MaybeXid
<1>6. CachedDecisionCorrect'
  BY DEF TransamInv, CachedDecisionCorrect, FetchFromCommitLog
<1>7. QED  BY <1>1, <1>2, <1>3, <1>4, <1>5, <1>6 DEF TransamInv

(* InitProcess keeps the invariant.                                        *)
LEMMA InitProcessStep ==
  ASSUME TransamInv, NEW b \in Backends, InitProcess(b)
  PROVE  TransamInv'
<1> USE LimitsAssumption DEF TransamInv, InitProcess, NoScanInProgress, Goto, NoSnapshot, NoScan, NoEntry
<1>1. TypeOK'
  BY DEF TypeOK, Snapshots, Phases, MaybeXid, Xids, XidStatus, FetchFromCommitLog
<1>2. XidsDistinct'  BY DEF TypeOK, XidsDistinct, PhaseInv, HasSnapshot, MaybeXid, Xids
<1>3. UndecidedIsInProgress'
  BY DEF TypeOK, UndecidedIsInProgress, Undecided, Final, FetchFromCommitLog, Xids,
      MaybeXid, PhaseInv, HasSnapshot, XidsDistinct
<1>4. PhaseInv'
  BY DEF TypeOK, PhaseInv, HasSnapshot, Xids, MaybeXid, Final, FetchFromCommitLog,
      UndecidedIsInProgress, Undecided, XidsDistinct
<1>5. ScanInv'
  BY DEF TypeOK, ScanInv, PhaseInv, HasSnapshot, Undecided, FetchFromCommitLog, Xids,
      MaybeXid, UndecidedIsInProgress, Final, XidsDistinct
<1>6. CachedDecisionCorrect'
  BY DEF TypeOK, CachedDecisionCorrect, FetchFromCommitLog, UndecidedIsInProgress,
      Final, Undecided, Xids, MaybeXid, PhaseInv, HasSnapshot, XidStatus
<1>7. QED  BY <1>1, <1>2, <1>3, <1>4, <1>5, <1>6 DEF TransamInv

(* ProcKill keeps the invariant: what it abandons stays in progress.       *)
LEMMA ProcKillStep ==
  ASSUME TransamInv, NEW b \in Backends, ProcKill(b)
  PROVE  TransamInv'
<1> USE LimitsAssumption DEF TransamInv, ProcKill, NoScanInProgress, Goto, NoSnapshot, NoScan, NoEntry
<1>1. TypeOK'
  BY DEF TypeOK, Snapshots, Phases, MaybeXid, Xids, XidStatus, FetchFromCommitLog
<1>2. XidsDistinct'  BY DEF TypeOK, XidsDistinct, PhaseInv, HasSnapshot, MaybeXid, Xids
<1>3. UndecidedIsInProgress'
  BY DEF TypeOK, UndecidedIsInProgress, Undecided, Final, FetchFromCommitLog, Xids,
      MaybeXid, PhaseInv, HasSnapshot, XidsDistinct
<1>4. PhaseInv'
  BY DEF TypeOK, PhaseInv, HasSnapshot, Xids, MaybeXid, Final, FetchFromCommitLog,
      UndecidedIsInProgress, Undecided, XidsDistinct
<1>5. ScanInv'
  BY DEF TypeOK, ScanInv, PhaseInv, HasSnapshot, Undecided, FetchFromCommitLog, Xids,
      MaybeXid, UndecidedIsInProgress, Final, XidsDistinct
<1>6. CachedDecisionCorrect'
  BY DEF TypeOK, CachedDecisionCorrect, FetchFromCommitLog, UndecidedIsInProgress,
      Final, Undecided, Xids, MaybeXid, PhaseInv, HasSnapshot, XidStatus
<1>7. QED  BY <1>1, <1>2, <1>3, <1>4, <1>5, <1>6 DEF TransamInv

(* StartTransaction keeps the invariant.                                   *)
LEMMA StartStep ==
  ASSUME TransamInv, NEW b \in Backends, StartTransaction(b)
  PROVE  TransamInv'
<1> USE LimitsAssumption DEF TransamInv, StartTransaction, Goto, NoSnapshot, NoScan, NoEntry
<1>1. TypeOK'
  BY DEF TypeOK, Snapshots, Phases, MaybeXid, Xids, XidStatus, FetchFromCommitLog
<1>2. XidsDistinct'  BY DEF TypeOK, XidsDistinct, PhaseInv, HasSnapshot, MaybeXid, Xids
<1>3. UndecidedIsInProgress'
  BY DEF TypeOK, UndecidedIsInProgress, Undecided, Final, FetchFromCommitLog, Xids,
      MaybeXid, PhaseInv, HasSnapshot, XidsDistinct
<1>4. PhaseInv'
  BY DEF TypeOK, PhaseInv, HasSnapshot, Xids, MaybeXid, Final, FetchFromCommitLog,
      UndecidedIsInProgress, Undecided, XidsDistinct
<1>5. ScanInv'
  BY DEF TypeOK, ScanInv, PhaseInv, HasSnapshot, Undecided, FetchFromCommitLog, Xids,
      MaybeXid, UndecidedIsInProgress, Final, XidsDistinct
<1>6. CachedDecisionCorrect'
  BY DEF TypeOK, CachedDecisionCorrect, FetchFromCommitLog, UndecidedIsInProgress,
      Final, Undecided, Xids, MaybeXid, PhaseInv, HasSnapshot, XidStatus
<1>7. QED  BY <1>1, <1>2, <1>3, <1>4, <1>5, <1>6 DEF TransamInv

(* TransactionIdSetInProgress keeps the invariant: no decision is recorded *)
(* for the XID yet, so nothing is overwritten.                             *)
LEMMA SetInProgressStep ==
  ASSUME TransamInv, NEW b \in Backends, TransactionIdSetInProgress(b)
  PROVE  TransamInv'
<1> USE LimitsAssumption DEF TransamInv, TransactionIdSetInProgress, SetXidStatus, Goto, NoSnapshot, NoScan, NoEntry
<1>1. TypeOK'
  BY DEF TypeOK, Snapshots, Phases, MaybeXid, Xids, XidStatus, FetchFromCommitLog
<1>2. XidsDistinct'  BY DEF TypeOK, XidsDistinct, PhaseInv, HasSnapshot, MaybeXid, Xids
<1>3. UndecidedIsInProgress'
  BY DEF TypeOK, UndecidedIsInProgress, Undecided, Final, FetchFromCommitLog, Xids,
      MaybeXid, PhaseInv, HasSnapshot, XidsDistinct
<1>4. PhaseInv'
  BY DEF TypeOK, PhaseInv, HasSnapshot, Xids, MaybeXid, Final, FetchFromCommitLog,
      UndecidedIsInProgress, Undecided, XidsDistinct
<1>5. ScanInv'
  BY DEF TypeOK, ScanInv, PhaseInv, HasSnapshot, Undecided, FetchFromCommitLog, Xids,
      MaybeXid, UndecidedIsInProgress, Final, XidsDistinct
<1>6. CachedDecisionCorrect'
  <2>1. xid[b] \in Xids /\ FetchFromCommitLog(xid[b]) = "kInProgress"
    BY DEF PhaseInv, TypeOK, MaybeXid, UndecidedIsInProgress, Undecided, Final
  <2>2. \A x \in Xids : FetchFromCommitLog(x)' = FetchFromCommitLog(x)
    BY <2>1 DEF TypeOK, FetchFromCommitLog, Xids
  <2>3. ASSUME NEW c \in Backends, cache'[c].status # "kInProgress"
        PROVE  (cache[c].status = FetchFromCommitLog(cache[c].xid))'
    <3>1. cache'[c] = cache[c]  BY <2>3 DEF TypeOK
    <3>2. cache[c].xid \in Xids  BY <2>3, <3>1 DEF TypeOK
    <3>3. QED  BY <2>2, <2>3, <3>1, <3>2 DEF CachedDecisionCorrect, FetchFromCommitLog
  <2>4. QED  BY <2>3 DEF CachedDecisionCorrect
<1>7. QED  BY <1>1, <1>2, <1>3, <1>4, <1>5, <1>6 DEF TransamInv

(* Publishing the XID in PGXACT keeps the invariant.                       *)
LEMMA PublishStep ==
  ASSUME TransamInv, NEW b \in Backends, PublishXid(b)
  PROVE  TransamInv'
<1> USE LimitsAssumption DEF TransamInv, PublishXid, Goto, NoSnapshot, NoScan, NoEntry
<1>1. TypeOK'
  BY DEF TypeOK, Snapshots, Phases, MaybeXid, Xids, XidStatus, FetchFromCommitLog
<1>2. XidsDistinct'  BY DEF TypeOK, XidsDistinct, PhaseInv, HasSnapshot, MaybeXid, Xids
<1>3. UndecidedIsInProgress'
  BY DEF TypeOK, UndecidedIsInProgress, Undecided, Final, FetchFromCommitLog, Xids,
      MaybeXid, PhaseInv, HasSnapshot, XidsDistinct
<1>4. PhaseInv'
  BY DEF TypeOK, PhaseInv, HasSnapshot, Xids, MaybeXid, Final, FetchFromCommitLog,
      UndecidedIsInProgress, Undecided, XidsDistinct
<1>5. ScanInv'
  BY DEF TypeOK, ScanInv, PhaseInv, HasSnapshot, Undecided, FetchFromCommitLog, Xids,
      MaybeXid, UndecidedIsInProgress, Final, XidsDistinct
<1>6. CachedDecisionCorrect'
  BY DEF TypeOK, CachedDecisionCorrect, FetchFromCommitLog, UndecidedIsInProgress,
      Final, Undecided, Xids, MaybeXid, PhaseInv, HasSnapshot, XidStatus
<1>7. QED  BY <1>1, <1>2, <1>3, <1>4, <1>5, <1>6 DEF TransamInv

(* Recording a commit or an abort keeps the invariant: XIDs are distinct,  *)
(* so only this transaction is decided, and no snapshot has taken it for   *)
(* finished before.                                                        *)
LEMMA EndStep ==
  ASSUME TransamInv, NEW b \in Backends, NEW phase \in {"commit", "abort"},
         NEW status \in {"kCommitted", "kAborted"}, EndTransaction(b, phase, status)
  PROVE  TransamInv'
<1> USE LimitsAssumption DEF TransamInv
<1>0. /\ pc[b] = "run" /\ pc' = [pc EXCEPT ![b] = phase]
      /\ UNCHANGED <<nextXid, pgxact, xid, snap, todo, prepared, atScan>>
  BY DEF EndTransaction, Goto
<1>a. \A y \in Xids : y # xid[b] => FetchFromCommitLog(y)' = FetchFromCommitLog(y)
  <2>1. CASE xid[b] = kInvalidTransactionId
    BY <2>1 DEF EndTransaction, FetchFromCommitLog
  <2>2. CASE xid[b] # kInvalidTransactionId
    <3>1. xid[b] \in Xids  BY <2>2 DEF TypeOK, MaybeXid
    <3>2. SetXidStatus(b, xid[b], status)  BY <2>2 DEF EndTransaction
    <3>3. QED  BY <3>1, <3>2, WriteFrame
  <2>3. QED  BY <2>1, <2>2
<1>1. TypeOK'
  BY DEF EndTransaction, SetXidStatus, Goto, NoEntry, TypeOK, Phases, MaybeXid, Xids,
      XidStatus
<1>2. XidsDistinct'  BY <1>0 DEF XidsDistinct
<1>3. UndecidedIsInProgress'
  <2>1. ASSUME NEW c \in Backends, Undecided(c)'  PROVE ~Final(xid[c])'
    <3>1. c # b /\ Undecided(c) /\ xid[c] # xid[b] /\ xid[c] \in Xids
      BY <1>0, <2>1 DEF Undecided, XidsDistinct, TypeOK, MaybeXid
    <3>2. QED  BY <1>0, <1>a, <3>1 DEF UndecidedIsInProgress, Final
  <2>2. ASSUME NEW c \in Backends, NEW x \in prepared[c]  PROVE ~Final(x)'
    <3>1. x # xid[b] /\ x \in Xids  BY DEF XidsDistinct, TypeOK
    <3>2. QED  BY <1>a, <3>1 DEF UndecidedIsInProgress, Final
  <2>3. ASSUME NEW x \in nextXid .. MaxXid  PROVE ~Final(x)'
    <3>1. x # xid[b] /\ x \in Xids  BY DEF PhaseInv, HasSnapshot, TypeOK, Xids, MaybeXid
    <3>2. QED  BY <1>a, <3>1 DEF UndecidedIsInProgress, Final
  <2>4. QED  BY <1>0, <2>1, <2>2, <2>3 DEF UndecidedIsInProgress
<1>4. PhaseInv'
  BY DEF EndTransaction, SetXidStatus, Goto, TypeOK, PhaseInv, HasSnapshot, Xids,
      MaybeXid, Final, FetchFromCommitLog, UndecidedIsInProgress, Undecided,
      XidsDistinct
<1>5. ScanInv'
  <2>1. UNCHANGED <<nextXid, pgxact, xid, snap, todo, atScan>>
        /\ pc' = [pc EXCEPT ![b] = phase]
    BY DEF EndTransaction, Goto
  <2>2. \A c \in Backends : Undecided(c)' => Undecided(c)
    BY <2>1 DEF Undecided, TypeOK
  <2>3. \A c \in Backends : pc[c] = "scan" => pc'[c] = "scan"
    BY <2>1 DEF EndTransaction, TypeOK
  <2>4. ASSUME NEW c \in Backends, NEW x \in atScan[c].committed
        PROVE  FetchFromCommitLog(x)' = FetchFromCommitLog(x)
    <3>1. x \in Xids /\ xid[b] # x  BY DEF TypeOK, ScanInv
    <3>2. QED  BY <1>a, <3>1
  <2>5. QED  BY <2>1, <2>2, <2>3, <2>4 DEF ScanInv, HasSnapshot
<1>6. CachedDecisionCorrect'
  <2>1. ASSUME NEW c \in Backends, cache'[c].status # "kInProgress"
        PROVE  (cache[c].status = FetchFromCommitLog(cache[c].xid))'
    <3>1. cache'[c] = cache[c]
      BY <2>1 DEF EndTransaction, SetXidStatus, NoEntry, TypeOK
    <3>2. cache[c].xid \in Xids /\ Final(cache[c].xid)
      BY <2>1, <3>1 DEF TypeOK, NoEntry, CachedDecisionCorrect, Final
    <3>3. cache[c].xid # xid[b]
      BY <1>0, <3>2 DEF UndecidedIsInProgress, Undecided, Xids
    <3>4. QED
      BY <1>a, <2>1, <3>1, <3>2, <3>3 DEF CachedDecisionCorrect, FetchFromCommitLog
  <2>2. QED  BY <2>1 DEF CachedDecisionCorrect
<1>7. QED  BY <1>1, <1>2, <1>3, <1>4, <1>5, <1>6 DEF TransamInv

(* Clearing PGXACT after the commit log write keeps the invariant.         *)
LEMMA FinishStep ==
  ASSUME TransamInv, NEW b \in Backends, FinishTransaction(b)
  PROVE  TransamInv'
<1> USE LimitsAssumption DEF TransamInv, FinishTransaction, Goto, NoSnapshot, NoScan, NoEntry
<1>1. TypeOK'
  BY DEF TypeOK, Snapshots, Phases, MaybeXid, Xids, XidStatus, FetchFromCommitLog
<1>2. XidsDistinct'  BY DEF TypeOK, XidsDistinct, PhaseInv, HasSnapshot, MaybeXid, Xids
<1>3. UndecidedIsInProgress'
  BY DEF TypeOK, UndecidedIsInProgress, Undecided, Final, FetchFromCommitLog, Xids,
      MaybeXid, PhaseInv, HasSnapshot, XidsDistinct
<1>4. PhaseInv'
  BY DEF TypeOK, PhaseInv, HasSnapshot, Xids, MaybeXid, Final, FetchFromCommitLog,
      UndecidedIsInProgress, Undecided, XidsDistinct
<1>5. ScanInv'
  BY DEF TypeOK, ScanInv, PhaseInv, HasSnapshot, Undecided, FetchFromCommitLog, Xids,
      MaybeXid, UndecidedIsInProgress, Final, XidsDistinct
<1>6. CachedDecisionCorrect'
  BY DEF TypeOK, CachedDecisionCorrect, FetchFromCommitLog, UndecidedIsInProgress,
      Final, Undecided, Xids, MaybeXid, PhaseInv, HasSnapshot, XidStatus
<1>7. QED  BY <1>1, <1>2, <1>3, <1>4, <1>5, <1>6 DEF TransamInv

(* PREPARE TRANSACTION keeps the invariant.                                *)
LEMMA PrepareStep ==
  ASSUME TransamInv, NEW b \in Backends, PrepareTransactionBlock(b)
  PROVE  TransamInv'
<1> USE LimitsAssumption DEF TransamInv, PrepareTransactionBlock, Goto, NoSnapshot, NoScan, NoEntry
<1>1. TypeOK'
  BY DEF TypeOK, Snapshots, Phases, MaybeXid, Xids, XidStatus, FetchFromCommitLog
<1>2. XidsDistinct'  BY DEF TypeOK, XidsDistinct, PhaseInv, HasSnapshot, MaybeXid, Xids
<1>3. UndecidedIsInProgress'
  BY DEF TypeOK, UndecidedIsInProgress, Undecided, Final, FetchFromCommitLog, Xids,
      MaybeXid, PhaseInv, HasSnapshot, XidsDistinct
<1>4. PhaseInv'
  BY DEF TypeOK, PhaseInv, HasSnapshot, Xids, MaybeXid, Final, FetchFromCommitLog,
      UndecidedIsInProgress, Undecided, XidsDistinct
<1>5. ScanInv'
  BY SMTT(30) DEF TypeOK, ScanInv, PhaseInv, HasSnapshot, Undecided, FetchFromCommitLog, Xids,
      MaybeXid, UndecidedIsInProgress, Final, XidsDistinct
<1>6. CachedDecisionCorrect'
  BY DEF TypeOK, CachedDecisionCorrect, FetchFromCommitLog, UndecidedIsInProgress,
      Final, Undecided, Xids, MaybeXid, PhaseInv, HasSnapshot, XidStatus
<1>7. QED  BY <1>1, <1>2, <1>3, <1>4, <1>5, <1>6 DEF TransamInv

(* COMMIT PREPARED and ROLLBACK PREPARED keep the invariant.               *)
LEMMA FinishPreparedStep ==
  ASSUME TransamInv, NEW b \in Backends, NEW x, NEW status \in {"kCommitted", "kAborted"}, FinishPreparedTransaction(b, x, status)
  PROVE  TransamInv'
<1> USE LimitsAssumption DEF TransamInv, FinishPreparedTransaction, SetXidStatus, Goto, NoSnapshot, NoScan, NoEntry
<1>1. TypeOK'
  BY DEF TypeOK, Snapshots, Phases, MaybeXid, Xids, XidStatus, FetchFromCommitLog
<1>2. XidsDistinct'  BY DEF TypeOK, XidsDistinct, PhaseInv, HasSnapshot, MaybeXid, Xids
<1>3. UndecidedIsInProgress'
  BY DEF TypeOK, UndecidedIsInProgress, Undecided, Final, FetchFromCommitLog, Xids,
      MaybeXid, PhaseInv, HasSnapshot, XidsDistinct
<1>4. PhaseInv'
  BY DEF TypeOK, PhaseInv, HasSnapshot, Xids, MaybeXid, Final, FetchFromCommitLog,
      UndecidedIsInProgress, Undecided, XidsDistinct
<1>5. ScanInv'
  BY SMTT(30) DEF TypeOK, ScanInv, PhaseInv, HasSnapshot, Undecided, FetchFromCommitLog, Xids,
      MaybeXid, UndecidedIsInProgress, Final, XidsDistinct
<1>6. CachedDecisionCorrect'
  BY DEF TypeOK, CachedDecisionCorrect, FetchFromCommitLog, UndecidedIsInProgress,
      Final, Undecided, Xids, MaybeXid, PhaseInv, HasSnapshot, XidStatus
<1>7. QED  BY <1>1, <1>2, <1>3, <1>4, <1>5, <1>6 DEF TransamInv

(* Beginning a snapshot scan establishes ScanInv for it: every published   *)
(* XID is still to be read, and a fully committed one belongs to no        *)
(* backend.                                                                *)
LEMMA SnapshotStep ==
  ASSUME TransamInv, NEW b \in Backends, GetSnapshotData(b)
  PROVE  TransamInv'
<1> USE LimitsAssumption DEF TransamInv, GetSnapshotData, FullyCommitted, Published, Registered, Goto, NoSnapshot, NoScan, NoEntry
<1>1. TypeOK'
  BY DEF TypeOK, Snapshots, Phases, MaybeXid, Xids, XidStatus, FetchFromCommitLog
<1>2. XidsDistinct'  BY DEF TypeOK, XidsDistinct, PhaseInv, HasSnapshot, MaybeXid, Xids
<1>3. UndecidedIsInProgress'
  BY DEF TypeOK, UndecidedIsInProgress, Undecided, Final, FetchFromCommitLog, Xids,
      MaybeXid, PhaseInv, HasSnapshot, XidsDistinct
<1>4. PhaseInv'
  BY DEF TypeOK, PhaseInv, HasSnapshot, Xids, MaybeXid, Final, FetchFromCommitLog,
      UndecidedIsInProgress, Undecided, XidsDistinct
<1>5. ScanInv'
  <2> DEFINE done == FullyCommitted
             live == Published
  <2>1. /\ atScan' = [atScan EXCEPT ![b] = [committed |-> done, running |-> live]]
        /\ atScan'[b].committed = done /\ atScan'[b].running = live
        /\ \A d \in Backends : d # b => atScan'[d] = atScan[d] /\ snap'[d] = snap[d]
        /\ snap'[b] = NoSnapshot /\ pc'[b] = "scan"
        /\ todo'[b] = Registered
    BY DEF TypeOK
  <2>2. ASSUME NEW x \in done
        PROVE  /\ x < nextXid /\ FetchFromCommitLog(x) = "kCommitted"
               /\ \A c \in Backends : xid[c] # x
    <3>1. x \in Xids /\ x < nextXid /\ FetchFromCommitLog(x) = "kCommitted"
          /\ \A c \in Backends : pgxact[c] # x
      OBVIOUS
    <3>2. ASSUME NEW c \in Backends, xid[c] = x  PROVE FALSE
      <4>1. pc[c] \in {"alloc", "publish"}  BY <3>1, <3>2 DEF PhaseInv
      <4>2. Undecided(c)  BY <3>1, <3>2, <4>1 DEF Undecided, Xids
      <4>3. QED  BY <3>1, <3>2, <4>2 DEF UndecidedIsInProgress, Final
    <3>3. QED  BY <3>1, <3>2
  <2>3. ASSUME NEW x \in live  PROVE x < nextXid
    BY DEF PhaseInv, HasSnapshot, TypeOK, MaybeXid, Xids
  <2>4. ASSUME NEW c \in Backends, xid[c] \in live
        PROVE  pgxact[c] = xid[c] /\ c \in Registered
    <3>1. PICK d \in Backends : pgxact[d] = xid[c] /\ pgxact[d] # kInvalidTransactionId
      BY <2>4
    <3>2. xid[d] = xid[c] /\ xid[c] # kInvalidTransactionId  BY <3>1 DEF PhaseInv
    <3>3. d = c  BY <3>2 DEF XidsDistinct
    <3>4. QED  BY <3>1, <3>2, <3>3 DEF PhaseInv
  <2> HIDE DEF done, live
  <2>5. \A x \in Xids : FetchFromCommitLog(x)' = FetchFromCommitLog(x)
    BY DEF FetchFromCommitLog
  <2>6. \A c \in Backends : Undecided(c)' => Undecided(c)
    BY DEF Undecided, TypeOK
  <2>7. done \subseteq Xids /\ live \subseteq Xids
    BY DEF done, live, TypeOK, MaybeXid
  <2>8. \A x \in done : /\ x < nextXid' /\ FetchFromCommitLog(x)' = "kCommitted"
                        /\ x \notin snap'[b].xip
                        /\ HasSnapshot(b)' => x < snap'[b].xmax
                        /\ \A c \in Backends : xid'[c] # x
    BY SMTT(30), <2>1, <2>2, <2>5, <2>7 DEF HasSnapshot
  <2>9. \A c \in Backends : xid'[c] \in live =>
           pgxact'[c] = xid'[c] /\ pc'[b] = "scan" /\ c \in todo'[b]
    BY <2>1, <2>4
  <2>10. ASSUME NEW d \in Backends, d # b
         PROVE  /\ \A x \in atScan'[d].committed :
                     /\ x < nextXid' /\ FetchFromCommitLog(x)' = "kCommitted"
                     /\ x \notin snap'[d].xip
                     /\ HasSnapshot(d)' => x < snap'[d].xmax
                     /\ \A c \in Backends : xid'[c] # x
                /\ \A x \in atScan'[d].running : x < nextXid'
                /\ \A c \in Backends : xid'[c] \in atScan'[d].running =>
                     /\ pgxact'[c] = xid'[c]
                     /\ Undecided(c)' => \/ xid'[c] \in snap'[d].xip
                                         \/ pc'[d] = "scan" /\ c \in todo'[d]
    <3>1. atScan'[d] = atScan[d] /\ snap'[d] = snap[d]
          /\ pc'[d] = pc[d] /\ todo'[d] = todo[d]
      BY <2>1, <2>10 DEF TypeOK
    <3>2. atScan[d].committed \subseteq Xids  BY DEF TypeOK
    <3>3. QED  BY <2>5, <2>6, <3>1, <3>2 DEF ScanInv, HasSnapshot
  <2>11. QED  BY SMTT(30), <2>1, <2>3, <2>8, <2>9, <2>10 DEF ScanInv
<1>6. CachedDecisionCorrect'
  BY DEF TypeOK, CachedDecisionCorrect, FetchFromCommitLog, UndecidedIsInProgress,
      Final, Undecided, Xids, MaybeXid, PhaseInv, HasSnapshot, XidStatus
<1>7. QED  BY <1>1, <1>2, <1>3, <1>4, <1>5, <1>6 DEF TransamInv

(* Reading one PGXACT entry keeps the invariant: a running transaction     *)
(* leaves todo only by entering xip.                                       *)
LEMMA ScanEntryStep ==
  ASSUME TransamInv, NEW b \in Backends, NEW c \in todo[b], ScanEntry(b, c)
  PROVE  TransamInv'
<1> USE LimitsAssumption DEF TransamInv, ScanEntry, Goto, NoSnapshot, NoScan, NoEntry
<1>1. TypeOK'
  <2>1. {pgxact[c]} \ {kInvalidTransactionId} \subseteq Xids
    BY DEF TypeOK, MaybeXid
  <2>2. [snap[b] EXCEPT !.xip = @ \cup ({pgxact[c]} \ {kInvalidTransactionId})]
          \in Snapshots
    <3>1. snap[b] \in Snapshots /\ snap[b].xip \in SUBSET Xids
      BY DEF TypeOK, Snapshots
    <3>2. snap[b].xip \cup ({pgxact[c]} \ {kInvalidTransactionId}) \in SUBSET Xids
      BY <2>1, <3>1
    <3>3. QED  BY <3>1, <3>2, SnapshotUpdate
  <2>3. snap' \in [Backends -> Snapshots]
    BY <2>2 DEF TypeOK
  <2>4. QED  BY <2>3 DEF TypeOK
<1>2. XidsDistinct'  BY DEF TypeOK, XidsDistinct, PhaseInv, HasSnapshot, MaybeXid, Xids
<1>3. UndecidedIsInProgress'
  BY DEF TypeOK, UndecidedIsInProgress, Undecided, Final, FetchFromCommitLog, Xids,
      MaybeXid, PhaseInv, HasSnapshot, XidsDistinct
<1>4. PhaseInv'
  BY DEF TypeOK, PhaseInv, HasSnapshot, Xids, MaybeXid, Final, FetchFromCommitLog,
      UndecidedIsInProgress, Undecided, XidsDistinct
<1>5. ScanInv'
  BY DEF TypeOK, ScanInv, PhaseInv, HasSnapshot, Undecided, FetchFromCommitLog, Xids,
      MaybeXid, UndecidedIsInProgress, Final, XidsDistinct
<1>6. CachedDecisionCorrect'
  BY DEF TypeOK, CachedDecisionCorrect, FetchFromCommitLog, UndecidedIsInProgress,
      Final, Undecided, Xids, MaybeXid, PhaseInv, HasSnapshot, XidStatus
<1>7. QED  BY <1>1, <1>2, <1>3, <1>4, <1>5, <1>6 DEF TransamInv

(* Releasing kProcArrayLock after the scan keeps the invariant: nothing is *)
(* left to read.                                                           *)
LEMMA EndScanStep ==
  ASSUME TransamInv, NEW b \in Backends, EndScan(b)
  PROVE  TransamInv'
<1> USE LimitsAssumption DEF TransamInv, EndScan, Goto, NoSnapshot, NoScan, NoEntry
<1>1. TypeOK'
  BY DEF TypeOK, Snapshots, Phases, MaybeXid, Xids, XidStatus, FetchFromCommitLog
<1>2. XidsDistinct'  BY DEF TypeOK, XidsDistinct, PhaseInv, HasSnapshot, MaybeXid, Xids
<1>3. UndecidedIsInProgress'
  BY DEF TypeOK, UndecidedIsInProgress, Undecided, Final, FetchFromCommitLog, Xids,
      MaybeXid, PhaseInv, HasSnapshot, XidsDistinct
<1>4. PhaseInv'
  BY DEF TypeOK, PhaseInv, HasSnapshot, Xids, MaybeXid, Final, FetchFromCommitLog,
      UndecidedIsInProgress, Undecided, XidsDistinct
<1>5. ScanInv'
  BY SMTT(30) DEF TypeOK, ScanInv, PhaseInv, HasSnapshot, Undecided, FetchFromCommitLog, Xids,
      MaybeXid, UndecidedIsInProgress, Final, XidsDistinct
<1>6. CachedDecisionCorrect'
  BY DEF TypeOK, CachedDecisionCorrect, FetchFromCommitLog, UndecidedIsInProgress,
      Final, Undecided, Xids, MaybeXid, PhaseInv, HasSnapshot, XidStatus
<1>7. QED  BY <1>1, <1>2, <1>3, <1>4, <1>5, <1>6 DEF TransamInv

(* Reading xmax and computing xmin keeps the invariant: nextXid only       *)
(* grows.                                                                  *)
LEMMA CompleteStep ==
  ASSUME TransamInv, NEW b \in Backends, CompleteSnapshot(b)
  PROVE  TransamInv'
<1> USE LimitsAssumption DEF TransamInv, CompleteSnapshot, Goto, NoSnapshot, NoScan, NoEntry
<1>1. TypeOK'
  <2>1. OldestOf(snap[b].xip) \in 0 .. MaxXid
    <3>1. snap[b].xip \in SUBSET Xids  BY DEF TypeOK, Snapshots
    <3>2. QED  BY <3>1, OldestOfType
  <2>2. [snap[b] EXCEPT !.xmax = nextXid, !.xmin = OldestOf(snap[b].xip)] \in Snapshots
    <3>1. snap[b] \in Snapshots /\ nextXid \in 0 .. MaxXid + 1  BY DEF TypeOK
    <3>2. QED  BY <2>1, <3>1, SnapshotUpdate
  <2>3. snap' \in [Backends -> Snapshots]  BY <2>2 DEF TypeOK
  <2>4. QED  BY <2>3 DEF TypeOK, Phases
<1>2. XidsDistinct'  BY DEF TypeOK, XidsDistinct, PhaseInv, HasSnapshot, MaybeXid, Xids
<1>3. UndecidedIsInProgress'
  BY DEF TypeOK, UndecidedIsInProgress, Undecided, Final, FetchFromCommitLog, Xids,
      MaybeXid, PhaseInv, HasSnapshot, XidsDistinct
<1>4. PhaseInv'
  BY DEF TypeOK, PhaseInv, HasSnapshot, Xids, MaybeXid, Final, FetchFromCommitLog,
      UndecidedIsInProgress, Undecided, XidsDistinct
<1>5. ScanInv'
  BY DEF TypeOK, ScanInv, PhaseInv, HasSnapshot, Undecided, FetchFromCommitLog, Xids,
      MaybeXid, UndecidedIsInProgress, Final, XidsDistinct
<1>6. CachedDecisionCorrect'
  BY DEF TypeOK, CachedDecisionCorrect, FetchFromCommitLog, UndecidedIsInProgress,
      Final, Undecided, Xids, MaybeXid, PhaseInv, HasSnapshot, XidStatus
<1>7. QED  BY <1>1, <1>2, <1>3, <1>4, <1>5, <1>6 DEF TransamInv

(* A commit log lookup that fills the cache keeps the invariant.           *)
LEMMA FetchStep ==
  ASSUME TransamInv, NEW b \in Backends, NEW x \in kFirstNormalTransactionId .. nextXid - 1, TransactionLogFetch(b, x)
  PROVE  TransamInv'
<1> USE LimitsAssumption DEF TransamInv, TransactionLogFetch, Goto, NoSnapshot, NoScan, NoEntry
<1>1. TypeOK'
  BY DEF TypeOK, Snapshots, Phases, MaybeXid, Xids, XidStatus, FetchFromCommitLog
<1>2. XidsDistinct'  BY DEF TypeOK, XidsDistinct, PhaseInv, HasSnapshot, MaybeXid, Xids
<1>3. UndecidedIsInProgress'
  BY DEF TypeOK, UndecidedIsInProgress, Undecided, Final, FetchFromCommitLog, Xids,
      MaybeXid, PhaseInv, HasSnapshot, XidsDistinct
<1>4. PhaseInv'
  BY DEF TypeOK, PhaseInv, HasSnapshot, Xids, MaybeXid, Final, FetchFromCommitLog,
      UndecidedIsInProgress, Undecided, XidsDistinct
<1>5. ScanInv'
  BY SMTT(30) DEF TypeOK, ScanInv, PhaseInv, HasSnapshot, Undecided, FetchFromCommitLog, Xids,
      MaybeXid, UndecidedIsInProgress, Final, XidsDistinct
<1>6. CachedDecisionCorrect'
  BY DEF TypeOK, CachedDecisionCorrect, FetchFromCommitLog, UndecidedIsInProgress,
      Final, Undecided, Xids, MaybeXid, PhaseInv, HasSnapshot, XidStatus
<1>7. QED  BY <1>1, <1>2, <1>3, <1>4, <1>5, <1>6 DEF TransamInv

(* Every step keeps the invariant.                                         *)
LEMMA NextStep == TransamInv /\ [Next]_vars => TransamInv'
<1> SUFFICES ASSUME TransamInv, [Next]_vars  PROVE TransamInv'
  OBVIOUS
<1>1. CASE UNCHANGED vars
  <2> USE <1>1 DEF vars, TransamInv
  <2>1. TypeOK'  BY DEF TypeOK
  <2>2. XidsDistinct'  BY DEF XidsDistinct
  <2>3. UndecidedIsInProgress'
    BY DEF UndecidedIsInProgress, Undecided, Final, FetchFromCommitLog
  <2>4. PhaseInv'  BY DEF PhaseInv, HasSnapshot, Final, FetchFromCommitLog
  <2>5. ScanInv'  BY DEF ScanInv, HasSnapshot, Undecided, FetchFromCommitLog
  <2>6. CachedDecisionCorrect'  BY DEF CachedDecisionCorrect, FetchFromCommitLog
  <2>7. QED  BY <2>1, <2>2, <2>3, <2>4, <2>5, <2>6
<1>2. CASE Next
  <2>1. PICK b \in Backends : Step(b)  BY <1>2 DEF Next
  <2>2. QED
    BY <2>1, InitProcessStep, ProcKillStep, StartStep, AllocStep, SetInProgressStep,
       PublishStep, EndStep, FinishStep, PrepareStep, FinishPreparedStep, SnapshotStep,
       ScanEntryStep, EndScanStep, CompleteStep, FetchStep
    DEF Step, CommitTransaction, AbortTransaction
<1>3. QED  BY <1>1, <1>2

(* The inductive invariant of the transaction manager holds in every       *)
(* reachable state of Transam.                                             *)
THEOREM TransamInvariant == Spec => []TransamInv
<1>1. Init => TransamInv  BY InitHolds
<1>2. TransamInv /\ [Next]_vars => TransamInv'  BY NextStep
<1>3. QED  BY <1>1, <1>2, PTL DEF Spec

(* No two transactions, running or prepared, ever share an XID             *)
(* (AllocateNextTransactionId under kXactGenLock).                         *)
THEOREM XidsAreDistinct == Spec => []XidsDistinct
<1>1. TransamInv => XidsDistinct  BY DEF TransamInv
<1>2. QED  BY <1>1, TransamInvariant, PTL

(* The commit log reads in progress for every transaction that has not     *)
(* been ended, and for every XID not assigned yet.                         *)
THEOREM LogMatchesProgress == Spec => []UndecidedIsInProgress
<1>1. TransamInv => UndecidedIsInProgress  BY DEF TransamInv
<1>2. QED  BY <1>1, TransamInvariant, PTL

(* A complete snapshot (GetSnapshotData) sees every transaction that was   *)
(* over when its scan began.                                               *)
THEOREM SnapshotsAreFresh == Spec => []SeesEarlierCommits
<1>1. TransamInv => SeesEarlierCommits
  BY DEF TransamInv, ScanInv, SeesEarlierCommits, XidVisibleInSnapshot
<1>2. QED  BY <1>1, TransamInvariant, PTL

(* A complete snapshot lists every transaction that was published when its *)
(* scan began and is still running.                                        *)
THEOREM SnapshotsHideRunning == Spec => []HidesRunning
<1>1. TransamInv => HidesRunning
  BY DEF TransamInv, ScanInv, PhaseInv, HasSnapshot, HidesRunning, HasSnapshot
<1>2. QED  BY <1>1, TransamInvariant, PTL

(* The single-entry cache of TransactionLogFetch never holds a decision    *)
(* the commit log does not.                                                *)
THEOREM CacheNeverWrong == Spec => []CachedDecisionCorrect
<1>1. TransamInv => CachedDecisionCorrect  BY DEF TransamInv
<1>2. QED  BY <1>1, TransamInvariant, PTL

(* Writing the status of an undecided XID revises no decision.             *)
LEMMA WriteKeepsDecisions ==
  ASSUME TransamInv, NEW b \in Backends, NEW y \in Xids, NEW status,
         ~Final(y), SetXidStatus(b, y, status)
  PROVE  \A x \in Xids : Final(x) => FetchFromCommitLog(x)' = FetchFromCommitLog(x)
<1>1. \A x \in Xids : x # y => FetchFromCommitLog(x)' = FetchFromCommitLog(x)
  BY WriteFrame DEF TransamInv
<1>2. QED  BY <1>1

(* No step of a backend revises a decision: the XIDs it writes are         *)
(* undecided.                                                              *)
LEMMA StepKeepsDecisions ==
  ASSUME TransamInv, NEW b \in Backends, Step(b)
  PROVE  \A x \in Xids : Final(x) => FetchFromCommitLog(x)' = FetchFromCommitLog(x)
<1>1. CASE UNCHANGED clog  BY <1>1 DEF FetchFromCommitLog
<1>2. ASSUME Undecided(b), NEW status, SetXidStatus(b, xid[b], status)
      PROVE  \A x \in Xids : Final(x) => FetchFromCommitLog(x)' = FetchFromCommitLog(x)
  <2>1. xid[b] \in Xids  BY <1>2 DEF TransamInv, TypeOK, Undecided, MaybeXid
  <2>2. ~Final(xid[b])  BY <1>2 DEF TransamInv, UndecidedIsInProgress
  <2>3. QED  BY <1>2, <2>1, <2>2, WriteKeepsDecisions
<1>3. CASE TransactionIdSetInProgress(b)
  <2>1. Undecided(b)
    BY <1>3 DEF TransactionIdSetInProgress, Undecided, TransamInv, PhaseInv
  <2>2. QED  BY <1>2, <1>3, <2>1 DEF TransactionIdSetInProgress
<1>4. ASSUME NEW phase, NEW status, EndTransaction(b, phase, status)
      PROVE  \A x \in Xids : Final(x) => FetchFromCommitLog(x)' = FetchFromCommitLog(x)
  <2>1. CASE xid[b] = kInvalidTransactionId
    BY <1>1, <1>4, <2>1 DEF EndTransaction
  <2>2. CASE xid[b] # kInvalidTransactionId
    BY <1>2, <1>4, <2>2 DEF EndTransaction, Undecided
  <2>3. QED  BY <2>1, <2>2
<1>5. ASSUME NEW y \in prepared[b], NEW status, FinishPreparedTransaction(b, y, status)
      PROVE  \A x \in Xids : Final(x) => FetchFromCommitLog(x)' = FetchFromCommitLog(x)
  <2>1. y \in Xids /\ ~Final(y)  BY DEF TransamInv, TypeOK, UndecidedIsInProgress
  <2>2. QED  BY <1>5, <2>1, WriteKeepsDecisions DEF FinishPreparedTransaction
<1>6. QED
  BY <1>1, <1>3, <1>4, <1>5
  DEF Step, InitProcess, ProcKill, StartTransaction, AllocateNextTransactionId, PublishXid,
      CommitTransaction, AbortTransaction, FinishTransaction, PrepareTransactionBlock,
      GetSnapshotData, EndScan, CompleteSnapshot, ScanEntry, TransactionLogFetch

(* A decision in the commit log is never revised, by any interleaving of   *)
(* TransactionIdSetInProgress, TransactionIdCommit and TransactionIdAbort. *)
THEOREM DecisionsStay == Spec => DecisionsAreFinal
<1>1. TransamInv /\ [Next]_vars =>
        [\A x \in Xids : Final(x) => FetchFromCommitLog(x)' = FetchFromCommitLog(x)]_vars
  BY StepKeepsDecisions DEF Next
<1>2. QED  BY <1>1, TransamInvariant, PTL DEF Spec, DecisionsAreFinal

(* Among the steps of a live backend only FinishTransaction and            *)
(* PrepareTransactionBlock take an XID out of PGXACT, the one after the    *)
(* decision, the other into the list of prepared transactions.             *)
LEMMA StepUnpublishes ==
  ASSUME TransamInv, NEW b \in Backends, Step(b), NEW c \in Backends,
         pgxact[c] \in Xids, pgxact[c] < kMaxXids, pgxact'[c] # pgxact[c], pc'[c] # "none"
  PROVE  Final(pgxact[c]) \/ pgxact[c] \in prepared'[c]
<1>1. c = b /\ (FinishTransaction(b) \/ PrepareTransactionBlock(b))
  BY SMTT(30) DEF TransamInv, TypeOK, PhaseInv, Xids,
      Step, InitProcess, ProcKill, StartTransaction, AllocateNextTransactionId, PublishXid,
      CommitTransaction, AbortTransaction, EndTransaction, FinishTransaction,
      PrepareTransactionBlock, TransactionIdSetInProgress, FinishPreparedTransaction, Goto,
      GetSnapshotData, EndScan, CompleteSnapshot, ScanEntry, TransactionLogFetch
<1>2. CASE FinishTransaction(b)
  BY SMTT(30), <1>1, <1>2 DEF FinishTransaction, TransamInv, PhaseInv, Xids
<1>3. CASE PrepareTransactionBlock(b)
  BY <1>1, <1>3 DEF PrepareTransactionBlock, TransamInv, PhaseInv, TypeOK
<1>4. QED  BY <1>1, <1>2, <1>3

(* A transaction of a live backend leaves PGXACT only decided in the       *)
(* commit log, or prepared.                                                *)
THEOREM DecidedFirst == Spec => DecidedBeforeUnpublished
<1>1. TransamInv /\ [Next]_vars =>
        [\A b \in Backends :
           /\ pgxact[b] \in Xids /\ pgxact[b] < kMaxXids
           /\ pgxact'[b] # pgxact[b] /\ pc'[b] # "none"
           => Final(pgxact[b]) \/ pgxact[b] \in prepared'[b]]_vars
  BY StepUnpublishes DEF Next
<1>2. QED  BY <1>1, TransamInvariant, PTL DEF Spec, DecidedBeforeUnpublished

-----------------------------------------------------------------------------
(* The steps of Transam as steps of Outcomes.                              *)

(* An XID can be decided by one backend only, so when b changes what it    *)
(* can decide and nobody else does, the open XIDs change by just that.     *)
LEMMA OpenChanges ==
  ASSUME TransamInv, NEW b \in Backends,
         \A c \in Backends \ {b} : Decidable(c)' = Decidable(c)
  PROVE  /\ Open' = (Open \ Decidable(b)) \cup Decidable(b)'
         /\ Decidable(b) \subseteq Open
<1>1. \A c \in Backends \ {b} : Decidable(c) \cap Decidable(b) = {}
  BY DEF TransamInv, XidsDistinct, Decidable, Undecided
<1>2. \A x : x \in Open <=> \E c \in Backends : x \in Decidable(c)
  BY DEF Open
<1>3. \A x : x \in Open' <=> \E c \in Backends : x \in Decidable(c)'
  BY DEF Open
<1>4. \A x : x \in Open' <=> (x \in Open /\ x \notin Decidable(b)) \/ x \in Decidable(b)'
  BY <1>1, <1>2, <1>3
<1>5. QED  BY <1>2, <1>4

(* A step that leaves the counter, the log and what can be decided alone   *)
(* is invisible.                                                           *)
LEMMA Stutters ==
  ASSUME TransamInv, NEW b \in Backends,
         \A c \in Backends : Decidable(c)' = Decidable(c),
         UNCHANGED <<nextXid, clog>>
  PROVE  UNCHANGED Out!vars
<1>1. Open' = Open  BY OpenChanges
<1>2. Outcome' = Outcome  BY DEF Outcome, FetchFromCommitLog
<1>3. QED  BY <1>1, <1>2 DEF Out!vars

(* A status written for an XID that b can decide, and b then lets go of,   *)
(* decides it; when the log has no room for it, it is abandoned.           *)
LEMMA Decides ==
  ASSUME TransamInv, NEW b \in Backends, NEW x \in Decidable(b),
         NEW status \in {"kCommitted", "kAborted"}, SetXidStatus(b, x, status),
         \A c \in Backends \ {b} : Decidable(c)' = Decidable(c),
         Decidable(b)' = Decidable(b) \ {x}, UNCHANGED nextXid
  PROVE  Out!Next
<1>1. Open' = Open \ {x} /\ x \in Open
  BY OpenChanges
<1>2. x \in Xids /\ ~Final(x)
  BY DEF TransamInv, TypeOK, UndecidedIsInProgress, Decidable, Undecided, MaybeXid
<1>3. CASE x < kMaxXids
  <2>1. clog' = [clog EXCEPT ![x] = status] /\ x \in 0 .. kMaxXids - 1
    BY <1>2, <1>3, LimitsAssumption DEF SetXidStatus, Xids
  <2>2. Outcome' = [Outcome EXCEPT ![x] = status]
    <3>1. \A y \in Xids : (IF y < kMaxXids THEN clog'[y] ELSE "kInProgress") =
                          IF y = x THEN status
                          ELSE IF y < kMaxXids THEN clog[y] ELSE "kInProgress"
      BY <1>2, <1>3, <2>1, LimitsAssumption DEF TransamInv, TypeOK, Xids
    <3>2. Outcome' = [y \in Xids |-> IF y < kMaxXids THEN clog'[y] ELSE "kInProgress"]
      BY DEF Outcome, FetchFromCommitLog
    <3>3. Outcome = [y \in Xids |-> IF y < kMaxXids THEN clog[y] ELSE "kInProgress"]
      BY DEF Outcome, FetchFromCommitLog
    <3>4. QED  BY <1>2, <3>1, <3>2, <3>3
  <2>3. Outcome[x] = "kInProgress"
    BY <1>2 DEF Outcome, Final
  <2>4. Out!Decide(x, status)
    BY <1>1, <2>2, <2>3 DEF Out!Decide
  <2>5. QED  BY <1>1, <2>4 DEF Out!Next, Out!Decision
<1>4. CASE ~(x < kMaxXids)
  <2>1. Outcome' = Outcome
    BY <1>4 DEF SetXidStatus, Outcome, FetchFromCommitLog
  <2>2. Out!Abandon({x}) /\ {x} \in SUBSET Open
    BY <1>1, <2>1 DEF Out!Abandon
  <2>3. QED  BY <2>2 DEF Out!Next
<1>5. QED  BY <1>3, <1>4

(* Each step of a backend is one step of Outcomes or none.                 *)
LEMMA StepImplements ==
  ASSUME TransamInv, NEW b \in Backends, Step(b)
  PROVE  [Out!Next]_Out!vars
<1> USE DEF TransamInv
<1>1. CASE AllocateNextTransactionId(b)
  <2> USE <1>1, LimitsAssumption DEF AllocateNextTransactionId, Goto
  <2>1. \A c \in Backends \ {b} : Decidable(c)' = Decidable(c)
    BY DEF Decidable, Undecided, TypeOK
  <2>2. Decidable(b)' = Decidable(b) \cup {nextXid} /\ nextXid \in Xids
    BY DEF Decidable, Undecided, TypeOK, Xids
  <2>3. Open' = Open \cup {nextXid}  BY <2>1, <2>2, OpenChanges
  <2>4. Outcome' = Outcome  BY DEF Outcome, FetchFromCommitLog
  <2>5. Out!Assign  BY <2>2, <2>3, <2>4 DEF Out!Assign
  <2>6. QED  BY <2>5 DEF Out!Next
<1>2. CASE ProcKill(b)
  <2> USE <1>2 DEF ProcKill, Goto
  <2>1. \A c \in Backends \ {b} : Decidable(c)' = Decidable(c)
    BY DEF Decidable, Undecided, TypeOK
  <2>2. Decidable(b)' = {}
    BY DEF Decidable, Undecided, TypeOK
  <2>3. Open' = Open \ Decidable(b) /\ Decidable(b) \in SUBSET Open
    BY <2>1, <2>2, OpenChanges
  <2>4. Outcome' = Outcome  BY DEF Outcome, FetchFromCommitLog
  <2>5. Out!Abandon(Decidable(b))  BY <2>3, <2>4 DEF Out!Abandon
  <2>6. QED  BY <2>3, <2>5 DEF Out!Next
<1>3. ASSUME NEW phase \in {"commit", "abort"}, NEW status \in {"kCommitted", "kAborted"},
             EndTransaction(b, phase, status)
      PROVE  [Out!Next]_Out!vars
  <2> USE <1>3 DEF EndTransaction, Goto
  <2>1. \A c \in Backends \ {b} : Decidable(c)' = Decidable(c)
    BY DEF Decidable, Undecided, TypeOK
  <2>2. CASE xid[b] = kInvalidTransactionId
    <3>1. Decidable(b)' = Decidable(b) /\ UNCHANGED <<nextXid, clog>>
      BY <2>2 DEF Decidable, Undecided
    <3>2. QED  BY <2>1, <3>1, Stutters
  <2>3. CASE xid[b] # kInvalidTransactionId
    <3>1. xid[b] \in Decidable(b) /\ Decidable(b)' = Decidable(b) \ {xid[b]}
      BY <2>3 DEF Decidable, Undecided, TypeOK, XidsDistinct
    <3>2. SetXidStatus(b, xid[b], status) /\ UNCHANGED nextXid  BY <2>3
    <3>3. Out!Next  BY <2>1, <3>1, <3>2, Decides
    <3>4. QED  BY <3>3
  <2>4. QED  BY <2>2, <2>3
<1>4. ASSUME NEW x \in prepared[b], NEW status \in {"kCommitted", "kAborted"},
             FinishPreparedTransaction(b, x, status)
      PROVE  [Out!Next]_Out!vars
  <2> USE <1>4 DEF FinishPreparedTransaction
  <2>1. \A c \in Backends \ {b} : Decidable(c)' = Decidable(c)
    BY DEF Decidable, Undecided, TypeOK
  <2>2. x \in Decidable(b) /\ Decidable(b)' = Decidable(b) \ {x}
    BY DEF Decidable, Undecided, TypeOK, XidsDistinct
  <2>3. Out!Next  BY <2>1, <2>2, Decides
  <2>4. QED  BY <2>3
<1>5. CASE TransactionIdSetInProgress(b)
  <2> USE <1>5 DEF TransactionIdSetInProgress, Goto
  <2>1. \A c \in Backends : Decidable(c)' = Decidable(c)
    BY DEF Decidable, Undecided, TypeOK
  <2>2. Undecided(b) /\ ~Final(xid[b]) /\ xid[b] \in Xids
    BY DEF Undecided, UndecidedIsInProgress, PhaseInv, TypeOK, MaybeXid
  <2>3. UNCHANGED <<nextXid, clog>>
    BY <2>2, LimitsAssumption
    DEF SetXidStatus, Final, FetchFromCommitLog, TypeOK, Xids
  <2>4. QED  BY <2>1, <2>3, Stutters
<1>6. CASE PrepareTransactionBlock(b) \/ FinishTransaction(b)
  <2> USE <1>6 DEF PrepareTransactionBlock, FinishTransaction, Goto
  <2>1. \A c \in Backends : Decidable(c)' = Decidable(c)
    BY DEF Decidable, Undecided, TypeOK
  <2>2. QED  BY <2>1, Stutters
<1>7. CASE \/ InitProcess(b) \/ StartTransaction(b) \/ PublishXid(b)
           \/ GetSnapshotData(b) \/ EndScan(b) \/ CompleteSnapshot(b)
           \/ \E c \in Backends : ScanEntry(b, c)
           \/ \E x \in kFirstNormalTransactionId .. nextXid - 1 : TransactionLogFetch(b, x)
  <2>1. /\ UNCHANGED <<nextXid, clog, xid, prepared>>
        /\ \A c \in Backends : pc'[c] \in {"commit", "abort"} <=> pc[c] \in {"commit", "abort"}
    BY <1>7 DEF InitProcess, StartTransaction, PublishXid, GetSnapshotData, EndScan,
       CompleteSnapshot, ScanEntry, TransactionLogFetch, Goto, TypeOK
  <2>2. \A c \in Backends : Decidable(c)' = Decidable(c)
    BY <2>1 DEF Decidable, Undecided
  <2>3. QED  BY <2>1, <2>2, Stutters
<1>8. QED
  BY <1>1, <1>2, <1>3, <1>4, <1>5, <1>6, <1>7
  DEF Step, CommitTransaction, AbortTransaction, TypeOK

(* Assigning, publishing, preparing and ending transactions, in any        *)
(* interleaving of the backends' separate writes, implements Outcomes: an  *)
(* XID is handed out once and decided at most once, while it is open.      *)
THEOREM TransamRefinement == Spec => ImplementsOutcomes
<1>1. Init => Out!Init
  <2> SUFFICES ASSUME Init PROVE Out!Init  OBVIOUS
  <2> USE LimitsAssumption DEF Init
  <2>1. nextXid \in Xids /\ nextXid - 1 \notin Xids  BY DEF Xids
  <2>2. Open = {}  BY DEF Open, Decidable, Undecided
  <2>3. Outcome = [x \in Xids |-> "kInProgress"]
    BY DEF Outcome, FetchFromCommitLog, Xids
  <2>4. QED  BY <2>1, <2>2, <2>3 DEF Out!Init
<1>2. TransamInv /\ [Next]_vars => [Out!Next]_Out!vars
  <2> SUFFICES ASSUME TransamInv, [Next]_vars PROVE [Out!Next]_Out!vars  OBVIOUS
  <2>1. CASE UNCHANGED vars
    <3>1. Open' = Open /\ Outcome' = Outcome /\ nextXid' = nextXid
      BY <2>1 DEF vars, Open, Decidable, Undecided, Outcome, FetchFromCommitLog
    <3>2. QED  BY <3>1 DEF Out!vars
  <2>2. CASE Next  BY <2>2, StepImplements DEF Next
  <2>3. QED  BY <2>1, <2>2
<1>3. QED  BY <1>1, <1>2, TransamInvariant, PTL DEF Spec, ImplementsOutcomes, Out!Spec
=============================================================================
