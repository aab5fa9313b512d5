---------------------------- MODULE HeapProofs -----------------------------
(***************************************************************************)
(* Proofs about module Heap, for any number of backends, XIDs and          *)
(* MultiXactIds.  The inductive invariant is HeapInv.  Its core is RowInv: *)
(* the inserter bits of the row's infomask are true, an xmax that is not a *)
(* lock is a deleter, and whoever deleted or may delete the row is its     *)
(* inserter or saw it committed.  The last clause is what keeps the bit    *)
(* shared by XMIN_FROZEN and XMAX_COMMITTED from making an uncommitted     *)
(* row visible.                                                            *)
(***************************************************************************)
EXTENDS Heap, WellFoundedInduction, TLAPS

USE DEF kInvalidTransactionId, kFrozenTransactionId, kFirstNormalTransactionId

Entries == {NoEntry} \cup [xid : Xids, status : XidStatus]
Tuples  == [lp : {"kUnused", "kNormal", "kDead"}, xmin : 0 .. MaxXid,
            xmax : 0 .. MaxXid, infomask : SUBSET Flags]

(* A lookup through a true cache answers what the log has, or in progress, *)
(* and leaves the cache true.                                              *)
LEMMA FetchTrue ==
  ASSUME TypeOK, NEW entry \in Entries, EntryTrue(entry), NEW x \in 0 .. MaxXid
  PROVE  /\ TransactionLogFetch(entry, x) \in Entries
         /\ EntryTrue(TransactionLogFetch(entry, x))
         /\ x \in Xids /\ StatusOf(entry, x) # "kInProgress" =>
              clog[x] = StatusOf(entry, x)
         /\ x \in Xids /\ entry.xid # x => StatusOf(entry, x) = clog[x]
BY BoundsAssumption
   DEF TypeOK, Entries, NoEntry, EntryTrue, TransactionLogFetch, StatusOf, Xids, XidStatus

(* Step 1 of HeapTupleSatisfiesMVCC: its hints are true, it touches no bit *)
(* of the deleter, and a row it lets through was inserted by the reader's  *)
(* own transaction or by a committed one.                                  *)
LEMMA XminTested ==
  ASSUME HeapInv, NEW b \in Backends, tup.lp = "kNormal",
         inserter # kInvalidTransactionId
  PROVE  LET f == TestXmin(b) IN
         /\ f.infomask \in SUBSET Flags /\ f.entry \in Entries
         /\ EntryTrue(f.entry)
         /\ InserterBitsTrue(f.infomask)
         /\ \A m \in {kHeapXmaxLocked, kHeapXmaxCommitted, kHeapXmaxInvalid} :
              m \in f.infomask <=> m \in tup.infomask
         /\ f.counts => inserter = xid[b] \/ clog[inserter] = "kCommitted"
<1> DEFINE x == tup.xmin
           entry == TransactionLogFetch(cache[b], x)
           status == StatusOf(cache[b], x)
<1>1. /\ x \in 0 .. MaxXid /\ cache[b] \in Entries /\ EntryTrue(cache[b])
      /\ tup.infomask \in SUBSET Flags
  BY DEF HeapInv, TypeOK, Entries
<1>2. /\ entry \in Entries /\ EntryTrue(entry)
      /\ x \in Xids /\ status # "kInProgress" => clog[x] = status
  BY <1>1, FetchTrue DEF HeapInv
<1>3. /\ InserterBitsTrue(tup.infomask)
      /\ x # inserter => clog[inserter] = "kCommitted"
      /\ inserter \in Xids
  BY DEF HeapInv, RowInv, TypeOK, MaybeXid
<1>4. CASE GetXminStatus # "kInProgress" \/ x = xid[b]
  <2>1. TestXmin(b).infomask = tup.infomask /\ TestXmin(b).entry = cache[b]
    BY <1>4 DEF TestXmin, Finding, GetXminStatus
  <2>2. TestXmin(b).counts => inserter = xid[b] \/ clog[inserter] = "kCommitted"
    BY <1>3, <1>4 DEF TestXmin, Finding, GetXminStatus, InserterBitsTrue
  <2>3. QED  BY <1>1, <1>3, <2>1, <2>2
<1>5. CASE GetXminStatus = "kInProgress" /\ x # xid[b]
  <2> DEFINE seen == Finished(x, snap[b]) /\ status = "kCommitted"
             hinted == CASE seen -> (tup.infomask \cup {kHeapXminCommitted})
                                      \ {kHeapXminInvalid}
                         [] ~seen /\ status = "kAborted" ->
                              (tup.infomask \cup {kHeapXminInvalid})
                                \ {kHeapXminCommitted}
                         [] OTHER -> tup.infomask
  <2>1. TestXmin(b) = Finding(seen, hinted, entry)
    BY <1>5 DEF TestXmin
  <2>2. seen => clog[inserter] = "kCommitted"
    BY <1>2, <1>3
  <2>3. status = "kAborted" => clog[inserter] = "kAborted" \/ x # inserter
    BY <1>2, <1>3
  <2>4. x # inserter => status = "kCommitted"
    BY <1>3, <1>1 DEF HeapInv, RowInv, StatusOf
  <2>5. hinted \in SUBSET Flags /\ InserterBitsTrue(hinted)
    BY <1>1, <1>3, <2>2, <2>3, <2>4
    DEF InserterBitsTrue, Flags, kHeapXmaxLocked, kHeapXminCommitted,
        kHeapXminInvalid, kHeapXminFrozen, kHeapXmaxCommitted, kHeapXmaxInvalid
  <2>6. \A m \in {kHeapXmaxLocked, kHeapXmaxCommitted, kHeapXmaxInvalid} :
          m \in hinted <=> m \in tup.infomask
    BY DEF kHeapXmaxLocked, kHeapXminCommitted, kHeapXminInvalid,
           kHeapXmaxCommitted, kHeapXmaxInvalid
  <2> HIDE DEF seen, hinted
  <2>7. QED  BY <1>2, <2>1, <2>2, <2>5, <2>6 DEF Finding
<1>6. QED  BY <1>4, <1>5

(* Step 2, for a row that passed step 1: what hides the row is a deletion  *)
(* by the reader's own transaction, by a committed one, or the bit shared  *)
(* with freezing, and the hints it leaves are true.                        *)
LEMMA XmaxTested ==
  ASSUME HeapInv, NEW b \in Backends, tup.lp = "kNormal",
         inserter # kInvalidTransactionId,
         NEW mask \in SUBSET Flags, NEW entry \in Entries, EntryTrue(entry),
         InserterBitsTrue(mask),
         \A m \in {kHeapXmaxLocked, kHeapXmaxCommitted, kHeapXmaxInvalid} :
           m \in mask <=> m \in tup.infomask,
         inserter = xid[b] \/ clog[inserter] = "kCommitted"
  PROVE  LET f == TestXmax(b, mask, entry) IN
         /\ f.infomask \in SUBSET Flags /\ f.entry \in Entries
         /\ EntryTrue(f.entry)
         /\ InserterBitsTrue(f.infomask)
         /\ kHeapXmaxLocked \in f.infomask <=> kHeapXmaxLocked \in mask
         /\ kHeapXmaxCommitted \in f.infomask =>
              tup.xmin = kFrozenTransactionId \/ DeleteCommitted
         /\ f.counts => \/ xid[b] \in deleters
                        \/ tup.xmin = kFrozenTransactionId
                        \/ DeleteCommitted
<1> DEFINE x == tup.xmax
           looked == TransactionLogFetch(entry, x)
           status == StatusOf(entry, x)
           past == Finished(x, snap[b])
           deleted == past /\ status = "kCommitted"
           hinted == CASE deleted -> (mask \cup {kHeapXmaxCommitted})
                                       \ {kHeapXmaxInvalid}
                       [] status # "kCommitted" ->
                            (mask \cup {kHeapXmaxInvalid}) \ {kHeapXmaxCommitted}
                       [] OTHER -> mask
<1>1. x \in 0 .. MaxXid  BY DEF HeapInv, TypeOK
<1>2. /\ looked \in Entries /\ EntryTrue(looked)
      /\ x \in Xids /\ status # "kInProgress" => clog[x] = status
  BY <1>1, FetchTrue DEF HeapInv
<1>3. x # kInvalidTransactionId /\ kHeapXmaxLocked \notin mask =>
        x \in deleters /\ x \in Xids
  BY DEF HeapInv, RowInv, TypeOK
<1>4. kHeapXmaxCommitted \in mask =>
        tup.xmin = kFrozenTransactionId \/ DeleteCommitted
  BY DEF HeapInv, XmaxHintTrue
<1>5. CASE x = kInvalidTransactionId \/ kHeapXmaxLocked \in mask
  BY <1>4, <1>5 DEF TestXmax, Finding
<1>6. CASE x # kInvalidTransactionId /\ kHeapXmaxLocked \notin mask
  <2>1. CASE GetXmaxStatus # "kInProgress" \/ x = xid[b] \/ x >= snap[b].xmax
    <3>1. /\ TestXmax(b, mask, entry).infomask = mask
          /\ TestXmax(b, mask, entry).entry = entry
      BY <1>6, <2>1 DEF TestXmax, Finding, GetXmaxStatus
    <3>2. TestXmax(b, mask, entry).counts =>
            kHeapXmaxCommitted \in mask \/ x = xid[b]
      BY <1>6, <2>1 DEF TestXmax, Finding, GetXmaxStatus
    <3>3. QED  BY <1>3, <1>4, <1>6, <3>1, <3>2
  <2>2. CASE GetXmaxStatus = "kInProgress" /\ x # xid[b] /\ ~(x >= snap[b].xmax)
    <3>1. TestXmax(b, mask, entry) = Finding(deleted, hinted, looked)
      BY <1>6, <2>2 DEF TestXmax
    <3>2. deleted => DeleteCommitted
      BY <1>2, <1>3, <1>6 DEF DeleteCommitted
    <3>3. clog[inserter] = "kCommitted"
      BY <1>3, <1>6, <2>2 DEF HeapInv, RowInv
    <3>4. /\ hinted \in SUBSET Flags
          /\ InserterBitsTrue(hinted)
          /\ kHeapXmaxLocked \in hinted <=> kHeapXmaxLocked \in mask
          /\ kHeapXmaxCommitted \in hinted => kHeapXmaxCommitted \in mask \/ deleted
      BY <3>3 DEF InserterBitsTrue, Flags, kHeapXmaxLocked, kHeapXminCommitted,
        kHeapXminInvalid, kHeapXminFrozen, kHeapXmaxCommitted, kHeapXmaxInvalid
    <3> HIDE DEF deleted, hinted
    <3>5. QED  BY <1>2, <1>4, <3>1, <3>2, <3>4 DEF Finding
  <2>3. QED  BY <2>1, <2>2
<1>7. QED  BY <1>5, <1>6

(* The whole test.                                                         *)
LEMMA RowTested ==
  ASSUME HeapInv, NEW b \in Backends, tup.lp = "kNormal",
         inserter # kInvalidTransactionId
  PROVE  LET test == HeapTupleSatisfiesMVCC(b) IN
         /\ test.infomask \in SUBSET Flags /\ test.entry \in Entries
         /\ EntryTrue(test.entry)
         /\ InserterBitsTrue(test.infomask)
         /\ kHeapXmaxLocked \in test.infomask <=> kHeapXmaxLocked \in tup.infomask
         /\ kHeapXmaxCommitted \in test.infomask =>
              tup.xmin = kFrozenTransactionId \/ DeleteCommitted
         /\ test.visible => inserter = xid[b] \/ clog[inserter] = "kCommitted"
<1> DEFINE min == TestXmin(b)
           max == TestXmax(b, min.infomask, min.entry)
<1>1. /\ min.infomask \in SUBSET Flags /\ min.entry \in Entries
      /\ EntryTrue(min.entry)
      /\ InserterBitsTrue(min.infomask)
      /\ \A m \in {kHeapXmaxLocked, kHeapXmaxCommitted, kHeapXmaxInvalid} :
           m \in min.infomask <=> m \in tup.infomask
      /\ min.counts => inserter = xid[b] \/ clog[inserter] = "kCommitted"
  BY XminTested
<1> HIDE DEF min
<1>2. CASE min.counts
  <2>1. /\ max.infomask \in SUBSET Flags /\ max.entry \in Entries
        /\ EntryTrue(max.entry)
        /\ InserterBitsTrue(max.infomask)
        /\ kHeapXmaxLocked \in max.infomask <=> kHeapXmaxLocked \in min.infomask
        /\ kHeapXmaxCommitted \in max.infomask =>
             tup.xmin = kFrozenTransactionId \/ DeleteCommitted
    BY <1>1, <1>2, XmaxTested
  <2> HIDE DEF max
  <2>2. QED  BY <1>1, <1>2, <2>1 DEF HeapTupleSatisfiesMVCC, min, max
<1>3. CASE ~min.counts
  <2>1. kHeapXmaxCommitted \in tup.infomask =>
          tup.xmin = kFrozenTransactionId \/ DeleteCommitted
    BY DEF HeapInv, XmaxHintTrue
  <2>2. QED  BY <1>1, <1>3, <2>1 DEF HeapTupleSatisfiesMVCC, min
<1>4. QED  BY <1>2, <1>3

(* An empty table and no transaction.                                      *)
LEMMA InitHolds == Init => HeapInv
<1> SUFFICES ASSUME Init PROVE HeapInv  OBVIOUS
<1>1. TypeOK
  BY BoundsAssumption DEF Init, TypeOK, NoTuple, NoSnapshot, XidStatus, MaybeXid, Xids
<1>2. UndecidedInv /\ RowInv /\ XmaxHintTrue
  BY BoundsAssumption DEF Init, UndecidedInv, RowInv, XmaxHintTrue, NoTuple
<1>3. \A b \in Backends : EntryTrue(cache[b])
  BY DEF Init, EntryTrue, NoEntry
<1>4. QED  BY <1>1, <1>2, <1>3 DEF HeapInv

(* GetCurrentTransactionId yields the backend's own XID or a new one, and  *)
(* every transaction stays undecided.                                      *)
LEMMA AssignXidHolds ==
  ASSUME TypeOK, UndecidedInv, NEW b \in Backends, AssignXid(b)
  PROVE  /\ CurrentXid(b) \in Xids /\ CurrentXid(b) < nextXid'
         /\ xid'[b] = CurrentXid(b)
         /\ xid' \in [Backends -> MaybeXid]
         /\ nextXid' \in kFirstNormalTransactionId .. MaxXid + 1
         /\ nextXid' >= nextXid
         /\ \A c \in Backends : c # b => xid'[c] = xid[c]
         /\ xid[b] # kInvalidTransactionId => xid'[b] = xid[b]
         /\ UndecidedInv'
<1>1. /\ CurrentXid(b) \in Xids /\ CurrentXid(b) < nextXid'
      /\ xid'[b] = CurrentXid(b)
      /\ xid' \in [Backends -> MaybeXid]
      /\ nextXid' \in kFirstNormalTransactionId .. MaxXid + 1
      /\ nextXid' >= nextXid
      /\ \A c \in Backends : c # b => xid'[c] = xid[c]
      /\ xid[b] # kInvalidTransactionId => xid'[b] = xid[b]
  BY BoundsAssumption DEF TypeOK, UndecidedInv, AssignXid, CurrentXid, MaybeXid, Xids
<1>2. clog' = clog /\ prepared' = prepared  BY DEF AssignXid
<1>3. CASE xid[b] # kInvalidTransactionId
  <2>1. xid' = xid /\ nextXid' = nextXid
    BY <1>3 DEF TypeOK, AssignXid, CurrentXid
  <2>2. QED  BY <1>1, <1>2, <2>1 DEF UndecidedInv
<1>4. CASE xid[b] = kInvalidTransactionId
  <2>1. xid'[b] = nextXid /\ nextXid' = nextXid + 1 /\ nextXid <= MaxXid
    BY <1>1, <1>4 DEF AssignXid, CurrentXid
  <2>2. clog[nextXid] = "kInProgress" /\ \A c \in Backends : nextXid \notin prepared[c]
    BY <2>1, BoundsAssumption DEF TypeOK, UndecidedInv
  <2>3. \A c \in Backends : xid[c] # nextXid
    BY SMTT(30), BoundsAssumption DEF TypeOK, UndecidedInv, MaybeXid, Xids
  <2>4. UndecidedInv'
    <3>1. ASSUME NEW c \in Backends, xid'[c] # kInvalidTransactionId
          PROVE  /\ xid'[c] < nextXid' /\ clog[xid'[c]] = "kInProgress"
                 /\ \A d \in Backends : xid'[c] \notin prepared[d]
                 /\ \A d \in Backends : xid'[d] = xid'[c] => d = c
      <4>1. CASE c = b  BY <1>1, <2>1, <2>2, <2>3, <4>1
      <4>2. CASE c # b
        <5>1. /\ xid'[c] = xid[c] /\ xid[c] # nextXid /\ xid[c] \in Xids
              /\ nextXid \in Nat
          BY <1>1, <2>3, <3>1, <4>2, BoundsAssumption DEF TypeOK, MaybeXid
        <5>2. /\ xid[c] < nextXid' /\ clog[xid[c]] = "kInProgress"
              /\ \A d \in Backends : xid[c] \notin prepared[d]
          BY <2>1, <3>1, <5>1 DEF UndecidedInv, Xids
        <5>3. \A d \in Backends : xid'[d] = xid[c] => d = c
          BY <1>1, <2>1, <3>1, <5>1 DEF UndecidedInv
        <5>4. QED  BY <5>1, <5>2, <5>3
      <4>3. QED  BY <4>1, <4>2
    <3>2. \A c \in Backends : \A x \in prepared[c] :
            /\ x < nextXid' /\ clog[x] = "kInProgress"
            /\ \A d \in Backends : x \in prepared[d] => d = c
      BY <2>1, BoundsAssumption DEF TypeOK, UndecidedInv, Xids
    <3>3. \A x \in nextXid' .. MaxXid : clog[x] = "kInProgress"
      BY <2>1, BoundsAssumption DEF TypeOK, UndecidedInv
    <3>4. QED  BY <1>2, <3>1, <3>2, <3>3 DEF UndecidedInv
  <2>5. QED  BY <1>1, <2>4
<1>5. QED  BY <1>3, <1>4

(* A decision for a running or prepared transaction changes no other       *)
(* decision and keeps the caches true.                                     *)
LEMMA StatusWritten ==
  ASSUME TypeOK, NEW b \in Backends, NEW x \in Xids,
         NEW status \in {"kCommitted", "kAborted"},
         clog[x] = "kInProgress", SetXidStatus(b, x, status),
         \A c \in Backends : EntryTrue(cache[c])
  PROVE  /\ clog' \in [0 .. MaxXid -> XidStatus]
         /\ clog'[x] = status
         /\ \A y \in 0 .. MaxXid : y # x => clog'[y] = clog[y]
         /\ \A y \in 0 .. MaxXid : clog[y] # "kInProgress" => clog'[y] = clog[y]
         /\ cache' \in [Backends -> Entries]
         /\ \A c \in Backends : EntryTrue(cache[c])'
<1>1. /\ clog' \in [0 .. MaxXid -> XidStatus]
      /\ clog'[x] = status
      /\ \A y \in 0 .. MaxXid : y # x => clog'[y] = clog[y]
      /\ \A y \in 0 .. MaxXid : clog[y] # "kInProgress" => clog'[y] = clog[y]
  BY BoundsAssumption DEF TypeOK, SetXidStatus, Xids, XidStatus
<1>2. cache' \in [Backends -> Entries]
  BY DEF TypeOK, SetXidStatus, Entries
<1>3. ASSUME NEW c \in Backends  PROVE EntryTrue(cache[c])'
  <2>1. cache'[c] = cache[c] \/ cache'[c] = NoEntry
    BY DEF TypeOK, SetXidStatus
  <2>2. cache[c] \in Entries /\ (cache[c].status # "kInProgress" => cache[c].xid \in 0 .. MaxXid)
    BY BoundsAssumption DEF TypeOK, Entries, NoEntry, Xids
  <2>3. QED  BY <1>1, <2>1, <2>2 DEF EntryTrue, NoEntry
<1>4. QED  BY <1>1, <1>2, <1>3

(* A write to another table.                                               *)
LEMMA WriteElsewhereStep ==
  ASSUME HeapInv, NEW b \in Backends, WriteElsewhere(b), oldest' = oldest
  PROVE  HeapInv'
<1>1. TypeOK /\ UndecidedInv /\ AssignXid(b)  BY DEF HeapInv, WriteElsewhere
<1>2. /\ xid' \in [Backends -> MaybeXid]
      /\ nextXid' \in kFirstNormalTransactionId .. MaxXid + 1 /\ nextXid' >= nextXid
      /\ \A c \in Backends : c # b => xid'[c] = xid[c]
      /\ UndecidedInv'
  BY <1>1, AssignXidHolds
<1>3. TypeOK'  BY <1>1, <1>2 DEF TypeOK, AssignXid, WriteElsewhere
<1>4. RowInv'
  <2>1. \A c \in target : xid'[c] = inserter \/ clog[inserter] = "kCommitted"
    BY <1>2 DEF HeapInv, RowInv, WriteElsewhere, TypeOK
  <2>2. inserter # kInvalidTransactionId => inserter < nextXid'
    BY <1>2, BoundsAssumption DEF HeapInv, RowInv, TypeOK, MaybeXid, Xids
  <2>3. QED
    BY <2>1, <2>2 DEF HeapInv, RowInv, InserterBitsTrue, WriteElsewhere, AssignXid
<1>5. XmaxHintTrue' /\ \A c \in Backends : EntryTrue(cache[c])'
  BY DEF HeapInv, XmaxHintTrue, DeleteCommitted, EntryTrue, WriteElsewhere, AssignXid
<1>6. QED  BY <1>2, <1>3, <1>4, <1>5 DEF HeapInv

(* The transaction's snapshot is taken.                                    *)
LEMMA SnapshotStep ==
  ASSUME HeapInv, NEW b \in Backends, GetTransactionSnapshot(b), oldest' = oldest
  PROVE  HeapInv'
<1>1. Running \in SUBSET Xids  BY DEF HeapInv, TypeOK, Running, MaybeXid
<1>2. TypeOK'
  BY <1>1, BoundsAssumption DEF HeapInv, TypeOK, GetTransactionSnapshot
<1>3. UndecidedInv' /\ RowInv' /\ XmaxHintTrue' /\ \A c \in Backends : EntryTrue(cache[c])'
  BY DEF HeapInv, UndecidedInv, RowInv, InserterBitsTrue, XmaxHintTrue,
         DeleteCommitted, EntryTrue, GetTransactionSnapshot
<1>4. QED  BY <1>2, <1>3 DEF HeapInv

(* The row and the hints after transaction x of no open statement got its  *)
(* decision: everything RowInv says is about decisions that stay.          *)
LEMMA RowAfterDecision ==
  ASSUME HeapInv, NEW x \in Xids, clog[x] = "kInProgress",
         \A y \in 0 .. MaxXid : clog[y] # "kInProgress" => clog'[y] = clog[y],
         UNCHANGED <<tup, inserter, deleters, nextXid>>,
         target' \subseteq target,
         \A c \in target' : xid'[c] = xid[c]
  PROVE  RowInv' /\ XmaxHintTrue'
<1>1. inserter \in 0 .. MaxXid /\ deleters \subseteq 0 .. MaxXid
  BY BoundsAssumption DEF HeapInv, TypeOK, MaybeXid, Xids
<1>2. \A y \in 0 .. MaxXid, status \in {"kCommitted", "kAborted"} :
        clog[y] = status => clog'[y] = status
  OBVIOUS
<1>3. XmaxHintTrue'
  BY <1>1, <1>2 DEF HeapInv, XmaxHintTrue, DeleteCommitted
<1>4. RowInv'
  <2>2. \A c \in target' : xid'[c] = inserter \/ clog'[inserter] = "kCommitted"
    BY <1>1, <1>2 DEF HeapInv, RowInv
  <2>3. \A y \in deleters : y = inserter \/ clog'[inserter] = "kCommitted"
    BY <1>1, <1>2 DEF HeapInv, RowInv
  <2>4. inserter = kInvalidTransactionId =>
          tup = NoTuple /\ deleters = {} /\ target' = {}
    BY DEF HeapInv, RowInv
  <2>5. inserter # kInvalidTransactionId =>
          /\ inserter < nextXid
          /\ tup.xmin \in {inserter, kFrozenTransactionId}
          /\ tup.xmin = kFrozenTransactionId => clog'[inserter] = "kCommitted"
          /\ InserterBitsTrue(tup.infomask)
    BY <1>1, <1>2 DEF HeapInv, RowInv
  <2>6. inserter # kInvalidTransactionId => InserterBitsTrue(tup.infomask)'
    BY <1>1, <1>2, <2>5 DEF InserterBitsTrue
  <2>7. tup.xmax # kInvalidTransactionId /\ kHeapXmaxLocked \notin tup.infomask =>
          tup.xmax \in deleters
    BY DEF HeapInv, RowInv
  <2>8. QED  BY <2>2, <2>3, <2>4, <2>5, <2>6, <2>7 DEF RowInv
<1>5. QED  BY <1>3, <1>4

(* Commit or abort.                                                        *)
LEMMA EndStep ==
  ASSUME HeapInv, NEW b \in Backends, NEW status \in {"kCommitted", "kAborted"},
         EndTransaction(b, status), oldest' = oldest
  PROVE  HeapInv'
<1>1. /\ xid' = [xid EXCEPT ![b] = kInvalidTransactionId]
      /\ snap' = [snap EXCEPT ![b] = NoSnapshot]
      /\ target' = target \ {b}
      /\ UNCHANGED <<nextXid, prepared, members, tup, inserter, deleters>>
  BY DEF EndTransaction, LeaveTransaction
<1>2. \A c \in target' : xid'[c] = xid[c]
  BY <1>1 DEF HeapInv, TypeOK
<1>3. CASE xid[b] = kInvalidTransactionId
  <2>1. clog' = clog /\ cache' = cache /\ xid' = xid
    BY <1>1, <1>3 DEF EndTransaction, HeapInv, TypeOK
  <2>2. TypeOK' /\ UndecidedInv'
    BY <1>1, <2>1, BoundsAssumption DEF HeapInv, TypeOK, UndecidedInv, NoSnapshot
  <2>3. RowInv' /\ XmaxHintTrue' /\ \A c \in Backends : EntryTrue(cache[c])'
    BY <1>1, <2>1 DEF HeapInv, RowInv, InserterBitsTrue, XmaxHintTrue,
       DeleteCommitted, EntryTrue
  <2>4. QED  BY <2>2, <2>3 DEF HeapInv
<1>4. CASE xid[b] # kInvalidTransactionId
  <2> DEFINE x == xid[b]
  <2>1. /\ x \in Xids /\ clog[x] = "kInProgress" /\ x < nextXid
        /\ \A c \in Backends : x \notin prepared[c]
    BY <1>4 DEF HeapInv, TypeOK, MaybeXid, UndecidedInv
  <2>2. SetXidStatus(b, x, status)  BY <1>4 DEF EndTransaction
  <2>3. /\ clog' \in [0 .. MaxXid -> XidStatus]
        /\ \A y \in 0 .. MaxXid : y # x => clog'[y] = clog[y]
        /\ \A y \in 0 .. MaxXid : clog[y] # "kInProgress" => clog'[y] = clog[y]
        /\ cache' \in [Backends -> Entries]
        /\ \A c \in Backends : EntryTrue(cache[c])'
    BY <2>1, <2>2, StatusWritten DEF HeapInv
  <2>4. TypeOK'
    <3>1. /\ xid' \in [Backends -> MaybeXid]
          /\ snap' \in [Backends -> [xmax : 0 .. MaxXid + 1, xip : SUBSET Xids]]
          /\ target' \in SUBSET Backends
      BY <1>1, BoundsAssumption DEF HeapInv, TypeOK, NoSnapshot, MaybeXid
    <3>2. QED  BY <1>1, <2>3, <3>1 DEF HeapInv, TypeOK, Entries
  <2>5. UndecidedInv'
    <3>1. ASSUME NEW c \in Backends, xid'[c] # kInvalidTransactionId
          PROVE  c # b /\ xid'[c] = xid[c] /\ xid[c] # x /\ xid[c] \in Xids
      BY <1>1, <1>4, <3>1 DEF HeapInv, TypeOK, UndecidedInv, MaybeXid
    <3>2. ASSUME NEW c \in Backends, xid'[c] # kInvalidTransactionId
          PROVE  /\ xid'[c] < nextXid /\ clog'[xid'[c]] = "kInProgress"
                 /\ \A d \in Backends : xid'[c] \notin prepared[d]
                 /\ \A d \in Backends : xid'[d] = xid'[c] => d = c
      BY <1>1, <2>3, <3>1, <3>2, BoundsAssumption DEF HeapInv, TypeOK, UndecidedInv, Xids
    <3>3. \A c \in Backends : \A y \in prepared[c] :
            /\ y < nextXid /\ clog'[y] = "kInProgress"
            /\ \A d \in Backends : y \in prepared[d] => d = c
      BY <2>1, <2>3, BoundsAssumption DEF HeapInv, TypeOK, UndecidedInv, Xids
    <3>4. \A y \in nextXid .. MaxXid : clog'[y] = "kInProgress"
      BY <2>1, <2>3, BoundsAssumption DEF HeapInv, TypeOK, UndecidedInv, Xids
    <3>5. QED  BY <1>1, <3>2, <3>3, <3>4 DEF UndecidedInv
  <2>6. RowInv' /\ XmaxHintTrue'
    BY <1>1, <1>2, <2>1, <2>3, RowAfterDecision
  <2>7. QED  BY <2>3, <2>4, <2>5, <2>6 DEF HeapInv
<1>5. QED  BY <1>3, <1>4

(* PREPARE TRANSACTION.                                                    *)
LEMMA PrepareStep ==
  ASSUME HeapInv, NEW b \in Backends, PrepareTransactionBlock(b), oldest' = oldest
  PROVE  HeapInv'
<1>1. /\ xid' = [xid EXCEPT ![b] = kInvalidTransactionId]
      /\ snap' = [snap EXCEPT ![b] = NoSnapshot]
      /\ target' = target \ {b}
      /\ prepared' = [prepared EXCEPT ![b] = @ \cup {xid[b]}]
      /\ UNCHANGED <<nextXid, clog, cache, members, tup, inserter, deleters>>
  BY DEF PrepareTransactionBlock, LeaveTransaction
<1>2. xid[b] \in Xids /\ clog[xid[b]] = "kInProgress" /\ xid[b] < nextXid
  BY DEF HeapInv, TypeOK, MaybeXid, UndecidedInv, PrepareTransactionBlock
<1>3. \A c \in Backends : c # b => xid'[c] = xid[c]
  BY <1>1 DEF HeapInv, TypeOK
<1>4. xid'[b] = kInvalidTransactionId  BY <1>1 DEF HeapInv, TypeOK
<1>5. TypeOK'
  BY <1>1, <1>2, BoundsAssumption DEF HeapInv, TypeOK, NoSnapshot, MaybeXid
<1>6. UndecidedInv'
  <2>1. ASSUME NEW c \in Backends, xid'[c] # kInvalidTransactionId
        PROVE  c # b /\ xid'[c] = xid[c] /\ xid[c] # xid[b]
    BY <1>2, <1>3, <1>4, <2>1 DEF HeapInv, UndecidedInv
  <2>2. ASSUME NEW c \in Backends, xid'[c] # kInvalidTransactionId
        PROVE  /\ xid'[c] < nextXid /\ clog[xid'[c]] = "kInProgress"
               /\ \A d \in Backends : xid'[c] \notin prepared'[d]
               /\ \A d \in Backends : xid'[d] = xid'[c] => d = c
    BY <1>1, <1>3, <1>4, <2>1, <2>2 DEF HeapInv, TypeOK, UndecidedInv
  <2>3. \A c \in Backends : \A y \in prepared'[c] :
          /\ y < nextXid /\ clog[y] = "kInProgress"
          /\ \A d \in Backends : y \in prepared'[d] => d = c
    <3>1. \A d \in Backends : xid[b] \notin prepared[d]
      BY DEF HeapInv, UndecidedInv, PrepareTransactionBlock
    <3>2. \A c \in Backends : \A y \in prepared'[c] :
            y \in prepared[c] \/ (y = xid[b] /\ c = b)
      BY <1>1 DEF HeapInv, TypeOK
    <3>3. QED  BY <1>2, <3>1, <3>2 DEF HeapInv, UndecidedInv
  <2>4. QED  BY <1>1, <2>2, <2>3 DEF HeapInv, UndecidedInv
<1>7. RowInv' /\ XmaxHintTrue'
  BY <1>1, <1>2, <1>3, RowAfterDecision
<1>8. \A c \in Backends : EntryTrue(cache[c])'
  BY <1>1 DEF HeapInv, EntryTrue
<1>9. QED  BY <1>5, <1>6, <1>7, <1>8 DEF HeapInv

(* COMMIT PREPARED and ROLLBACK PREPARED.                                  *)
LEMMA FinishPreparedStep ==
  ASSUME HeapInv, NEW b \in Backends, NEW x \in prepared[b],
         NEW status \in {"kCommitted", "kAborted"}, FinishPrepared(b, x, status),
         oldest' = oldest
  PROVE  HeapInv'
<1>1. /\ prepared' = [prepared EXCEPT ![b] = @ \ {x}] /\ SetXidStatus(b, x, status)
      /\ UNCHANGED <<nextXid, xid, snap, members, target, tup, inserter, deleters>>
  BY DEF FinishPrepared
<1>2. x \in Xids /\ clog[x] = "kInProgress" /\ x < nextXid
  BY DEF HeapInv, TypeOK, UndecidedInv
<1>3. /\ clog' \in [0 .. MaxXid -> XidStatus]
      /\ \A y \in 0 .. MaxXid : y # x => clog'[y] = clog[y]
      /\ \A y \in 0 .. MaxXid : clog[y] # "kInProgress" => clog'[y] = clog[y]
      /\ cache' \in [Backends -> Entries]
      /\ \A c \in Backends : EntryTrue(cache[c])'
  BY <1>1, <1>2, StatusWritten DEF HeapInv
<1>4. TypeOK'
  BY <1>1, <1>3, BoundsAssumption DEF HeapInv, TypeOK, Entries
<1>5. UndecidedInv'
  <2>1. ASSUME NEW c \in Backends, xid[c] # kInvalidTransactionId
        PROVE  /\ xid[c] < nextXid /\ clog'[xid[c]] = "kInProgress"
               /\ \A d \in Backends : xid[c] \notin prepared'[d]
               /\ \A d \in Backends : xid[d] = xid[c] => d = c
    BY <1>1, <1>3, <2>1, BoundsAssumption DEF HeapInv, TypeOK, UndecidedInv, MaybeXid, Xids
  <2>2. \A c \in Backends : \A y \in prepared'[c] :
          /\ y < nextXid /\ clog'[y] = "kInProgress"
          /\ \A d \in Backends : y \in prepared'[d] => d = c
    BY <1>1, <1>2, <1>3, BoundsAssumption DEF HeapInv, TypeOK, UndecidedInv, Xids
  <2>3. \A y \in nextXid .. MaxXid : clog'[y] = "kInProgress"
    BY <1>2, <1>3, BoundsAssumption DEF HeapInv, TypeOK, UndecidedInv, Xids
  <2>4. QED  BY <1>1, <2>1, <2>2, <2>3 DEF UndecidedInv
<1>6. RowInv' /\ XmaxHintTrue'
  BY <1>1, <1>2, <1>3, RowAfterDecision
<1>7. QED  BY <1>3, <1>4, <1>5, <1>6 DEF HeapInv

(* A scan tests the row.                                                   *)
LEMMA ScanStep ==
  ASSUME HeapInv, NEW b \in Backends, HeapScan(b), oldest' = oldest
  PROVE  HeapInv'
<1> DEFINE test == HeapTupleSatisfiesMVCC(b)
<1>1. /\ tup' = [tup EXCEPT !.infomask = test.infomask]
      /\ cache' = [cache EXCEPT ![b] = test.entry]
      /\ target' = IF test.visible THEN target \cup {b} ELSE target \ {b}
      /\ UNCHANGED <<nextXid, clog, xid, snap, prepared, members, inserter, deleters>>
      /\ tup.lp = "kNormal"
  BY DEF HeapScan
<1>2. inserter # kInvalidTransactionId
  BY <1>1 DEF HeapInv, RowInv, NoTuple
<1>3. /\ test.infomask \in SUBSET Flags /\ test.entry \in Entries
      /\ EntryTrue(test.entry)
      /\ InserterBitsTrue(test.infomask)
      /\ kHeapXmaxLocked \in test.infomask <=> kHeapXmaxLocked \in tup.infomask
      /\ kHeapXmaxCommitted \in test.infomask =>
           tup.xmin = kFrozenTransactionId \/ DeleteCommitted
      /\ test.visible => inserter = xid[b] \/ clog[inserter] = "kCommitted"
  BY <1>1, <1>2, RowTested
<1> HIDE DEF test
<1>4. /\ tup'.infomask = test.infomask /\ tup'.lp = tup.lp
      /\ tup'.xmin = tup.xmin /\ tup'.xmax = tup.xmax
      /\ tup' \in Tuples
  BY <1>1, <1>3 DEF HeapInv, TypeOK, Tuples
<1>5. TypeOK'
  BY <1>1, <1>3, <1>4 DEF HeapInv, TypeOK, Tuples, Entries
<1>6. UndecidedInv' /\ XmaxHintTrue'
  BY <1>1, <1>3, <1>4 DEF HeapInv, UndecidedInv, XmaxHintTrue, DeleteCommitted
<1>7. RowInv'
  BY <1>1, <1>2, <1>3, <1>4 DEF HeapInv, RowInv, InserterBitsTrue
<1>8. \A c \in Backends : EntryTrue(cache[c])'
  BY <1>1, <1>3 DEF HeapInv, TypeOK, EntryTrue
<1>9. QED  BY <1>5, <1>6, <1>7, <1>8 DEF HeapInv

(* INSERT.                                                                 *)
LEMMA InsertStep ==
  ASSUME HeapInv, NEW b \in Backends, HeapInsert(b), oldest' = oldest
  PROVE  HeapInv'
<1>1. TypeOK /\ UndecidedInv /\ AssignXid(b)  BY DEF HeapInv, HeapInsert
<1>2. /\ CurrentXid(b) \in Xids /\ CurrentXid(b) < nextXid'
      /\ xid' \in [Backends -> MaybeXid]
      /\ nextXid' \in kFirstNormalTransactionId .. MaxXid + 1
      /\ UndecidedInv'
  BY <1>1, AssignXidHolds
<1>3. /\ tup' = [lp |-> "kNormal", xmin |-> CurrentXid(b), xmax |-> 0, infomask |-> {}]
      /\ inserter' = CurrentXid(b)
      /\ UNCHANGED <<clog, snap, prepared, cache, members, target, deleters>>
  BY DEF HeapInsert, AssignXid
<1>4. deleters = {} /\ target = {}  BY DEF HeapInv, RowInv, HeapInsert
<1>5. TypeOK'
  <2>1. tup' \in Tuples
    BY <1>2, <1>3, BoundsAssumption DEF Tuples, Xids
  <2>2. inserter' \in MaybeXid  BY <1>2, <1>3 DEF MaybeXid
  <2>3. QED  BY <1>1, <1>2, <1>3, <2>1, <2>2 DEF TypeOK, Tuples
<1>6. RowInv' /\ XmaxHintTrue'
  BY <1>2, <1>3, <1>4, BoundsAssumption DEF RowInv, InserterBitsTrue, XmaxHintTrue, Xids
<1>7. \A c \in Backends : EntryTrue(cache[c])'
  BY <1>3 DEF HeapInv, EntryTrue
<1>8. QED  BY <1>2, <1>5, <1>6, <1>7 DEF HeapInv

(* What is below the counter stays below it when the counter moves on.     *)
LEMMA BelowLater ==
  ASSUME NEW x \in Int, NEW y \in Int, NEW z \in Int, x < y, y <= z
  PROVE  x < z
OBVIOUS

(* What a statement that works on the row, as heap_delete and              *)
(* heap_lock_tuple do, has to show of its new header and deleters.         *)
LEMMA RowWritten ==
  ASSUME HeapInv, NEW b \in target, AssignXid(b), oldest' = oldest,
         target' = target \ {b}, UNCHANGED <<cache, inserter>>,
         members' \in [Backends -> Seq(SUBSET Xids)],
         \A c \in Backends : Len(members'[c]) <= MaxMulti,
         tup' \in Tuples, tup'.xmin = tup.xmin,
         tup'.infomask \subseteq tup.infomask \cup {kHeapXmaxLocked},
         deleters \subseteq deleters',
         deleters' \subseteq deleters \cup {CurrentXid(b)},
         tup'.xmax # kInvalidTransactionId /\ kHeapXmaxLocked \notin tup'.infomask =>
           tup'.xmax \in deleters'
  PROVE  HeapInv'
<1>1. TypeOK /\ UndecidedInv /\ b \in Backends  BY DEF HeapInv, TypeOK
<1>2. /\ CurrentXid(b) \in Xids
      /\ xid' \in [Backends -> MaybeXid]
      /\ nextXid' \in kFirstNormalTransactionId .. MaxXid + 1 /\ nextXid' >= nextXid
      /\ \A c \in Backends : c # b => xid'[c] = xid[c]
      /\ UndecidedInv'
  BY <1>1, AssignXidHolds
<1>3. UNCHANGED <<clog, snap, prepared>>  BY DEF AssignXid
<1>4. TypeOK'
  BY <1>1, <1>2, <1>3 DEF TypeOK, Tuples
<1>5. inserter # kInvalidTransactionId /\ inserter \in Xids /\ nextXid \in Nat
  BY BoundsAssumption DEF HeapInv, RowInv, TypeOK, MaybeXid
<1>6. CurrentXid(b) = inserter \/ clog[inserter] = "kCommitted"
  BY <1>1, <1>5 DEF HeapInv, RowInv, CurrentXid
<1>7. InserterBitsTrue(tup.infomask) /\ inserter < nextXid
  BY <1>5 DEF HeapInv, RowInv
<1>8. InserterBitsTrue(tup.infomask)'
  BY <1>3, <1>7 DEF InserterBitsTrue, kHeapXmaxLocked, kHeapXminCommitted,
     kHeapXminInvalid, kHeapXminFrozen
<1>9. inserter < nextXid'
  <2>1. inserter \in Int /\ nextXid \in Int /\ nextXid' \in Int
    BY <1>2, <1>5, BoundsAssumption DEF Xids
  <2>2. inserter < nextXid /\ nextXid <= nextXid'  BY <1>2, <1>7, <2>1
  <2>3. QED  BY <2>1, <2>2, BelowLater
<1>10. RowInv'
  BY <1>1, <1>2, <1>3, <1>5, <1>6, <1>8, <1>9 DEF HeapInv, RowInv, TypeOK
<1>11. XmaxHintTrue'
  BY <1>3 DEF HeapInv, XmaxHintTrue, DeleteCommitted, kHeapXmaxLocked, kHeapXmaxCommitted
<1>12. \A c \in Backends : EntryTrue(cache[c])'
  BY <1>3 DEF HeapInv, EntryTrue
<1>13. QED  BY <1>2, <1>4, <1>10, <1>11, <1>12 DEF HeapInv

(* DELETE, and UPDATE of the old version.                                  *)
LEMMA DeleteStep ==
  ASSUME HeapInv, NEW b \in Backends, HeapDelete(b), oldest' = oldest
  PROVE  HeapInv'
<1>1. /\ b \in target /\ AssignXid(b) /\ target' = target \ {b}
      /\ UNCHANGED <<cache, members, inserter>>
  BY DEF HeapDelete
<1>2. CurrentXid(b) \in Xids  BY <1>1, AssignXidHolds DEF HeapInv
<1>3. tup \in Tuples  BY DEF HeapInv, TypeOK, Tuples
<1>4. /\ members' \in [Backends -> Seq(SUBSET Xids)]
      /\ \A c \in Backends : Len(members'[c]) <= MaxMulti
  BY <1>1 DEF HeapInv, TypeOK
<1>5. CASE tup.lp = "kNormal"
  <2>1. /\ tup' = [tup EXCEPT !.xmax = CurrentXid(b)]
        /\ deleters' = deleters \cup {CurrentXid(b)}
    BY <1>5 DEF HeapDelete
  <2>2. /\ tup' \in Tuples /\ tup'.xmin = tup.xmin
        /\ tup'.infomask = tup.infomask /\ tup'.xmax = CurrentXid(b)
    BY <1>2, <1>3, <2>1, BoundsAssumption DEF Tuples, Xids
  <2>3. QED  BY <1>1, <1>4, <2>1, <2>2, RowWritten
<1>6. CASE tup.lp # "kNormal"
  <2>1. UNCHANGED <<tup, deleters>>  BY <1>6 DEF HeapDelete
  <2>2. tup.xmax # kInvalidTransactionId /\ kHeapXmaxLocked \notin tup.infomask =>
          tup.xmax \in deleters
    BY DEF HeapInv, RowInv
  <2>3. QED  BY <1>1, <1>3, <1>4, <2>1, <2>2, RowWritten
<1>7. QED  BY <1>5, <1>6

(* A lock's header: only xmax changes, and the locked bit is set.          *)
LEMMA LockedHeader ==
  ASSUME HeapInv, NEW xmax \in 0 .. MaxXid
  PROVE  /\ Locked(xmax) \in Tuples /\ Locked(xmax).xmin = tup.xmin
         /\ Locked(xmax).infomask \subseteq tup.infomask \cup {kHeapXmaxLocked}
         /\ kHeapXmaxLocked \in Locked(xmax).infomask
<1>1. tup \in Tuples  BY DEF HeapInv, TypeOK, Tuples
<1> DEFINE mask == (tup.infomask \cup {kHeapXmaxLocked}) \ {kHeapXmaxInvalid}
<1>2. /\ mask \in SUBSET Flags /\ kHeapXmaxLocked \in mask
      /\ mask \subseteq tup.infomask \cup {kHeapXmaxLocked}
  BY <1>1 DEF Tuples, Flags, kHeapXmaxLocked, kHeapXmaxInvalid
<1>3. Locked(xmax) = [tup EXCEPT !.xmax = xmax, !.infomask = mask]
  BY <1>1 DEF Locked, Tuples
<1> HIDE DEF mask
<1>4. QED  BY <1>1, <1>2, <1>3 DEF Tuples

(* SELECT FOR UPDATE.                                                      *)
LEMMA LockExclusiveStep ==
  ASSUME HeapInv, NEW b \in Backends, HeapLockExclusive(b), oldest' = oldest
  PROVE  HeapInv'
<1>1. /\ b \in target /\ AssignXid(b) /\ target' = target \ {b}
      /\ UNCHANGED <<cache, members, inserter, deleters>>
      /\ tup' = IF tup.lp = "kNormal" THEN Locked(CurrentXid(b)) ELSE tup
  BY DEF HeapLockExclusive
<1>2. CurrentXid(b) \in Xids  BY <1>1, AssignXidHolds DEF HeapInv
<1>3. tup \in Tuples  BY DEF HeapInv, TypeOK, Tuples
<1>4. /\ members' \in [Backends -> Seq(SUBSET Xids)]
      /\ \A c \in Backends : Len(members'[c]) <= MaxMulti
  BY <1>1 DEF HeapInv, TypeOK
<1>5. CurrentXid(b) \in 0 .. MaxXid  BY <1>2, BoundsAssumption DEF Xids
<1>6. CASE tup.lp = "kNormal"
  <2>1. /\ tup' \in Tuples /\ tup'.xmin = tup.xmin
        /\ tup'.infomask \subseteq tup.infomask \cup {kHeapXmaxLocked}
        /\ kHeapXmaxLocked \in tup'.infomask
    BY <1>1, <1>5, <1>6, LockedHeader
  <2>2. QED  BY <1>1, <1>4, <2>1, RowWritten
<1>7. CASE tup.lp # "kNormal"
  <2>1. tup.xmax # kInvalidTransactionId /\ kHeapXmaxLocked \notin tup.infomask =>
          tup.xmax \in deleters
    BY DEF HeapInv, RowInv
  <2>2. QED  BY <1>1, <1>3, <1>4, <1>7, <2>1, RowWritten
<1>8. QED  BY <1>6, <1>7

(* SELECT FOR SHARE.                                                       *)
LEMMA LockSharedStep ==
  ASSUME HeapInv, NEW b \in Backends, HeapLockShared(b), oldest' = oldest
  PROVE  HeapInv'
<1>1. /\ b \in target /\ AssignXid(b) /\ target' = target \ {b}
      /\ UNCHANGED <<cache, inserter, deleters>>
  BY DEF HeapLockShared
<1>2. CurrentXid(b) \in Xids  BY <1>1, AssignXidHolds DEF HeapInv
<1>3. tup \in Tuples  BY DEF HeapInv, TypeOK, Tuples
<1>4. /\ members \in [Backends -> Seq(SUBSET Xids)]
      /\ \A c \in Backends : Len(members[c]) <= MaxMulti
  BY DEF HeapInv, TypeOK
<1>5. CASE tup.lp # "kNormal" /\ UNCHANGED <<tup, members>>
  <2>1. tup.xmax # kInvalidTransactionId /\ kHeapXmaxLocked \notin tup.infomask =>
          tup.xmax \in deleters
    BY DEF HeapInv, RowInv
  <2>2. QED  BY <1>1, <1>3, <1>4, <1>5, <2>1, RowWritten
<1>6. CASE tup' = Locked(tup.xmax) /\ UNCHANGED members
  <2>1. /\ tup' \in Tuples /\ tup'.xmin = tup.xmin
        /\ tup'.infomask \subseteq tup.infomask \cup {kHeapXmaxLocked}
        /\ kHeapXmaxLocked \in tup'.infomask
    BY <1>3, <1>6, LockedHeader DEF Tuples
  <2>2. QED  BY <1>1, <1>4, <1>6, <2>1, RowWritten
<1>7. CASE /\ ~KeepsMulti(b)
           /\ Len(members[b]) < MaxMulti
           /\ members' = [members EXCEPT ![b] = Append(@, NewMembers(b))]
           /\ tup' = Locked(Len(members[b]) + 1)
  <2>1. NewMembers(b) \in SUBSET Xids
    <3>1. LockedBefore => tup.xmax \in DOMAIN members[b]
      BY <1>7 DEF KeepsMulti, IsMulti
    <3>2. LockedBefore => members[b][tup.xmax] \in SUBSET Xids
      BY <1>4, <3>1
    <3>3. QED  BY <1>2, <3>2 DEF NewMembers
  <2>2. /\ members' \in [Backends -> Seq(SUBSET Xids)]
        /\ \A c \in Backends : Len(members'[c]) <= MaxMulti
    BY <1>4, <1>7, <2>1, BoundsAssumption
  <2>3. Len(members[b]) + 1 \in 0 .. MaxXid
    BY <1>4, <1>7, BoundsAssumption
  <2>4. /\ tup' \in Tuples /\ tup'.xmin = tup.xmin
        /\ tup'.infomask \subseteq tup.infomask \cup {kHeapXmaxLocked}
        /\ kHeapXmaxLocked \in tup'.infomask
    BY <1>7, <2>3, LockedHeader
  <2>5. QED  BY <1>1, <2>2, <2>4, RowWritten
<1>8. QED  BY <1>5, <1>6, <1>7 DEF HeapLockShared

(* A nonempty set of XIDs has a smallest one.                              *)
LEMMA SmallestXid ==
  ASSUME NEW S \in SUBSET Xids, S # {}
  PROVE  \E y \in S : \A z \in S : y <= z
<1> DEFINE R == {ss \in Nat \X Nat : ss[1] < ss[2]}
<1>1. S \subseteq Nat  BY BoundsAssumption DEF Xids
<1>2. IsWellFoundedOn(R, Nat)  BY NatLessThanWellFounded DEF OpToRel
<1>3. \E y \in S : \A z \in S : ~(<<z, y>> \in R)
  <2> HIDE DEF R
  <2> QED  BY <1>1, <1>2, WFMin
<1>4. PICK y \in S : \A z \in S : <<z, y>> \notin R  BY <1>3
<1>5. ASSUME NEW z \in S  PROVE y <= z
  <2>1. y \in Nat /\ z \in Nat  BY <1>1
  <2>2. ~(z < y)  BY <1>4, <2>1
  <2>3. QED  BY <2>1, <2>2
<1>6. QED  BY <1>5

(* The oldest running XID is an XID, or kFrozenTransactionId.              *)
LEMMA OldestTyped ==
  ASSUME TypeOK
  PROVE  GetOldestXmin \in MaybeXid \cup {kFrozenTransactionId}
<1>1. Running \subseteq Xids  BY DEF TypeOK, Running, MaybeXid
<1>2. CASE Running = {}  BY <1>2 DEF GetOldestXmin
<1>3. CASE Running # {}
  <2>1. PICK y \in Running : \A z \in Running : y <= z
    BY <1>1, <1>3, SmallestXid
  <2>2. GetOldestXmin \in Running  BY <1>3, <2>1 DEF GetOldestXmin
  <2>3. QED  BY <1>1, <2>2 DEF MaybeXid
<1>4. QED  BY <1>2, <1>3

(* A step that leaves the row, the transactions and the caches alone keeps *)
(* HeapInv, whatever horizon VACUUM works with.                            *)
LEMMA NothingChanged ==
  ASSUME HeapInv,
         UNCHANGED <<nextXid, clog, xid, snap, cache, prepared, members, target, tup,
                     inserter, deleters>>,
         oldest' \in [Backends -> MaybeXid \cup {kFrozenTransactionId}]
  PROVE  HeapInv'
<1>1. TypeOK'  BY SMTT(30) DEF HeapInv, TypeOK
<1>2. UndecidedInv'  BY SMTT(30) DEF HeapInv, UndecidedInv
<1>3. RowInv'  BY SMTT(30) DEF HeapInv, RowInv, InserterBitsTrue
<1>4. XmaxHintTrue'  BY SMTT(30) DEF HeapInv, XmaxHintTrue, DeleteCommitted
<1>5. QED
  BY SMTT(30), <1>1, <1>2, <1>3, <1>4 DEF HeapInv, EntryTrue

(* VACUUM begins.                                                          *)
LEMMA VacuumBeginStep ==
  ASSUME HeapInv, NEW b \in Backends, VacuumBegin(b)
  PROVE  HeapInv'
<1>1. UNCHANGED <<nextXid, clog, xid, snap, cache, prepared, members, target, tup,
                  inserter, deleters>>
  BY DEF VacuumBegin
<1>2. oldest' \in [Backends -> MaybeXid \cup {kFrozenTransactionId}]
  BY OldestTyped DEF HeapInv, TypeOK, VacuumBegin
<1>3. QED  BY <1>1, <1>2, NothingChanged

(* VACUUM visits the row.                                                  *)
LEMMA VacuumRowStep ==
  ASSUME HeapInv, NEW b \in Backends, tup.lp = "kNormal", VacuumRow(b)
  PROVE  HeapInv'
<1> DEFINE entry == DeadLookup(cache[b])
<1>1. /\ UNCHANGED <<nextXid, clog, xid, snap, prepared, members, target,
                     inserter, deleters>>
      /\ oldest' \in [Backends -> MaybeXid \cup {kFrozenTransactionId}]
  BY DEF VacuumRow, HeapInv, TypeOK, MaybeXid
<1>2. /\ tup \in Tuples /\ cache \in [Backends -> Entries]
      /\ EntryTrue(cache[b]) /\ TypeOK
  BY DEF HeapInv, TypeOK, Tuples, Entries
<1>3. entry \in Entries /\ EntryTrue(entry)
  BY <1>2, FetchTrue DEF DeadLookup, Tuples
<1>4. /\ inserter # kInvalidTransactionId /\ inserter \in Xids
      /\ InserterBitsTrue(tup.infomask)
      /\ tup.xmin \in {inserter, kFrozenTransactionId}
      /\ tup.xmin = kFrozenTransactionId => clog[inserter] = "kCommitted"
  <2>1. RowInv /\ inserter \in MaybeXid
    BY DEF HeapInv, TypeOK
  <2>2. QED
    BY <2>1 DEF RowInv, NoTuple, MaybeXid
<1>5. SUFFICES /\ \E e \in Entries : EntryTrue(e) /\ cache' = [cache EXCEPT ![b] = e]
               /\ tup' \in Tuples /\ tup'.xmax = tup.xmax
               /\ tup'.xmin \in {tup.xmin, kFrozenTransactionId}
               /\ \/ tup'.xmin = tup.xmin /\ tup'.infomask = tup.infomask
                  \/ tup'.xmin = kFrozenTransactionId /\ clog[inserter] = "kCommitted"
               /\ kHeapXmaxLocked \in tup'.infomask <=> kHeapXmaxLocked \in tup.infomask
               /\ InserterBitsTrue(tup.infomask)'
  <2>1. TypeOK'  BY <1>1, <1>2, <1>5 DEF TypeOK, Tuples, Entries
  <2>2. UndecidedInv'  BY <1>1 DEF HeapInv, UndecidedInv
  <2>3. RowInv'  BY <1>1, <1>4, <1>5 DEF HeapInv, RowInv
  <2>4. XmaxHintTrue'  BY <1>1, <1>5 DEF HeapInv, XmaxHintTrue, DeleteCommitted
  <2>5. \A c \in Backends : EntryTrue(cache[c])'
    BY <1>1, <1>2, <1>5 DEF HeapInv, EntryTrue
  <2>6. QED  BY <2>1, <2>2, <2>3, <2>4, <2>5 DEF HeapInv
<1>6. CASE tup' = [tup EXCEPT !.lp = "kDead"] /\ cache' = [cache EXCEPT ![b] = entry]
  <2>1. /\ tup' \in Tuples /\ tup'.xmax = tup.xmax /\ tup'.xmin = tup.xmin
        /\ tup'.infomask = tup.infomask
    BY <1>2, <1>6 DEF Tuples
  <2>2. InserterBitsTrue(tup.infomask)'  BY <1>1, <1>4, <2>1 DEF InserterBitsTrue
  <2>3. QED  BY <1>3, <1>6, <2>1, <2>2
<1>7. CASE UNCHANGED tup /\ cache' = [cache EXCEPT ![b] = entry]
  <2>1. InserterBitsTrue(tup.infomask)'  BY <1>1, <1>4, <1>7 DEF InserterBitsTrue
  <2>2. QED  BY <1>2, <1>3, <1>7, <2>1
<1>8. CASE /\ FreezeCandidate(oldest[b])
           /\ tup' = IF StatusOf(entry, tup.xmin) = "kCommitted" THEN Frozen ELSE tup
           /\ cache' = [cache EXCEPT ![b] = TransactionLogFetch(entry, tup.xmin)]
  <2>1. tup.xmin = inserter  BY <1>4, <1>8 DEF FreezeCandidate
  <2>2. /\ TransactionLogFetch(entry, tup.xmin) \in Entries
        /\ EntryTrue(TransactionLogFetch(entry, tup.xmin))
        /\ StatusOf(entry, tup.xmin) = "kCommitted" => clog[inserter] = "kCommitted"
    BY <1>2, <1>3, <1>4, <2>1, FetchTrue DEF Tuples
  <2>3. CASE tup' = tup
    <3>1. InserterBitsTrue(tup.infomask)'  BY <1>1, <1>4, <2>3 DEF InserterBitsTrue
    <3>2. QED  BY <1>2, <1>8, <2>2, <2>3, <3>1
  <2>4. CASE tup' = Frozen /\ clog[inserter] = "kCommitted"
    <3> DEFINE mask == (tup.infomask \cup {kHeapXminFrozen, kHeapXminCommitted})
                         \ {kHeapXminInvalid}
    <3>1. /\ mask \in SUBSET Flags
          /\ kHeapXmaxLocked \in mask <=> kHeapXmaxLocked \in tup.infomask
          /\ kHeapXminInvalid \notin mask
      BY <1>2 DEF Tuples, Flags, kHeapXmaxLocked, kHeapXminCommitted,
         kHeapXminInvalid, kHeapXminFrozen, kHeapXmaxCommitted, kHeapXmaxInvalid
    <3>2. tup' = [tup EXCEPT !.xmin = kFrozenTransactionId, !.infomask = mask]
      BY <1>2, <2>4 DEF Frozen, Tuples
    <3> HIDE DEF mask
    <3>3. /\ tup' \in Tuples /\ tup'.xmin = kFrozenTransactionId
          /\ tup'.xmax = tup.xmax /\ tup'.infomask = mask
      <4>1. kFrozenTransactionId \in 0 .. MaxXid  BY BoundsAssumption
      <4> HIDE DEF kFrozenTransactionId
      <4>2. QED  BY <1>2, <3>1, <3>2, <4>1 DEF Tuples
    <3>4. InserterBitsTrue(tup.infomask)'
      BY <1>1, <2>4, <3>1, <3>3 DEF InserterBitsTrue
    <3>5. QED  BY <1>8, <2>2, <2>4, <3>1, <3>3, <3>4
  <2>5. QED  BY <1>8, <2>2, <2>3, <2>4
<1>9. QED  BY <1>6, <1>7, <1>8 DEF VacuumRow

(* VACUUM finds no row.                                                    *)
LEMMA VacuumNoRowStep ==
  ASSUME HeapInv, NEW b \in Backends, tup.lp # "kNormal", VacuumRow(b)
  PROVE  HeapInv'
<1>1. /\ UNCHANGED <<nextXid, clog, xid, snap, prepared, members, target, tup,
                     cache, inserter, deleters>>
      /\ oldest' \in [Backends -> MaybeXid \cup {kFrozenTransactionId}]
  BY DEF VacuumRow, HeapInv, TypeOK, MaybeXid
<1>2. QED  BY <1>1, NothingChanged

(* HeapInv is an invariant: every step keeps what is known of the row, its *)
(* hints and the transactions that wrote it.                               *)
THEOREM HeapInvariant == Spec => []HeapInv
<1>1. Init => HeapInv  BY InitHolds
<1>2. HeapInv /\ [Next]_vars => HeapInv'
  <2> SUFFICES ASSUME HeapInv, [Next]_vars PROVE HeapInv'  OBVIOUS
  <2>1. CASE UNCHANGED vars
    BY <2>1, NothingChanged DEF HeapInv, TypeOK, vars
  <2>2. CASE Next
    <3>1. PICK b \in Backends : Statement(b) \/ VacuumBegin(b) \/ VacuumRow(b)
      BY <2>2 DEF Next
    <3>2. CASE Statement(b)
      BY <3>2, WriteElsewhereStep, SnapshotStep, EndStep, PrepareStep,
         FinishPreparedStep, ScanStep, InsertStep, DeleteStep, LockExclusiveStep,
         LockSharedStep DEF Statement
    <3>3. QED
      BY <3>1, <3>2, VacuumBeginStep, VacuumRowStep, VacuumNoRowStep
  <2>3. QED  BY <2>1, <2>2
<1>3. QED  BY <1>1, <1>2, PTL DEF Spec

(* The hints about the inserter are true (visibility.cpp:117-127,          *)
(* vacuum.cpp:126-128), although a hint about the deleter sets a bit that  *)
(* also says frozen.                                                       *)
THEOREM InserterHintsTrue == Spec => []XminHintsTrue
<1>1. HeapInv => XminHintsTrue
  BY DEF HeapInv, RowInv, InserterBitsTrue, XminHintsTrue, GetXminStatus
<1>2. QED  BY <1>1, HeapInvariant, PTL

(* HeapTupleSatisfiesMVCC shows no row of another transaction that has not *)
(* committed (visibility.cpp:65-138).                                      *)
THEOREM NoDirtyReads == Spec => []NoDirtyRead
<1>1. HeapInv => NoDirtyRead
  <2> SUFFICES ASSUME HeapInv, NEW b \in Backends, tup.lp = "kNormal",
                      HeapTupleSatisfiesMVCC(b).visible
               PROVE  inserter = xid[b] \/ clog[inserter] = "kCommitted"
    BY DEF NoDirtyRead
  <2>1. inserter # kInvalidTransactionId  BY DEF HeapInv, RowInv, NoTuple
  <2>2. QED  BY <2>1, RowTested
<1>2. QED  BY <1>1, HeapInvariant, PTL

(* A committed hint about the deleter of a row that is not frozen stands   *)
(* for a deletion that committed (visibility.cpp:201-233).                 *)
THEOREM DeleterHintTrue == Spec => []XmaxHintTrue
<1>1. HeapInv => XmaxHintTrue  BY DEF HeapInv
<1>2. QED  BY <1>1, HeapInvariant, PTL

(* A row a snapshot should see, and that VACUUM has not frozen, is hidden  *)
(* only by a deletion that committed or is the reader's own                *)
(* (visibility.cpp:65-245).                                                *)
THEOREM RowsAreKept == Spec => []NoRowLost
<1>1. HeapInv => NoRowLost
  <2> SUFFICES ASSUME HeapInv, NEW b \in Backends, tup.lp = "kNormal",
                      Finished(inserter, snap[b]), clog[inserter] = "kCommitted",
                      cache[b].xid # inserter, tup.xmin # kFrozenTransactionId,
                      ~HeapTupleSatisfiesMVCC(b).visible
               PROVE  xid[b] \in deleters \/ DeleteCommitted
    BY DEF NoRowLost
  <2> DEFINE min == TestXmin(b)
             max == TestXmax(b, min.infomask, min.entry)
  <2>1. inserter # kInvalidTransactionId  BY DEF HeapInv, RowInv, NoTuple
  <2>2. tup.xmin = inserter /\ inserter \in Xids /\ inserter \in 0 .. MaxXid
    BY <2>1, BoundsAssumption DEF HeapInv, RowInv, TypeOK, MaybeXid, Xids
  <2>3. GetXminStatus # "kAborted"
    BY <2>1 DEF HeapInv, RowInv, InserterBitsTrue, GetXminStatus
  <2>4. StatusOf(cache[b], inserter) = "kCommitted"
    <3>1. TypeOK /\ cache[b] \in Entries /\ EntryTrue(cache[b])
      BY DEF HeapInv, TypeOK, Entries
    <3>2. QED  BY <2>2, <3>1, FetchTrue
  <2>5. min.counts
    BY <2>2, <2>3, <2>4 DEF TestXmin, Finding, GetXminStatus
  <2>6. /\ min.infomask \in SUBSET Flags /\ min.entry \in Entries
        /\ EntryTrue(min.entry)
        /\ InserterBitsTrue(min.infomask)
        /\ \A m \in {kHeapXmaxLocked, kHeapXmaxCommitted, kHeapXmaxInvalid} :
             m \in min.infomask <=> m \in tup.infomask
    BY <2>1, XminTested
  <2> HIDE DEF min
  <2>7. max.counts => xid[b] \in deleters \/ DeleteCommitted
    BY <2>1, <2>6, XmaxTested
  <2> HIDE DEF max
  <2>8. max.counts
    BY <2>5 DEF HeapTupleSatisfiesMVCC, min, max
  <2>9. QED  BY <2>7, <2>8
<1>2. QED  BY <1>1, HeapInvariant, PTL
=============================================================================
