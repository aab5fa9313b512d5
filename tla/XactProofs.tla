----------------------------- MODULE XactProofs -----------------------------
(***************************************************************************)
(* Xact for every number of XIDs, GIDs, savepoint names and tables, every  *)
(* depth of the stack and every limit of the command counter.              *)
(***************************************************************************)
EXTENDS Xact, SequenceTheorems, TLAPS

USE DEF kInvalidTransactionId, kFirstNormalTransactionId, kFirstCommandId, NoSnapshot

-----------------------------------------------------------------------------
(***************************************************************************)
(* The inductive invariant                                                 *)
(***************************************************************************)

(* Only inside a statement is there certainly a transaction.               *)
Started == pc \in {"body", "run"} => stack # <<>>

(* What has an XID had it from the counter, and no XID the counter has not *)
(* reached is decided.                                                     *)
XidsAssigned ==
  /\ TopXid < nextXid
  /\ \A g \in Gids : gids[g] < nextXid
  /\ \A x \in Xids : x >= nextXid => clog[x] = "kInProgress"

(* The counter grows along the stack.                                      *)
CidsGrow == \A i, j \in 1 .. Depth : i <= j => stack[i].cid <= stack[j].cid

(* Each row's command ID is at most that of the level which wrote it.      *)
WritesNest ==
  \A w \in writes : w.level \in 1 .. Depth /\ w.cid <= stack[w.level].cid

XidInv   == XidsAssigned /\ PublishedInStep /\ NoOrphanedXid
StackInv == StackShape /\ CommandIdsNest /\ CidsGrow
WriteInv == WritesNest /\ OwnWritesVisible

XactInv == TypeOK /\ Started /\ XidInv /\ StackInv /\ WriteInv /\ CatalogInStep

-----------------------------------------------------------------------------
(***************************************************************************)
(* Stacks                                                                  *)
(***************************************************************************)
LEMMA LevelTypes ==
  ASSUME NEW s \in Seq(Levels), NEW i \in 1 .. Len(s)
  PROVE  /\ s[i] \in Levels
         /\ s[i].block \in TBlockState /\ s[i].xid \in MaybeXid
         /\ s[i].cid \in CommandIds /\ s[i].before \in CommandIds
         /\ s[i].name \in Names \cup {NoName}
<1>1. s[i] \in Levels
  BY ElementOfSeq
<1>2. QED
  BY <1>1 DEF Levels

LEMMA EmptyStack ==
  ASSUME NEW s \in Seq(Levels)
  PROVE  /\ Len(s) \in Nat
         /\ s = <<>> <=> Len(s) = 0
BY EmptySeq, LenProperties

(* The top of the stack with another state.                                *)
LEMMA WithBlockIs ==
  ASSUME NEW s \in Seq(Levels), s # <<>>, NEW blk \in TBlockState
  PROVE  LET r == WithBlock(s, blk) IN
         /\ r \in Seq(Levels) /\ Len(r) = Len(s)
         /\ \A i \in 1 .. Len(s) :
              /\ r[i].block = IF i = Len(s) THEN blk ELSE s[i].block
              /\ r[i].xid = s[i].xid /\ r[i].cid = s[i].cid
              /\ r[i].before = s[i].before /\ r[i].name = s[i].name
<1> DEFINE e == [s[Len(s)] EXCEPT !.block = blk]
<1>1. Len(s) \in 1 .. Len(s)
  BY EmptyStack
<1>2. s[Len(s)] \in Levels /\ e \in Levels
  BY <1>1, LevelTypes, Zenon DEF Levels
<1>3. WithBlock(s, blk) = [s EXCEPT ![Len(s)] = e]
  BY DEF WithBlock
<1>4. /\ e.block = blk /\ e.xid = s[Len(s)].xid /\ e.cid = s[Len(s)].cid
      /\ e.before = s[Len(s)].before /\ e.name = s[Len(s)].name
  BY <1>2 DEF Levels
<1> HIDE DEF e
<1>5. /\ [s EXCEPT ![Len(s)] = e] \in Seq(Levels)
      /\ Len([s EXCEPT ![Len(s)] = e]) = Len(s)
      /\ \A i \in 1 .. Len(s) : [s EXCEPT ![Len(s)] = e][i] = IF i = Len(s) THEN e ELSE s[i]
  BY <1>1, <1>2, ExceptSeq
<1>6. QED
  BY <1>3, <1>4, <1>5, Zenon

(* A level with another counter.                                           *)
LEMMA WithCidIs ==
  ASSUME NEW s \in Seq(Levels), NEW k \in 1 .. Len(s), NEW c \in CommandIds
  PROVE  LET r == [s EXCEPT ![k].cid = c] IN
         /\ r \in Seq(Levels) /\ Len(r) = Len(s)
         /\ \A i \in 1 .. Len(s) :
              /\ r[i].cid = IF i = k THEN c ELSE s[i].cid
              /\ r[i].xid = s[i].xid /\ r[i].block = s[i].block
              /\ r[i].before = s[i].before /\ r[i].name = s[i].name
<1> DEFINE e == [s[k] EXCEPT !.cid = c]
<1>2. s[k] \in Levels /\ e \in Levels
  BY LevelTypes, Zenon DEF Levels
<1>3. [s EXCEPT ![k].cid = c] = [s EXCEPT ![k] = e]
  OBVIOUS
<1>4. /\ e.cid = c /\ e.xid = s[k].xid /\ e.block = s[k].block
      /\ e.before = s[k].before /\ e.name = s[k].name
  BY <1>2 DEF Levels
<1> HIDE DEF e
<1>5. /\ [s EXCEPT ![k] = e] \in Seq(Levels)
      /\ Len([s EXCEPT ![k] = e]) = Len(s)
      /\ \A i \in 1 .. Len(s) : [s EXCEPT ![k] = e][i] = IF i = k THEN e ELSE s[i]
  BY <1>2, ExceptSeq
<1>6. QED
  BY <1>3, <1>4, <1>5

LEMMA WithXidIs ==
  ASSUME NEW s \in Seq(Levels), NEW k \in 1 .. Len(s), NEW x \in MaybeXid
  PROVE  LET r == [s EXCEPT ![k].xid = x] IN
         /\ r \in Seq(Levels) /\ Len(r) = Len(s)
         /\ \A i \in 1 .. Len(s) :
              /\ r[i].xid = IF i = k THEN x ELSE s[i].xid
              /\ r[i].cid = s[i].cid /\ r[i].block = s[i].block
              /\ r[i].before = s[i].before /\ r[i].name = s[i].name
<1> DEFINE e == [s[k] EXCEPT !.xid = x]
<1>2. s[k] \in Levels /\ e \in Levels
  BY LevelTypes, Zenon DEF Levels
<1>3. [s EXCEPT ![k].xid = x] = [s EXCEPT ![k] = e]
  OBVIOUS
<1>4. /\ e.xid = x /\ e.cid = s[k].cid /\ e.block = s[k].block
      /\ e.before = s[k].before /\ e.name = s[k].name
  BY <1>2 DEF Levels
<1> HIDE DEF e
<1>5. /\ [s EXCEPT ![k] = e] \in Seq(Levels)
      /\ Len([s EXCEPT ![k] = e]) = Len(s)
      /\ \A i \in 1 .. Len(s) : [s EXCEPT ![k] = e][i] = IF i = k THEN e ELSE s[i]
  BY <1>2, ExceptSeq
<1>6. QED
  BY <1>3, <1>4, <1>5

(* The bottom k levels.                                                    *)
LEMMA BottomIs ==
  ASSUME NEW s \in Seq(Levels), NEW k \in 0 .. Len(s)
  PROVE  LET r == SubSeq(s, 1, k) IN
         /\ r \in Seq(Levels) /\ Len(r) = k
         /\ \A i \in 1 .. k : r[i] = s[i]
<1>1. Len(s) \in Nat /\ \A i \in 1 .. k : s[i] \in Levels
  BY LenProperties, ElementOfSeq
<1>2. QED
  BY <1>1, SubSeqProperties

(* One more level.                                                         *)
LEMMA WithLevel ==
  ASSUME NEW b \in Seq(Levels), NEW e \in Levels
  PROVE  /\ Append(b, e) \in Seq(Levels) /\ Len(Append(b, e)) = Len(b) + 1
         /\ \A i \in 1 .. Len(b) : Append(b, e)[i] = b[i]
         /\ Append(b, e)[Len(b) + 1] = e
BY AppendProperties

(* Rolling back savepoints gives back the levels below them, since each    *)
(* remembers the counter of its parent.                                    *)
LEMMA AbortSubsIs ==
  ASSUME NEW s \in Seq(Levels), NEW n \in 1 .. Len(s) - 1,
         \A i \in 2 .. Len(s) : s[i].before = s[i-1].cid
  PROVE  AbortSubTransactions(s, n) = SubSeq(s, 1, Len(s) - n)
<1> DEFINE k == Len(s) - n
           b == SubSeq(s, 1, k)
           r == [b EXCEPT ![k].cid = s[k + 1].before]
<1>1. /\ k \in 1 .. Len(s) /\ k \in 0 .. Len(s) /\ k + 1 \in 2 .. Len(s) /\ k + 1 - 1 = k
      /\ k + 1 \in 1 .. Len(s)
  BY EmptyStack
<1>2. b \in Seq(Levels) /\ Len(b) = k /\ \A i \in 1 .. k : b[i] = s[i]
  BY <1>1, BottomIs
<1>3. s[k + 1].before = b[k].cid /\ k \in 1 .. Len(b) /\ b[k] \in Levels
  BY <1>1, <1>2, LevelTypes
<1>4. AbortSubTransactions(s, n) = r
  BY DEF AbortSubTransactions
<1> HIDE DEF k
<1>5. [b[k] EXCEPT !.cid = b[k].cid] = b[k]
  BY <1>3 DEF Levels
<1> HIDE DEF b
<1>6. r = [b EXCEPT ![k] = b[k]]
  BY <1>3, <1>5, Zenon
<1>7. [b EXCEPT ![k] = b[k]] = b
  BY <1>2, <1>3, LenProperties
<1>8. QED
  BY <1>4, <1>6, <1>7, Zenon DEF b, k

LEMMA NextCidGrows ==
  ASSUME NEW c \in CommandIds
  PROVE  NextCid(c) \in CommandIds /\ c <= NextCid(c)
BY BoundsAssumption DEF NextCid, CommandIds

(* GetCurrentTransactionId: the top level and the current one have the     *)
(* XID, the old one or the counter's; the other fields stay.               *)
LEMMA AssignXidIs ==
  ASSUME stack \in Seq(Levels), stack # <<>>, nextXid \in Int, nextXid >= 3,
         PublishedInStep, AssignXid(stack)[1].xid <= MaxXid
  PROVE  LET r == AssignXid(stack) IN
         /\ r \in Seq(Levels) /\ Len(r) = Len(stack)
         /\ r[1].xid = IF stack[1].xid = 0 THEN nextXid ELSE stack[1].xid
         /\ r[1].xid \in Xids
         /\ \A i \in 1 .. Len(stack) :
              /\ r[i].xid \in {r[1].xid, 0}
              /\ r[i].cid = stack[i].cid /\ r[i].block = stack[i].block
              /\ r[i].before = stack[i].before /\ r[i].name = stack[i].name
<1> DEFINE n == Len(stack)
           x == IF stack[1].xid = 0 THEN nextXid ELSE stack[1].xid
           a == [stack EXCEPT ![1].xid = x]
           b == [a EXCEPT ![n].xid = x]
<1>1. n \in 1 .. n /\ 1 \in 1 .. n
  BY EmptyStack
<1>2. /\ \A i \in 1 .. n : stack[i].xid \in {stack[1].xid, 0}
      /\ \A i \in 1 .. n : stack[i].xid \in MaybeXid
  BY LevelTypes DEF PublishedInStep, TopXid, InBlock, Depth
<1>3. CASE stack[n].xid # 0
  <2>1. AssignXid(stack) = stack
    BY <1>3 DEF AssignXid, Last
  <2>2. stack[1].xid # 0 /\ stack[1].xid \in Xids
    BY <1>1, <1>2, <1>3 DEF MaybeXid
  <2>3. QED
    BY <1>2, <2>1, <2>2
<1>4. CASE stack[n].xid = 0
  <2>1. AssignXid(stack) = b
    BY <1>4 DEF AssignXid, Last
  <2>2. x \in Xids
    <3>1. CASE stack[1].xid # 0
      BY <1>1, <1>2, <3>1 DEF MaybeXid
    <3>2. CASE stack[1].xid = 0
      <4>1. stack[1] \in Levels /\ DOMAIN stack = 1 .. n
        BY <1>1, LevelTypes, LenProperties
      <4>2. DOMAIN a = 1 .. n /\ a[1] = [stack[1] EXCEPT !.xid = x]
        BY <1>1, <4>1
      <4>3. a[1].xid = x /\ [a[1] EXCEPT !.xid = x].xid = x
        BY <4>1, <4>2 DEF Levels
      <4>4. b[1] = IF n = 1 THEN [a[1] EXCEPT !.xid = x] ELSE a[1]
        <5> HIDE DEF a, x
        <5> QED  BY <1>1, <4>2, Zenon
      <4>5. b[1].xid = x
        BY <4>3, <4>4, Zenon
      <4>6. QED
        BY <2>1, <3>2, <4>5 DEF Xids
    <3>3. QED
      BY <3>1, <3>2
  <2>3. /\ a \in Seq(Levels) /\ Len(a) = n
        /\ \A i \in 1 .. n :
             /\ a[i].xid = IF i = 1 THEN x ELSE stack[i].xid
             /\ a[i].cid = stack[i].cid /\ a[i].block = stack[i].block
             /\ a[i].before = stack[i].before /\ a[i].name = stack[i].name
    <3> x \in MaybeXid  BY <2>2 DEF MaybeXid
    <3> HIDE DEF x
    <3> QED  BY <1>1, WithXidIs
  <2>4. /\ b \in Seq(Levels) /\ Len(b) = n
        /\ \A i \in 1 .. n :
             /\ b[i].xid = IF i = n THEN x ELSE a[i].xid
             /\ b[i].cid = a[i].cid /\ b[i].block = a[i].block
             /\ b[i].before = a[i].before /\ b[i].name = a[i].name
    <3> x \in MaybeXid  BY <2>2 DEF MaybeXid
    <3> HIDE DEF x, a
    <3> QED  BY <1>1, <2>3, WithXidIs
  <2> HIDE DEF a, b, x
  <2>5. b[1].xid = x
    BY <1>1, <2>3, <2>4
  <2>6. \A i \in 1 .. n : b[i].xid \in {x, 0}
    BY <1>2, <2>3, <2>4 DEF x
  <2>7. QED
    BY <2>1, <2>2, <2>3, <2>4, <2>5, <2>6 DEF x
<1>5. QED
  BY <1>3, <1>4

-----------------------------------------------------------------------------
(***************************************************************************)
(* What keeps each part of the invariant                                   *)
(***************************************************************************)
others == <<stack, nextXid, clog, pgxact, curcid, gids, catalog, writes>>

(* A step of the query loop alone.                                         *)
LEMMA QuietStep ==
  ASSUME XactInv, UNCHANGED others,
         pc' \in {"idle", "body", "run", "done", "error"}, Started'
  PROVE  XactInv'
<1> USE DEF XactInv, others, catalog
<1>1. TypeOK'
  BY DEF TypeOK
<1>2. XidInv'
  BY DEF XidInv, XidsAssigned, PublishedInStep, NoOrphanedXid, TopXid, InBlock, Depth
<1>3. StackInv'
  BY DEF StackInv, StackShape, CommandIdsNest, CidsGrow, Depth
<1>4. WriteInv'
  BY DEF WriteInv, WritesNest, OwnWritesVisible, Depth
<1>5. CatalogInStep'
  BY DEF CatalogInStep, InBlock
<1>6. QED
  BY <1>1, <1>2, <1>3, <1>4, <1>5

(* The transaction goes on with the XID it has.                            *)
LEMMA SameXid ==
  ASSUME XidInv, UNCHANGED <<nextXid, clog, pgxact, gids>>,
         stack # <<>>, stack' # <<>>, stack'[1].xid = stack[1].xid,
         \A i \in 1 .. Depth' : stack'[i].xid \in {stack[1].xid, 0}
  PROVE  XidInv'
<1>1. TopXid = stack[1].xid /\ TopXid' = TopXid
  BY DEF TopXid, InBlock
<1>2. XidsAssigned' /\ NoOrphanedXid'
  BY <1>1 DEF XidInv, XidsAssigned, NoOrphanedXid
<1>3. PublishedInStep'
  BY <1>1 DEF XidInv, PublishedInStep
<1>4. QED
  BY <1>2, <1>3 DEF XidInv

(* It ends, and the log has its outcome.                                   *)
LEMMA DecidedXid ==
  ASSUME TypeOK, XidInv, NEW status \in {"kCommitted", "kAborted"},
         SetXidStatus(TopXid, status), pgxact' = 0, stack' = <<>>,
         UNCHANGED <<nextXid, gids>>
  PROVE  /\ XidInv' /\ clog' \in [Xids -> {"kInProgress", "kCommitted", "kAborted"}]
         /\ TopXid # 0 => clog'[TopXid] = status
<1>1. TopXid \in MaybeXid /\ TopXid < nextXid /\ nextXid \in Int /\ nextXid >= 3
  <2>1. stack # <<>> => stack[1].xid \in MaybeXid
    BY LevelTypes, EmptyStack DEF TypeOK
  <2>2. QED
    BY <2>1, BoundsAssumption DEF TypeOK, TopXid, InBlock, MaybeXid, XidInv, XidsAssigned
<1>2. TopXid' = 0 /\ Depth' = 0
  BY DEF TopXid, InBlock, Depth
<1>3. \A x \in Xids : clog'[x] = IF x = TopXid THEN status ELSE clog[x]
  BY <1>1 DEF SetXidStatus, TypeOK, Xids
<1>4. clog' \in [Xids -> {"kInProgress", "kCommitted", "kAborted"}]
  BY <1>1 DEF SetXidStatus, TypeOK, MaybeXid
<1>5. XidsAssigned'
  BY <1>1, <1>2, <1>3, BoundsAssumption DEF XidInv, XidsAssigned, Xids
<1>6. PublishedInStep'
  BY <1>2 DEF PublishedInStep
<1>7. NoOrphanedXid'
  <2>1. ASSUME NEW x \in 3 .. nextXid - 1
        PROVE  clog'[x] = "kInProgress" <=> \E g \in Gids : gids[g] = x
    <3>1. x \in Xids
      BY BoundsAssumption DEF TypeOK, Xids
    <3>2. CASE x = TopXid
      BY <1>3, <3>1, <3>2 DEF XidInv, NoOrphanedXid
    <3>3. CASE x # TopXid
      BY <1>3, <3>1, <3>3 DEF XidInv, NoOrphanedXid
    <3>4. QED
      BY <3>2, <3>3
  <2>2. QED
    BY <1>1, <1>2, <2>1 DEF XidInv, NoOrphanedXid
<1>8. QED
  BY <1>1, <1>3, <1>4, <1>5, <1>6, <1>7 DEF XidInv, MaybeXid

(* With no transaction there are no levels and no rows to speak of.        *)
LEMMA NoLevels ==
  ASSUME stack' = <<>>, writes' = {}
  PROVE  StackInv' /\ WriteInv'
<1>1. Depth' = 0
  BY DEF Depth
<1>2. QED
  BY <1>1 DEF StackInv, StackShape, CommandIdsNest, CidsGrow, WriteInv, WritesNest,
              OwnWritesVisible

LEMMA SameCatalog ==
  ASSUME CatalogInStep, UNCHANGED catalog, stack # <<>>, stack' # <<>>
  PROVE  CatalogInStep'
BY DEF CatalogInStep, catalog, InBlock

(* The only level on the stack, or none of the two ends applies.           *)
LEMMA OneLevel ==
  ASSUME TypeOK, StackShape, stack # <<>>, CurrentState.block # "kSubInProgress"
  PROVE  Depth = 1 /\ CurrentState = stack[1]
<1>1. Depth \in Nat /\ Depth # 0
  BY EmptyStack DEF TypeOK, Depth
<1>2. CurrentState = stack[Depth]
  BY DEF CurrentState, Last, Depth
<1>3. QED
  BY <1>1, <1>2 DEF StackShape

LEMMA PoppedOfOne ==
  ASSUME NEW s, Len(s) = 1
  PROVE  Popped(s) = <<>>
BY SubSeqEmpty DEF Popped

(* CommitTransaction at the top level.                                     *)
LEMMA CommitStep ==
  ASSUME XactInv, stack # <<>>, Depth = 1, CurrentState = stack[1], CommitTransaction,
         pc' \in {"idle", "done"}
  PROVE  XactInv'
<1> USE DEF XactInv
<1>1. stack' = <<>>
  BY PoppedOfOne DEF CommitTransaction, PopState, Depth
<1>2. CurrentState.xid = TopXid
  BY DEF TopXid, InBlock
<1>3. XidInv' /\ clog' \in [Xids -> {"kInProgress", "kCommitted", "kAborted"}]
  BY <1>1, <1>2, DecidedXid DEF CommitTransaction
<1>4. CatalogInStep' /\ file' \in SUBSET Tables /\ dirty' \in BOOLEAN
  BY <1>1, Zenon DEF CommitTransaction, CommitDirty, CatalogInStep, InBlock, TypeOK
<1>5. TypeOK'
  BY <1>1, <1>3, <1>4, EmptySeq, BoundsAssumption DEF CommitTransaction, TypeOK, MaybeXid
<1>6. QED
  BY <1>1, <1>3, <1>4, <1>5, NoLevels DEF CommitTransaction, Started

(* AbortTransaction, the savepoints being gone.                            *)
LEMMA AbortStep ==
  ASSUME XactInv, stack # <<>>, NEW s, Len(s) = 1, s[1].xid = stack[1].xid,
         AbortTransaction(s), pc' \in {"idle", "done"}
  PROVE  /\ XactInv' /\ stack' = <<>>
         /\ TopXid # 0 => clog'[TopXid] = "kAborted"
<1> USE DEF XactInv
<1>1. stack' = <<>>
  BY PoppedOfOne DEF AbortTransaction
<1>2. Last(s).xid = TopXid
  BY DEF TopXid, InBlock, Last
<1>3. /\ XidInv' /\ clog' \in [Xids -> {"kInProgress", "kCommitted", "kAborted"}]
      /\ TopXid # 0 => clog'[TopXid] = "kAborted"
  BY <1>1, <1>2, DecidedXid DEF AbortTransaction
<1>4. CatalogInStep' /\ live' \in SUBSET Tables /\ dirty' \in BOOLEAN
  <2>1. undo = {file} /\ file \in SUBSET Tables
    BY DEF CatalogInStep, InBlock, TypeOK
  <2>2. live' = file /\ dirty' = FALSE /\ undo' = {} /\ file' = file
    BY <2>1 DEF AbortTransaction
  <2>3. QED
    BY <1>1, <2>1, <2>2, Zenon DEF CatalogInStep, InBlock
<1>5. TypeOK'
  BY <1>1, <1>3, <1>4, EmptySeq, BoundsAssumption DEF AbortTransaction, TypeOK, MaybeXid
<1>6. QED
  BY <1>1, <1>3, <1>4, <1>5, NoLevels DEF AbortTransaction, Started

(* CommandCounterIncrement on the stack, an XID assigned or not: the rows  *)
(* written before it stay visible, and so does one written just now.       *)
LEMMA CounterStep ==
  ASSUME XactInv, stack # <<>>, NEW s \in Seq(Levels), Len(s) = Depth,
         \A i \in 1 .. Depth :
           /\ s[i].cid = stack[i].cid /\ s[i].block = stack[i].block
           /\ s[i].before = stack[i].before,
         CommandCounterIncrement(s),
         writes' \subseteq writes \cup {[cid |-> CurrentState.cid, level |-> Depth]}
  PROVE  /\ stack' \in Seq(Levels) /\ Depth' = Depth /\ stack' # <<>>
         /\ \A i \in 1 .. Depth : stack'[i].xid = s[i].xid /\ stack'[i].block = s[i].block
         /\ curcid' \in CommandIds \cup {NoSnapshot}
         /\ StackInv' /\ WriteInv'
<1> USE DEF XactInv
<1> DEFINE c == stack[Depth].cid
           d == NextCid(c)
<1>1. Depth \in Nat /\ Depth # 0 /\ Depth \in 1 .. Depth /\ stack \in Seq(Levels)
  BY EmptyStack DEF TypeOK, Depth
<1>2. CurrentState = stack[Depth] /\ Last(s).cid = c
  BY <1>1 DEF CurrentState, Last, Depth
<1>3. c \in CommandIds /\ d \in CommandIds /\ c <= d
  BY <1>1, LevelTypes, NextCidGrows DEF Depth
<1>4. stack' = [s EXCEPT ![Depth].cid = d] /\ curcid' = IF curcid = -1 THEN curcid ELSE d
  BY <1>2 DEF CommandCounterIncrement
<1> HIDE DEF d, c
<1>5. /\ stack' \in Seq(Levels) /\ Len(stack') = Depth
      /\ \A i \in 1 .. Depth :
           /\ stack'[i].cid = IF i = Depth THEN d ELSE stack[i].cid
           /\ stack'[i].block = stack[i].block /\ stack'[i].xid = s[i].xid
           /\ stack'[i].before = stack[i].before
  BY <1>1, <1>3, <1>4, WithCidIs
<1>6. Depth' = Depth /\ stack' # <<>>
  BY <1>1, <1>5, EmptyStack DEF Depth
<1>7. curcid' \in CommandIds \cup {NoSnapshot}
  BY <1>3, <1>4 DEF TypeOK
<1>8. \A i \in 1 .. Depth : stack[i].cid \in Int /\ stack[i].before \in Int /\ stack[i].cid <= c
  BY <1>1, LevelTypes DEF StackInv, CidsGrow, CommandIds, c, Depth
<1>9. c \in Int /\ d \in Int
  BY <1>3 DEF CommandIds
<1>10. StackInv'
  <2>1. StackShape'
    BY <1>5, <1>6 DEF StackInv, StackShape
  <2>2. CommandIdsNest'
    <3>1. ASSUME NEW i \in 2 .. Depth
          PROVE  stack'[i].before = stack'[i-1].cid /\ stack'[i].cid >= stack'[i].before
      <4>1. i \in 1 .. Depth /\ i - 1 \in 1 .. Depth /\ i - 1 # Depth
        BY <1>1
      <4>2. stack[i].before = stack[i-1].cid /\ stack[i].cid >= stack[i].before
        BY DEF StackInv, CommandIdsNest
      <4>3. stack'[i].cid >= stack[i].cid
        BY <1>3, <1>5, <1>8, <1>9, <4>1 DEF c
      <4>4. stack'[i].cid \in Int
        BY <1>5, <1>8, <1>9, <4>1
      <4>5. QED
        BY <1>5, <1>8, <4>1, <4>2, <4>3, <4>4
    <3>2. QED
      BY <1>6, <3>1 DEF CommandIdsNest
  <2>3. CidsGrow'
    <3>1. ASSUME NEW i \in 1 .. Depth, NEW j \in 1 .. Depth, i <= j
          PROVE  stack'[i].cid <= stack'[j].cid
      <4>1. CASE j = Depth
        BY <1>3, <1>5, <1>8, <1>9, <4>1
      <4>2. CASE j # Depth
        <5>1. i # Depth
          BY <1>1, <3>1, <4>2
        <5>2. stack[i].cid <= stack[j].cid
          BY <3>1 DEF StackInv, CidsGrow
        <5>3. QED
          BY <1>5, <4>2, <5>1, <5>2
      <4>3. QED
        BY <4>1, <4>2
    <3>2. QED
      BY <1>6, <3>1 DEF CidsGrow
  <2>4. QED
    BY <2>1, <2>2, <2>3 DEF StackInv
<1>11. ASSUME NEW w \in writes'
       PROVE  w.level \in 1 .. Depth /\ w.cid \in Int /\ w.cid <= stack'[w.level].cid /\ w.cid <= d
  <2>1. CASE w \in writes
    <3>1. w.level \in 1 .. Depth /\ w.cid \in Int /\ w.cid <= stack[w.level].cid
      BY <2>1 DEF WriteInv, WritesNest, TypeOK, CommandIds
    <3>2. QED
      BY <1>3, <1>5, <1>8, <1>9, <3>1, SMTT(20)
  <2>2. CASE w = [cid |-> CurrentState.cid, level |-> Depth]
    BY <1>1, <1>2, <1>3, <1>5, <1>9, <2>2 DEF c
  <2>3. QED
    BY <2>1, <2>2
<1>12. WriteInv'
  BY <1>4, <1>6, <1>11 DEF WriteInv, WritesNest, OwnWritesVisible
<1>13. QED
  BY <1>5, <1>6, <1>7, <1>10, <1>12

-----------------------------------------------------------------------------
(***************************************************************************)
(* One lemma per kind of step                                              *)
(***************************************************************************)
LEMMA StartStep ==
  ASSUME XactInv, StartTransactionCommand
  PROVE  XactInv'
<1> USE DEF XactInv
<1>1. CASE stack = <<>>
  <2> DEFINE l == [block |-> "kStarted", xid |-> 0, cid |-> 0, before |-> 0, name |-> NoName]
  <2>1. /\ stack' = <<l>> /\ undo' = {live}
        /\ UNCHANGED <<nextXid, clog, pgxact, curcid, gids, live, dirty, file, writes>>
        /\ pc' = "body"
    BY <1>1 DEF StartTransactionCommand, StartTransaction
  <2>2. l \in Levels /\ l.block = "kStarted" /\ l.xid = 0 /\ l.cid = 0 /\ l.before = 0
    BY BoundsAssumption DEF Levels, TBlockState, MaybeXid, CommandIds
  <2> HIDE DEF l
  <2>3. stack' \in Seq(Levels) /\ Len(stack') = 1 /\ stack' # <<>> /\ stack'[1] = l
    BY <2>1, <2>2
  <2>4. Depth' = 1 /\ Depth = 0 /\ TopXid = 0 /\ TopXid' = 0
    BY <1>1, <2>2, <2>3 DEF Depth, TopXid, InBlock
  <2>5. TypeOK'
    BY <2>1, <2>3, BoundsAssumption DEF TypeOK
  <2>6. XidInv'
    <3>1. XidsAssigned' /\ NoOrphanedXid'
      BY <2>1, <2>4 DEF XidInv, XidsAssigned, NoOrphanedXid
    <3>2. PublishedInStep'
      BY <2>1, <2>2, <2>3, <2>4 DEF XidInv, PublishedInStep
    <3>3. QED
      BY <3>1, <3>2 DEF XidInv
  <2>7. StackInv'
    BY <2>2, <2>3, <2>4 DEF StackInv, StackShape, CommandIdsNest, CidsGrow
  <2>8. writes = {}
    BY <2>4 DEF WriteInv, WritesNest
  <2>9. WriteInv'
    BY <2>1, <2>8 DEF WriteInv, WritesNest, OwnWritesVisible
  <2>10. CatalogInStep'
    BY <1>1, <2>1, <2>3 DEF CatalogInStep, InBlock
  <2>11. QED
    BY <2>3, <2>5, <2>6, <2>7, <2>9, <2>10 DEF Started
<1>2. CASE stack # <<>>
  <2>1. CurrentState.block # "kBegin"
    <3>1. Depth \in 1 .. Depth
      BY <1>2, EmptyStack DEF TypeOK, Depth
    <3>2. QED
      BY <3>1 DEF StackInv, StackShape, CurrentState, Last, Depth
  <2>2. UNCHANGED others /\ pc' = "body"
    BY <1>2, <2>1 DEF StartTransactionCommand, others
  <2>3. QED
    BY <1>2, <2>2, QuietStep DEF Started, others
<1>3. QED
  BY <1>1, <1>2

LEMMA SnapshotStep ==
  ASSUME XactInv, GetTransactionSnapshot
  PROVE  XactInv'
<1> USE DEF XactInv
<1>1. stack # <<>>
  BY DEF Started, GetTransactionSnapshot
<1>2. Depth \in 1 .. Depth /\ stack \in Seq(Levels) /\ curcid' = stack[Depth].cid
  BY <1>1, EmptyStack DEF TypeOK, Depth, GetTransactionSnapshot, CurrentState, Last
<1>3. curcid' \in CommandIds
  BY <1>2, LevelTypes DEF Depth
<1>4. UNCHANGED <<stack, nextXid, clog, pgxact, gids, catalog, writes>> /\ pc' = "run"
  BY DEF GetTransactionSnapshot
<1>5. TypeOK'
  BY <1>3, <1>4 DEF TypeOK, catalog
<1>6. XidInv' /\ StackInv' /\ CatalogInStep'
  BY <1>4 DEF XidInv, XidsAssigned, PublishedInStep, NoOrphanedXid, TopXid, InBlock, Depth,
              StackInv, StackShape, CommandIdsNest, CidsGrow, CatalogInStep, catalog
<1>7. WriteInv'
  <2>1. ASSUME NEW w \in writes PROVE w.cid <= curcid'
    <3>1. /\ w.level \in 1 .. Depth /\ w.cid \in Int /\ w.cid <= stack[w.level].cid
          /\ w.level <= Depth
      BY DEF WriteInv, WritesNest, TypeOK, CommandIds
    <3>2. stack[w.level].cid \in Int /\ stack[Depth].cid \in Int
      BY <1>2, <3>1, LevelTypes DEF CommandIds, Depth
    <3>3. stack[w.level].cid <= stack[Depth].cid
      BY <1>2, <3>1 DEF StackInv, CidsGrow
    <3>4. QED
      BY <1>2, <3>1, <3>2, <3>3
  <2>2. QED
    BY <1>4, <2>1 DEF WriteInv, WritesNest, OwnWritesVisible, Depth
<1>8. QED
  BY <1>1, <1>4, <1>5, <1>6, <1>7 DEF Started

(* The XID a write or PREPARE runs under becomes the transaction's.        *)
LEMMA AssignedXid ==
  ASSUME XactInv, stack # <<>>, NEW r, r = AssignXid(stack), r[1].xid <= MaxXid,
         nextXid' = IF stack[1].xid # 0 THEN nextXid ELSE nextXid + 1,
         pgxact' = r[1].xid, UNCHANGED <<clog, gids>>,
         stack' # <<>>, Depth' = Depth, \A i \in 1 .. Depth : stack'[i].xid = r[i].xid
  PROVE  /\ XidInv' /\ nextXid' \in 3 .. MaxXid + 1 /\ pgxact' \in MaybeXid
<1> USE DEF XactInv
<1> DEFINE x == r[1].xid
<1>1. /\ nextXid \in Int /\ nextXid >= 3 /\ nextXid <= MaxXid + 1 /\ MaxXid \in Int
      /\ stack \in Seq(Levels) /\ Depth \in Nat /\ 1 \in 1 .. Depth
  BY BoundsAssumption, EmptyStack DEF TypeOK, Depth
<1>2. /\ x = IF stack[1].xid = 0 THEN nextXid ELSE stack[1].xid
      /\ x \in Xids /\ \A i \in 1 .. Depth : r[i].xid \in {x, 0}
  BY <1>1, AssignXidIs DEF Depth, XidInv
<1>3. TopXid = stack[1].xid /\ TopXid' = x /\ x \in Int /\ x >= 3 /\ x <= MaxXid
  BY <1>1, <1>2 DEF TopXid, InBlock, Xids
<1> HIDE DEF x
<1>4. CASE TopXid # 0
  <2>1. nextXid' = nextXid /\ x = TopXid
    BY <1>2, <1>3, <1>4
  <2>2. XidsAssigned' /\ NoOrphanedXid'
    BY <1>3, <2>1 DEF XidInv, XidsAssigned, NoOrphanedXid
  <2>3. PublishedInStep'
    BY <1>2, <1>3, <2>1, <1>4 DEF XidInv, PublishedInStep, x
  <2>4. QED
    BY <1>1, <1>2, <2>1, <2>2, <2>3 DEF XidInv, MaybeXid, x
<1>5. CASE TopXid = 0
  <2>1. nextXid' = nextXid + 1 /\ x = nextXid
    BY <1>2, <1>3, <1>5
  <2>2. clog[x] = "kInProgress" /\ \A g \in Gids : gids[g] \in Int /\ gids[g] # x
    BY <1>1, <1>2, <2>1 DEF XidInv, XidsAssigned, TypeOK, MaybeXid, Xids
  <2>3. XidsAssigned'
    <3>1. \A g \in Gids : gids[g] < nextXid + 1
      BY <1>1, <2>2 DEF XidInv, XidsAssigned
    <3>2. \A y \in Xids : y >= nextXid + 1 => y >= nextXid
      BY <1>1 DEF Xids
    <3>3. QED
      BY <1>1, <1>3, <2>1, <3>1, <3>2 DEF XidInv, XidsAssigned
  <2>4. NoOrphanedXid'
    <3>1. ASSUME NEW y \in 3 .. nextXid
          PROVE  clog[y] = "kInProgress" <=> y = x \/ \E g \in Gids : gids[g] = y
      <4>1. CASE y = x
        BY <2>2, <4>1
      <4>2. CASE y # x
        <5>1. y \in 3 .. nextXid - 1 /\ y # 0
          BY <1>1, <2>1, <4>2
        <5>2. QED
          BY <1>5, <4>2, <5>1 DEF XidInv, NoOrphanedXid
      <4>3. QED
        BY <4>1, <4>2
    <3>2. 3 .. nextXid' - 1 = 3 .. nextXid
      BY <1>1, <2>1
    <3>3. QED
      BY <1>3, <2>2, <3>1, <3>2, Zenon DEF XidInv, NoOrphanedXid
  <2>5. PublishedInStep'
    BY <1>2, <1>3, <2>2 DEF PublishedInStep, x
  <2>6. QED
    BY <1>1, <1>2, <1>3, <2>1, <2>3, <2>4, <2>5 DEF XidInv, MaybeXid, x
<1>6. QED
  BY <1>4, <1>5

LEMMA WriteStep ==
  ASSUME XactInv, Write
  PROVE  XactInv' /\ stack' # <<>> /\ stack'[1].block = stack[1].block
<1> USE DEF XactInv
<1> DEFINE r == AssignXid(stack)
<1>1. /\ stack # <<>> /\ stack \in Seq(Levels) /\ nextXid \in Int /\ nextXid >= 3
      /\ r[1].xid <= MaxXid /\ Depth \in 1 .. MaxDepth
  BY EmptyStack, BoundsAssumption DEF Started, Write, TypeOK, Depth
<1>2. /\ r \in Seq(Levels) /\ Len(r) = Depth
      /\ \A i \in 1 .. Depth :
           /\ r[i].cid = stack[i].cid /\ r[i].block = stack[i].block
           /\ r[i].before = stack[i].before
  BY <1>1, AssignXidIs DEF XidInv, Depth
<1>3. /\ CommandCounterIncrement(r)
      /\ writes' = writes \cup {[cid |-> CurrentState.cid, level |-> Depth]}
      /\ nextXid' = IF stack[1].xid # 0 THEN nextXid ELSE nextXid + 1
      /\ pgxact' = r[1].xid /\ UNCHANGED <<clog, gids, catalog>> /\ pc' = "run"
  BY DEF Write
<1> HIDE DEF r
<1>4. /\ stack' \in Seq(Levels) /\ Depth' = Depth /\ stack' # <<>>
      /\ \A i \in 1 .. Depth : stack'[i].xid = r[i].xid /\ stack'[i].block = r[i].block
      /\ curcid' \in CommandIds \cup {NoSnapshot}
      /\ StackInv' /\ WriteInv'
  BY <1>1, <1>2, <1>3, CounterStep
<1>5. XidInv' /\ nextXid' \in 3 .. MaxXid + 1 /\ pgxact' \in MaybeXid
  BY <1>1, <1>3, <1>4, AssignedXid DEF r
<1>6. CatalogInStep'
  BY <1>1, <1>3, <1>4, SameCatalog
<1>7. CurrentState.cid \in CommandIds
  BY <1>1, LevelTypes DEF CurrentState, Last, Depth
<1>8. TypeOK'
  <2>1. writes' \in SUBSET [cid : CommandIds, level : 1 .. MaxDepth]
    BY <1>1, <1>3, <1>7 DEF TypeOK
  <2>2. Len(stack') <= MaxDepth
    BY <1>4 DEF Depth, TypeOK
  <2>3. QED
    BY <1>3, <1>4, <1>5, <2>1, <2>2, SMTT(20) DEF TypeOK, catalog
<1>9. stack'[1].block = stack[1].block
  BY <1>1, <1>2, <1>4
<1>10. QED
  BY <1>4, <1>5, <1>6, <1>8, <1>9 DEF Started

LEMMA DdlStep ==
  ASSUME XactInv, NEW t \in Tables, Ddl(t)
  PROVE  XactInv'
<1> USE DEF XactInv
<1>1. stack # <<>>
  BY DEF Started, Ddl
<1>2. CatalogInStep' /\ live' \in SUBSET Tables /\ dirty' = TRUE
  BY <1>1, Zenon DEF Ddl, CatalogInStep, InBlock, TypeOK
<1>3. TypeOK'
  BY <1>2 DEF Ddl, TypeOK
<1>4. XidInv' /\ StackInv' /\ WriteInv' /\ Started'
  BY <1>1 DEF Ddl, XidInv, XidsAssigned, PublishedInStep, NoOrphanedXid, TopXid, InBlock,
              Depth, StackInv, StackShape, CommandIdsNest, CidsGrow, WriteInv,
              WritesNest, OwnWritesVisible, Started
<1>5. QED
  BY <1>2, <1>3, <1>4

(* The levels keep their counters and, but for the top level of a single   *)
(* statement or a block, their states.                                     *)
LEMMA SameLevels ==
  ASSUME StackInv, WriteInv, Depth' = Depth, UNCHANGED <<curcid, writes>>,
         \A i \in 1 .. Depth :
           /\ stack'[i].cid = stack[i].cid /\ stack'[i].before = stack[i].before
           /\ \/ stack'[i].block = stack[i].block
              \/ i = 1 /\ stack'[i].block \in {"kInProgress", "kAbortPending"}
  PROVE  StackInv' /\ WriteInv'
<1>1. StackShape'
  BY DEF StackInv, StackShape
<1>2. ASSUME NEW i \in 2 .. Depth
      PROVE  stack'[i].before = stack'[i-1].cid /\ stack'[i].cid >= stack'[i].before
  <2>1. i \in 1 .. Depth /\ i - 1 \in 1 .. Depth
    BY DEF Depth
  <2>2. QED
    BY <2>1 DEF StackInv, CommandIdsNest
<1>3. CidsGrow'
  BY DEF StackInv, CidsGrow
<1>4. WriteInv'
  BY DEF WriteInv, WritesNest, OwnWritesVisible
<1>5. QED
  BY <1>1, <1>2, <1>3, <1>4 DEF StackInv, CommandIdsNest

(* A block begins, or fails.                                               *)
LEMMA BlockStep ==
  ASSUME XactInv, stack # <<>>, Depth = 1, NEW blk \in {"kInProgress", "kAbortPending"},
         stack' = WithBlock(stack, blk), pc' \in {"done", "idle"},
         UNCHANGED <<nextXid, clog, pgxact, curcid, gids, catalog, writes>>
  PROVE  XactInv' /\ stack' # <<>> /\ stack'[1].block = blk
<1> USE DEF XactInv
<1>1. stack \in Seq(Levels) /\ blk \in TBlockState /\ 1 \in 1 .. Depth /\ Len(stack) = 1
  BY DEF TypeOK, TBlockState, Depth
<1>2. /\ stack' \in Seq(Levels) /\ Len(stack') = 1
      /\ stack'[1].block = blk
      /\ \A i \in 1 .. 1 :
           /\ stack'[i].xid = stack[i].xid /\ stack'[i].cid = stack[i].cid
           /\ stack'[i].before = stack[i].before
  BY <1>1, WithBlockIs
<1>3. Depth' = 1 /\ stack' # <<>>
  BY <1>2, EmptyStack DEF Depth
<1>4. TypeOK'
  BY <1>2, BoundsAssumption DEF TypeOK, catalog
<1>5. XidInv'
  BY <1>2, <1>3, SameXid
<1>6. StackInv' /\ WriteInv'
  BY <1>2, <1>3, SameLevels
<1>7. CatalogInStep'
  BY <1>3, SameCatalog
<1>8. QED
  BY <1>2, <1>3, <1>4, <1>5, <1>6, <1>7 DEF Started

LEMMA BeginStep ==
  ASSUME XactInv, BeginTransactionBlock
  PROVE  XactInv'
<1> USE DEF XactInv
<1>1. stack # <<>> /\ pc' = "done"
  BY DEF Started, BeginTransactionBlock
<1>2. CASE CurrentState.block = "kStarted"
  BY <1>1, <1>2, OneLevel, BlockStep, Zenon DEF BeginTransactionBlock, StackInv
<1>3. CASE CurrentState.block # "kStarted"
  BY <1>1, <1>3, QuietStep DEF BeginTransactionBlock, others, Started
<1>4. QED
  BY <1>2, <1>3

(* COMMIT.                                                                 *)
LEMMA EndStep ==
  ASSUME XactInv, EndTransactionBlock
  PROVE  XactInv' /\ FailedStep
<1> USE DEF XactInv
<1>1. stack # <<>> /\ pc' = "done"
  BY DEF Started, EndTransactionBlock
<1>2. CASE CurrentState.block \in {"kStarted", "kInProgress", "kBegin"}
  <2>1. CommitTransaction
    BY <1>2 DEF EndTransactionBlock
  <2>2. Depth = 1 /\ CurrentState = stack[1]
    BY <1>1, <1>2, OneLevel DEF StackInv
  <2>3. ~Failed
    BY <1>2, <2>2 DEF Failed
  <2>4. QED
    BY <1>1, <2>1, <2>2, <2>3, CommitStep DEF FailedStep
<1>3. CASE CurrentState.block \in {"kAbort", "kAbortPending"}
  <2>1. AbortTransaction(stack)
    BY <1>3 DEF EndTransactionBlock
  <2>2. Depth = 1
    BY <1>1, <1>3, OneLevel DEF StackInv
  <2>3. QED
    BY <1>1, <2>1, <2>2, AbortStep DEF Depth, FailedStep, InBlock
<1>4. CASE CurrentState.block \notin {"kStarted", "kInProgress", "kBegin", "kAbort", "kAbortPending"}
  BY <1>1, <1>4, QuietStep
     DEF EndTransactionBlock, others, Started, FailedStep, Failed, InBlock
<1>5. QED
  BY <1>2, <1>3, <1>4

(* ROLLBACK leaves no transaction, and the log has it aborted.             *)
LEMMA RollbackStep ==
  ASSUME XactInv, AbortTransactionBlock
  PROVE  /\ XactInv' /\ stack' = <<>>
         /\ TopXid # 0 => clog'[TopXid] = "kAborted"
<1> USE DEF XactInv
<1>1. stack # <<>> /\ pc' = "done" /\ stack \in Seq(Levels)
  BY DEF Started, AbortTransactionBlock, TypeOK
<1>2. CASE CurrentState.block = "kSubInProgress"
  <2> DEFINE s == SubSeq(stack, 1, 1)
  <2>1. Depth \in Nat /\ Depth # 0
    BY <1>1, EmptyStack DEF Depth
  <2>2. Depth # 1
    BY <1>2, <2>1 DEF StackInv, StackShape, CurrentState, Last, Depth
  <2>3. AbortSubTransactions(stack, Depth - 1) = s
    <3> DEFINE d == Len(stack)
    <3>1. d \in Nat /\ d # 0 /\ d # 1 /\ Depth = d
      BY <2>1, <2>2 DEF Depth
    <3> HIDE DEF d
    <3>2. d - 1 \in 1 .. d - 1 /\ d - (d - 1) = 1
      BY <3>1
    <3>3. Depth - 1 \in 1 .. Len(stack) - 1 /\ Len(stack) - (Depth - 1) = 1
      BY <3>1, <3>2 DEF d
    <3>4. QED
      BY <1>1, <3>3, AbortSubsIs, Zenon DEF StackInv, CommandIdsNest, Depth
  <2>4. Len(s) = 1 /\ s[1] = stack[1]
    BY <1>1, <2>1, BottomIs DEF Depth
  <2>5. AbortTransaction(s)
    BY <1>2, <2>3, Zenon DEF AbortTransactionBlock
  <2> HIDE DEF s
  <2>6. QED
    BY <1>1, <2>4, <2>5, AbortStep
<1>3. CASE CurrentState.block # "kSubInProgress"
  <2>1. AbortTransaction(stack)
    BY <1>3 DEF AbortTransactionBlock
  <2>2. Depth = 1
    BY <1>1, <1>3, OneLevel DEF StackInv
  <2>3. QED
    BY <1>1, <2>1, <2>2, AbortStep DEF Depth
<1>4. QED
  BY <1>2, <1>3

(* PREPARE TRANSACTION refused.                                            *)
LEMMA PrepareFailsStep ==
  ASSUME XactInv, NEW g \in Gids, PrepareFails(g)
  PROVE  /\ XactInv' /\ stack' # <<>> /\ stack'[1].block = stack[1].block
<1> USE DEF XactInv
<1>1. /\ stack # <<>> /\ pc' = "error" /\ stack \in Seq(Levels)
      /\ UNCHANGED <<clog, curcid, gids, catalog, writes>>
  BY DEF Started, PrepareFails, TypeOK
<1>2. CASE UNCHANGED <<stack, nextXid, pgxact>>
  BY <1>1, <1>2, QuietStep DEF others, Started
<1>3. CASE /\ Depth = 1 /\ stack' = AssignXid(stack) /\ stack'[1].xid <= MaxXid
           /\ pgxact' = stack'[1].xid
           /\ nextXid' = IF stack'[1].xid = nextXid THEN nextXid + 1 ELSE nextXid
  <2>1. nextXid \in Int /\ nextXid >= 3 /\ TopXid = stack[1].xid /\ TopXid < nextXid
    BY <1>1, BoundsAssumption DEF TypeOK, TopXid, InBlock, XidInv, XidsAssigned
  <2>2. /\ stack' \in Seq(Levels) /\ Len(stack') = 1
        /\ stack'[1].xid = IF stack[1].xid = 0 THEN nextXid ELSE stack[1].xid
        /\ \A i \in 1 .. 1 :
             /\ stack'[i].cid = stack[i].cid /\ stack'[i].block = stack[i].block
             /\ stack'[i].before = stack[i].before
    BY <1>1, <1>3, <2>1, AssignXidIs DEF XidInv, Depth
  <2>3. Depth' = 1 /\ stack' # <<>> /\ 1 \in 1 .. 1 /\ stack[1].xid \in Int
    BY <1>1, <1>3, <2>2, EmptyStack, LevelTypes DEF Depth, MaybeXid, Xids
  <2>4. nextXid' = IF stack[1].xid # 0 THEN nextXid ELSE nextXid + 1
    BY <1>3, <2>1, <2>2, <2>3
  <2>5. XidInv' /\ nextXid' \in 3 .. MaxXid + 1 /\ pgxact' \in MaybeXid
    BY <1>1, <1>3, <2>3, <2>4, AssignedXid
  <2>6. StackInv' /\ WriteInv'
    BY <1>1, <1>3, <2>2, <2>3, SameLevels
  <2>7. CatalogInStep'
    BY <1>1, <2>3, SameCatalog
  <2>8. TypeOK'
    BY <1>1, <2>2, <2>5, BoundsAssumption DEF TypeOK, catalog
  <2>9. QED
    BY <1>1, <2>2, <2>3, <2>5, <2>6, <2>7, <2>8 DEF Started
<1>4. QED
  BY <1>2, <1>3 DEF PrepareFails

(* PREPARE TRANSACTION: the GID takes the XID over.                        *)
LEMMA PrepareStep ==
  ASSUME XactInv, NEW g \in Gids, PrepareTransactionBlock(g)
  PROVE  XactInv' /\ gids'[g] # gids[g]
<1> USE DEF XactInv
<1> DEFINE x == AssignXid(stack)[1].xid
<1>1. /\ stack # <<>> /\ pc' = "done" /\ stack \in Seq(Levels) /\ nextXid \in Int
      /\ nextXid >= 3 /\ nextXid <= MaxXid + 1 /\ MaxXid \in Int
  BY BoundsAssumption DEF Started, PrepareTransactionBlock, TypeOK
<1>2. /\ Depth = 1 /\ gids[g] = 0 /\ x <= MaxXid
      /\ nextXid' = IF x = nextXid THEN nextXid + 1 ELSE nextXid
      /\ gids' = [gids EXCEPT ![g] = x] /\ pgxact' = 0 /\ curcid' = -1
      /\ CommitDirty /\ undo' = {} /\ writes' = {} /\ UNCHANGED <<clog, live>>
  BY DEF PrepareTransactionBlock
<1>3. stack' = <<>>
  BY <1>2, PoppedOfOne DEF PrepareTransactionBlock, PopState, Depth
<1>4. /\ x = IF stack[1].xid = 0 THEN nextXid ELSE stack[1].xid
      /\ x \in Xids
  BY <1>1, <1>2, AssignXidIs DEF XidInv, Depth
<1> HIDE DEF x
<1>5. /\ TopXid = stack[1].xid /\ TopXid' = 0 /\ Depth' = 0 /\ x \in Int /\ x >= 3
      /\ TopXid < nextXid /\ TopXid \in Int
  <2>1. 1 \in 1 .. Len(stack)
    BY <1>2 DEF Depth
  <2>2. stack[1].xid \in MaybeXid
    BY <1>1, <2>1, LevelTypes
  <2>3. QED
    BY <1>1, <1>3, <1>4, <2>2
       DEF TopXid, InBlock, Depth, Xids, MaybeXid, XidInv, XidsAssigned
<1>6. /\ clog[x] = "kInProgress" /\ \A h \in Gids : gids[h] # x
      /\ \A h \in Gids : gids[h] \in Int /\ gids[h] < nextXid
      /\ x < nextXid' /\ nextXid' \in 3 .. MaxXid + 1
      /\ \A y \in 3 .. nextXid' - 1 : y # x => y \in 3 .. nextXid - 1 /\ y # TopXid
  <2>0. \A h \in Gids : gids[h] \in Int /\ gids[h] < nextXid
    BY DEF TypeOK, MaybeXid, Xids, XidInv, XidsAssigned
  <2>1. CASE TopXid = 0
    <3>1. x = nextXid /\ nextXid' = nextXid + 1
      BY <1>2, <1>4, <1>5, <2>1
    <3>2. clog[x] = "kInProgress"
      BY <1>1, <1>4, <3>1 DEF XidInv, XidsAssigned
    <3>3. QED
      BY <1>1, <1>2, <1>5, <2>0, <2>1, <3>1, <3>2
  <2>2. CASE TopXid # 0
    <3>1. x = TopXid /\ nextXid' = nextXid
      BY <1>1, <1>2, <1>4, <1>5, <2>2
    <3>2. clog[x] = "kInProgress" /\ \A h \in Gids : gids[h] # x
      BY <1>5, <2>2, <3>1 DEF XidInv, PublishedInStep, NoOrphanedXid
    <3>3. QED
      BY <1>1, <1>5, <2>0, <3>1, <3>2
  <2>3. QED
    BY <2>1, <2>2
<1>7. \A h \in Gids : gids'[h] = IF h = g THEN x ELSE gids[h]
  BY <1>2 DEF TypeOK
<1>8. XidInv'
  <2>1. XidsAssigned'
    <3>1. nextXid' >= nextXid
      BY <1>1, <1>2
    <3>2. \A y \in Xids : y >= nextXid' => clog[y] = "kInProgress"
      BY <1>1, <1>6, <3>1 DEF XidInv, XidsAssigned, Xids
    <3>3. \A h \in Gids : gids'[h] < nextXid'
      BY <1>1, <1>5, <1>6, <1>7, <3>1
    <3>4. QED
      BY <1>2, <1>5, <1>6, <3>2, <3>3 DEF XidsAssigned
  <2>2. PublishedInStep'
    BY <1>2, <1>5 DEF PublishedInStep
  <2>3. ASSUME NEW y \in 3 .. nextXid' - 1
        PROVE  clog[y] = "kInProgress" <=> \E h \in Gids : gids'[h] = y
    <3>1. CASE y = x
      BY <1>6, <1>7, <3>1
    <3>2. CASE y # x
      <4>0. y \in 3 .. nextXid - 1 /\ y # TopXid
        BY <1>6, <3>2, Zenon
      <4>1. y \in 3 .. nextXid - 1 /\ y # TopXid /\ y # 0
        BY <1>1, <4>0
      <4>2. clog[y] = "kInProgress" <=> \E h \in Gids : gids[h] = y
        BY <4>1 DEF XidInv, NoOrphanedXid
      <4>3. QED
        BY <1>2, <1>7, <3>2, <4>1, <4>2
    <3>3. QED
      BY <3>1, <3>2
  <2>4. NoOrphanedXid'
    <3>1. \A y \in 3 .. nextXid' - 1 : y # 0
      BY <1>6
    <3>2. \A h, f \in Gids : gids'[h] # 0 => gids'[h] # 0 /\ (h # f => gids'[h] # gids'[f])
      BY <1>2, <1>5, <1>6, <1>7 DEF XidInv, NoOrphanedXid
    <3>3. QED
      BY <1>2, <1>5, <2>3, <3>1, <3>2 DEF NoOrphanedXid
  <2>5. QED
    BY <2>1, <2>2, <2>4 DEF XidInv
<1>9. CatalogInStep' /\ file' \in SUBSET Tables /\ dirty' \in BOOLEAN
  BY <1>1, <1>2, <1>3, Zenon DEF CommitDirty, CatalogInStep, InBlock, TypeOK
<1>10. TypeOK'
  <2>1. gids' \in [Gids -> MaybeXid]
    BY <1>2, <1>4 DEF TypeOK, MaybeXid
  <2>2. QED
    BY <1>1, <1>2, <1>3, <1>6, <1>9, <2>1, EmptySeq, BoundsAssumption, SMTT(20) DEF TypeOK, MaybeXid
<1>11. QED
  BY <1>1, <1>2, <1>3, <1>5, <1>7, <1>8, <1>9, <1>10, NoLevels DEF Started

(* COMMIT PREPARED and ROLLBACK PREPARED.                                  *)
LEMMA FinishPreparedStep ==
  ASSUME XactInv, NEW g \in Gids, NEW status \in {"kCommitted", "kAborted"},
         FinishPrepared(g, status)
  PROVE  XactInv'
<1> USE DEF XactInv
<1>1. stack # <<>> /\ UNCHANGED <<stack, nextXid, pgxact, curcid, catalog, writes>>
  BY DEF Started, FinishPrepared
<1>2. CASE gids[g] = 0
  BY <1>1, <1>2, QuietStep DEF FinishPrepared, others, Started
<1>3. CASE gids[g] # 0
  <2> DEFINE x == gids[g]
  <2>1. /\ pc' = "done" /\ clog' = [clog EXCEPT ![x] = status]
        /\ gids' = [gids EXCEPT ![g] = 0] /\ x \in Xids /\ x \in Int
    BY <1>3 DEF FinishPrepared, SetXidStatus, TypeOK, MaybeXid, Xids
  <2>2. /\ \A h \in Gids : gids'[h] = IF h = g THEN 0 ELSE gids[h]
        /\ \A y \in Xids : clog'[y] = IF y = x THEN status ELSE clog[y]
    BY <2>1 DEF TypeOK
  <2>3. x # TopXid /\ x < nextXid /\ \A h \in Gids : h # g => gids[h] # x
    BY <1>3 DEF XidInv, NoOrphanedXid, XidsAssigned
  <2>4. nextXid \in Int /\ nextXid >= 3 /\ nextXid <= MaxXid + 1 /\ MaxXid \in Int
    BY BoundsAssumption DEF TypeOK
  <2>5. TopXid' = TopXid /\ Depth' = Depth
    BY <1>1 DEF TopXid, InBlock, Depth
  <2> HIDE DEF x
  <2>6. XidsAssigned'
    <3>1. \A y \in Xids : y >= nextXid => y # x
      BY <2>1, <2>3, <2>4 DEF Xids
    <3>2. QED
      BY <1>1, <2>2, <2>4, <2>5, <3>1 DEF XidInv, XidsAssigned
  <2>7. PublishedInStep'
    <3>1. TopXid # 0 => TopXid \in Xids
      <4>1. 1 \in 1 .. Len(stack)
        BY <1>1, EmptyStack DEF TypeOK
      <4>2. QED
        BY <4>1, LevelTypes DEF TypeOK, TopXid, InBlock, MaybeXid
    <3>2. QED
      BY <1>1, <2>2, <2>3, <2>5, <3>1 DEF XidInv, PublishedInStep
  <2>8. NoOrphanedXid'
    <3>1. ASSUME NEW y \in 3 .. nextXid - 1
          PROVE  clog'[y] = "kInProgress" <=> y = TopXid \/ \E h \in Gids : gids'[h] = y
      <4>1. y \in Xids /\ y # 0
        BY <2>4 DEF Xids
      <4>2. clog[y] = "kInProgress" <=> y = TopXid \/ \E h \in Gids : gids[h] = y
        BY DEF XidInv, NoOrphanedXid
      <4>3. CASE y = x
        BY <2>2, <2>3, <4>1, <4>3
      <4>4. CASE y # x
        BY <2>2, <4>1, <4>2, <4>4 DEF x
      <4>5. QED
        BY <4>3, <4>4
    <3>2. \A h, f \in Gids : gids'[h] # 0 => gids'[h] # TopXid /\ (h # f => gids'[h] # gids'[f])
      BY <2>2 DEF XidInv, NoOrphanedXid
    <3>3. QED
      BY <1>1, <2>5, <3>1, <3>2 DEF NoOrphanedXid
  <2>9. TypeOK'
    <3>1. gids' \in [Gids -> MaybeXid]
      BY <2>1 DEF TypeOK, MaybeXid
    <3>2. clog' \in [Xids -> {"kInProgress", "kCommitted", "kAborted"}]
      BY <2>1 DEF TypeOK
    <3>3. QED
      BY <1>1, <2>1, <3>1, <3>2 DEF TypeOK, catalog
  <2>10. StackInv' /\ WriteInv'
    BY <1>1, <2>5, SameLevels
  <2>11. CatalogInStep'
    BY <1>1, SameCatalog
  <2>12. QED
    BY <1>1, <2>6, <2>7, <2>8, <2>9, <2>10, <2>11 DEF XidInv, Started
<1>4. QED
  BY <1>2, <1>3

-----------------------------------------------------------------------------
(***************************************************************************)
(* Savepoints                                                              *)
(***************************************************************************)

(* What a step that only moves levels owes.                                *)
LEMMA LevelsStep ==
  ASSUME XactInv, stack # <<>>, stack' \in Seq(Levels), Depth' \in 1 .. MaxDepth,
         stack'[1].xid = stack[1].xid,
         \A i \in 1 .. Depth' : stack'[i].xid \in {stack[1].xid, 0},
         StackInv', WriteInv', writes' \in SUBSET [cid : CommandIds, level : 1 .. MaxDepth],
         pc' \in {"done", "idle"}, UNCHANGED <<nextXid, clog, pgxact, curcid, gids, catalog>>
  PROVE  XactInv' /\ stack' # <<>>
<1> USE DEF XactInv
<1>1. stack' # <<>>
  BY EmptyStack DEF Depth
<1>2. TypeOK'
  BY BoundsAssumption DEF TypeOK, catalog, Depth
<1>3. XidInv'
  BY <1>1, SameXid
<1>4. CatalogInStep'
  BY <1>1, SameCatalog
<1>5. QED
  BY <1>1, <1>2, <1>3, <1>4 DEF Started

LEMMA LevelFacts ==
  ASSUME XactInv, stack # <<>>
  PROVE  /\ stack \in Seq(Levels) /\ Depth = Len(stack) /\ Depth \in Nat /\ Depth >= 1
         /\ Depth <= MaxDepth /\ MaxDepth \in Nat
         /\ \A i \in 1 .. Depth : /\ stack[i] \in Levels
                                   /\ stack[i].cid \in Int /\ stack[i].before \in Int
                                   /\ stack[i].xid \in {stack[1].xid, 0}
                                   /\ stack[i].cid \in CommandIds
         /\ \A w \in writes : w.level \in 1 .. Depth /\ w.cid \in Int
                               /\ w.cid <= stack[w.level].cid
<1> USE DEF XactInv
<1>1. stack \in Seq(Levels) /\ Depth = Len(stack) /\ Depth \in Nat /\ Depth # 0
  BY EmptyStack DEF TypeOK, Depth
<1>2. \A i \in 1 .. Depth : stack[i] \in Levels /\ stack[i].cid \in CommandIds
                             /\ stack[i].before \in CommandIds
  BY <1>1, LevelTypes
<1>3. \A i \in 1 .. Depth : stack[i].xid \in {stack[1].xid, 0}
  BY DEF XidInv, PublishedInStep, TopXid, InBlock
<1>4. \A w \in writes : w.level \in 1 .. Depth /\ w.cid \in Int
                        /\ w.cid <= stack[w.level].cid
  BY DEF WriteInv, WritesNest, TypeOK, CommandIds
<1>5. Depth <= MaxDepth /\ MaxDepth \in Nat /\ Depth >= 1
  BY <1>1, BoundsAssumption DEF TypeOK
<1>6. QED
  BY <1>1, <1>2, <1>3, <1>4, <1>5 DEF CommandIds

(* The levels above the k-th go, with what they wrote.                     *)
LEMMA DropLevels ==
  ASSUME XactInv, stack # <<>>, NEW k \in 1 .. Depth,
         stack' = SubSeq(stack, 1, k), writes' = {w \in writes : w.level <= k},
         pc' \in {"done", "idle"}, UNCHANGED <<nextXid, clog, pgxact, curcid, gids, catalog>>
  PROVE  XactInv' /\ stack' # <<>> /\ stack'[1] = stack[1]
<1>1. /\ stack \in Seq(Levels) /\ Depth = Len(stack) /\ Depth \in Nat /\ k \in Nat /\ k >= 1
      /\ k <= MaxDepth /\ MaxDepth \in Nat /\ k \in 0 .. Len(stack)
      /\ \A i \in 1 .. k : i \in 1 .. Depth
  BY LevelFacts
<1>2. stack' \in Seq(Levels) /\ Len(stack') = k /\ \A i \in 1 .. k : stack'[i] = stack[i]
  BY <1>1, BottomIs
<1>3. Depth' = k /\ Depth' \in 1 .. MaxDepth /\ stack'[1] = stack[1]
  BY <1>1, <1>2 DEF Depth
<1>4. StackInv'
  <2>1. StackShape' /\ CidsGrow'
    BY <1>1, <1>2, <1>3 DEF XactInv, StackInv, StackShape, CidsGrow
  <2>2. ASSUME NEW i \in 2 .. k
        PROVE  stack'[i].before = stack'[i-1].cid /\ stack'[i].cid >= stack'[i].before
    <3>1. i \in 1 .. k /\ i - 1 \in 1 .. k /\ i \in 2 .. Depth
      BY <1>1
    <3>2. QED
      BY <1>2, <3>1 DEF XactInv, StackInv, CommandIdsNest
  <2>3. QED
    BY <1>3, <2>1, <2>2 DEF StackInv, CommandIdsNest
<1>5. WriteInv'
  <2>1. ASSUME NEW w \in writes'
        PROVE  w.level \in 1 .. k /\ w.cid <= stack'[w.level].cid
    <3>1. w \in writes /\ w.level <= k /\ w.level \in 1 .. Depth /\ w.cid <= stack[w.level].cid
      BY LevelFacts
    <3>2. w.level \in 1 .. k
      BY <1>1, <3>1
    <3>3. QED
      BY <1>2, <3>1, <3>2
  <2>2. OwnWritesVisible'
    BY DEF XactInv, WriteInv, OwnWritesVisible
  <2>3. QED
    BY <1>3, <2>1, <2>2 DEF WriteInv, WritesNest
<1>6. writes' \in SUBSET [cid : CommandIds, level : 1 .. MaxDepth]
  BY DEF XactInv, TypeOK
<1>7. \A i \in 1 .. Depth' : stack'[i].xid \in {stack[1].xid, 0}
  BY <1>1, <1>2, <1>3, LevelFacts
<1>8. QED
  BY <1>2, <1>3, <1>4, <1>5, <1>6, <1>7, LevelsStep

(* A savepoint comes on top of the k-th level.                             *)
LEMMA AddLevel ==
  ASSUME XactInv, stack # <<>>, NEW k \in 1 .. Depth, k < MaxDepth, NEW name \in Names,
         stack' = Append(SubSeq(stack, 1, k), Sub(stack[k], name)),
         writes' = {w \in writes : w.level <= k},
         pc' \in {"done", "idle"}, UNCHANGED <<nextXid, clog, pgxact, curcid, gids, catalog>>
  PROVE  XactInv' /\ stack' # <<>> /\ stack'[1] = stack[1]
<1> DEFINE b == SubSeq(stack, 1, k)
           e == Sub(stack[k], name)
<1>1. /\ stack \in Seq(Levels) /\ Depth = Len(stack) /\ Depth \in Nat /\ k \in Nat /\ k >= 1
      /\ k + 1 <= MaxDepth /\ MaxDepth \in Nat /\ k \in 0 .. Len(stack)
      /\ \A i \in 1 .. k : i \in 1 .. Depth
  BY LevelFacts
<1>2. b \in Seq(Levels) /\ Len(b) = k /\ \A i \in 1 .. k : b[i] = stack[i]
  BY <1>1, BottomIs
<1>3. /\ e \in Levels /\ e.block = "kSubInProgress" /\ e.xid = stack[k].xid
      /\ e.cid = stack[k].cid /\ e.before = stack[k].cid
  <2>1. /\ stack[k].xid \in MaybeXid /\ stack[k].cid \in CommandIds
    BY <1>1, LevelTypes, Zenon
  <2>2. QED
    BY <2>1 DEF Sub, Levels, TBlockState
<1> HIDE DEF e
<1>4. stack' \in Seq(Levels) /\ Len(stack') = k + 1 /\ stack'[k + 1] = e
      /\ \A i \in 1 .. k : stack'[i] = stack[i]
  <2> HIDE DEF b
  <2>1. stack' = Append(b, e)
    BY DEF b, e
  <2>2. /\ Append(b, e) \in Seq(Levels) /\ Len(Append(b, e)) = Len(b) + 1
        /\ \A i \in 1 .. Len(b) : Append(b, e)[i] = b[i]
        /\ Append(b, e)[Len(b) + 1] = e
    BY <1>2, <1>3, WithLevel
  <2>3. QED
    BY <1>2, <2>1, <2>2
<1> HIDE DEF b
<1>5. /\ Depth' = k + 1 /\ Depth' \in 1 .. MaxDepth /\ stack'[1] = stack[1]
      /\ \A i \in 1 .. k + 1 : i = k + 1 \/ i \in 1 .. k
  BY <1>1, <1>4 DEF Depth
<1>6. /\ stack[k].cid \in Int
      /\ \A i \in 1 .. k : stack[i].cid \in Int /\ stack[i].cid <= stack[k].cid
  BY <1>1, LevelFacts DEF XactInv, StackInv, CidsGrow
<1>7. StackInv'
  <2>1. StackShape'
    BY <1>1, <1>3, <1>4, <1>5 DEF XactInv, StackInv, StackShape
  <2>2. ASSUME NEW i \in 2 .. k + 1
        PROVE  stack'[i].before = stack'[i-1].cid /\ stack'[i].cid >= stack'[i].before
    <3>1. CASE i = k + 1
      <4>1. i - 1 = k /\ k \in 1 .. k
        BY <1>1, <3>1
      <4>2. QED
        BY <1>3, <1>4, <1>6, <3>1, <4>1
    <3>2. CASE i # k + 1
      <4>1. i \in 1 .. k /\ i - 1 \in 1 .. k /\ i \in 2 .. Depth
        BY <1>1, <3>2
      <4>2. QED
        BY <1>4, <4>1 DEF XactInv, StackInv, CommandIdsNest
    <3>3. QED
      BY <3>1, <3>2
  <2>3. ASSUME NEW i \in 1 .. k + 1, NEW j \in 1 .. k + 1, i <= j
        PROVE  stack'[i].cid <= stack'[j].cid
    <3>1. CASE j = k + 1
      BY <1>3, <1>4, <1>5, <1>6, <3>1
    <3>2. CASE j # k + 1
      <4>1. i \in 1 .. k /\ j \in 1 .. k
        BY <1>1, <2>3, <3>2
      <4>2. QED
        BY <1>1, <1>4, <2>3, <4>1 DEF XactInv, StackInv, CidsGrow
    <3>3. QED
      BY <3>1, <3>2
  <2>4. QED
    BY <1>5, <2>1, <2>2, <2>3 DEF StackInv, CommandIdsNest, CidsGrow
<1>8. WriteInv'
  <2>1. ASSUME NEW w \in writes'
        PROVE  w.level \in 1 .. k + 1 /\ w.cid <= stack'[w.level].cid
    <3>1. w \in writes /\ w.level <= k /\ w.level \in 1 .. Depth /\ w.cid <= stack[w.level].cid
      BY LevelFacts
    <3>2. w.level \in 1 .. k /\ w.level \in 1 .. k + 1
      BY <1>1, <3>1
    <3>3. QED
      BY <1>4, <3>1, <3>2
  <2>2. OwnWritesVisible'
    BY DEF XactInv, WriteInv, OwnWritesVisible
  <2>3. QED
    BY <1>5, <2>1, <2>2 DEF WriteInv, WritesNest
<1>9. writes' \in SUBSET [cid : CommandIds, level : 1 .. MaxDepth]
  BY DEF XactInv, TypeOK
<1>10. \A i \in 1 .. Depth' : stack'[i].xid \in {stack[1].xid, 0}
  BY <1>1, <1>3, <1>4, <1>5, LevelFacts
<1>11. QED
  BY <1>4, <1>5, <1>7, <1>8, <1>9, <1>10, LevelsStep

LEMMA SavepointStep ==
  ASSUME XactInv, NEW name \in Names, BeginSavepoint(name)
  PROVE  XactInv' /\ stack' # <<>> /\ stack'[1] = stack[1]
<1>1. stack # <<>> /\ pc' = "done" /\ Depth < MaxDepth
  BY DEF XactInv, Started, BeginSavepoint
<1>2. stack \in Seq(Levels) /\ Depth = Len(stack) /\ Depth \in 1 .. Depth
  BY <1>1, LevelFacts
<1>3. SubSeq(stack, 1, Depth) = stack
  BY <1>2, SubSeqFull
<1>4. {w \in writes : w.level <= Depth} = writes
  <2>1. \A w \in writes : w.level \in 1 .. Depth
    BY <1>1, LevelFacts
  <2>2. QED
    BY <1>2, <2>1
<1>5. stack' = Append(SubSeq(stack, 1, Depth), Sub(stack[Depth], name))
  BY <1>2, <1>3 DEF BeginSavepoint, StartSubTransaction, Last
<1>6. writes' = {w \in writes : w.level <= Depth}
  BY <1>4 DEF BeginSavepoint
<1>7. UNCHANGED <<nextXid, clog, pgxact, curcid, gids, catalog>>
  BY DEF BeginSavepoint
<1>8. QED
  BY <1>1, <1>2, <1>5, <1>6, <1>7, AddLevel

LEMMA RollbackToStep ==
  ASSUME XactInv, NEW name \in Names, RollbackToSavepoint(name)
  PROVE  XactInv' /\ stack' # <<>> /\ stack'[1] = stack[1]
<1>1. stack # <<>> /\ pc' = "done"
  BY DEF XactInv, Started, RollbackToSavepoint
<1>2. stack \in Seq(Levels) /\ Depth = Len(stack) /\ Depth \in Nat /\ Depth <= MaxDepth
      /\ MaxDepth \in Nat
  BY <1>1, LevelFacts
<1>3. PICK t \in 2 .. Depth :
        /\ stack' = StartSubTransaction(AbortSubTransactions(stack, Depth - t + 1), name)
        /\ writes' = {w \in writes : w.level < t}
  BY DEF RollbackToSavepoint
<1>4. UNCHANGED <<nextXid, clog, pgxact, curcid, gids, catalog>>
  BY DEF RollbackToSavepoint
<1> DEFINE k == t - 1
<1>5. /\ k \in 1 .. Depth /\ k < MaxDepth /\ k \in 0 .. Len(stack) /\ k \in 1 .. k
      /\ Depth - t + 1 \in 1 .. Len(stack) - 1
      /\ Len(stack) - (Depth - t + 1) = k
  BY <1>2, <1>3
<1>6. AbortSubTransactions(stack, Depth - t + 1) = SubSeq(stack, 1, k)
  BY <1>2, <1>5, AbortSubsIs, Zenon DEF XactInv, StackInv, CommandIdsNest
<1>7. Last(SubSeq(stack, 1, k)) = stack[k]
  BY <1>2, <1>5, BottomIs DEF Last
<1>8. stack' = Append(SubSeq(stack, 1, k), Sub(stack[k], name))
  BY <1>3, <1>6, <1>7, Zenon DEF StartSubTransaction
<1>9. writes' = {w \in writes : w.level <= k}
  <2>1. \A w \in writes : w.level \in 1 .. Depth
    BY <1>1, LevelFacts
  <2>2. \A w \in writes : w.level < t <=> w.level <= k
    BY <1>2, <2>1
  <2>3. QED
    BY <1>3, <2>2
<1> HIDE DEF k
<1>10. QED
  BY <1>1, <1>4, <1>5, <1>8, <1>9, AddLevel, Zenon

(* RELEASE hands counter and rows of the released levels to the level      *)
(* below them.                                                             *)
LEMMA ReleaseStep ==
  ASSUME XactInv, NEW name \in Names, ReleaseSavepoint(name)
  PROVE  XactInv' /\ stack' # <<>> /\ stack'[1].block = stack[1].block
<1>1. stack # <<>> /\ pc' = "done"
  BY DEF XactInv, Started, ReleaseSavepoint
<1>2. stack \in Seq(Levels) /\ Depth = Len(stack) /\ Depth \in Nat /\ Depth <= MaxDepth
      /\ MaxDepth \in Nat
  BY <1>1, LevelFacts
<1>3. PICK t \in 2 .. Depth :
        /\ stack' = CommitSubTransactions(stack, Depth - t + 1)
        /\ writes' = {[w EXCEPT !.level = IF @ >= t THEN t - 1 ELSE @] : w \in writes}
  BY DEF ReleaseSavepoint
<1> DEFINE k == t - 1
           b == SubSeq(stack, 1, k)
           c == stack[Depth].cid
           down(w) == [w EXCEPT !.level = IF @ >= t THEN k ELSE @]
<1>4. /\ stack' = CommitSubTransactions(stack, Depth - t + 1)
      /\ writes' = {down(w) : w \in writes}
      /\ UNCHANGED <<nextXid, clog, pgxact, curcid, gids, catalog>>
  BY <1>3 DEF ReleaseSavepoint
<1>5. /\ k \in 1 .. Depth /\ k < Depth /\ k \in 0 .. Len(stack) /\ k \in 1 .. k /\ k \in Nat
      /\ Len(stack) - (Depth - t + 1) = k /\ k + 1 = t /\ k <= MaxDepth /\ Depth \in 1 .. Depth
      /\ \A i \in 1 .. k : i \in 1 .. Depth
  BY <1>2, <1>3
<1>6. stack' = [b EXCEPT ![k].cid = c]
  BY <1>2, <1>4, <1>5, Zenon DEF CommitSubTransactions, Last
<1> HIDE DEF k
<1>7. b \in Seq(Levels) /\ Len(b) = k /\ \A i \in 1 .. k : b[i] = stack[i]
  BY <1>2, <1>5, BottomIs, Zenon
<1>8. c \in CommandIds /\ c \in Int
  BY <1>1, <1>5, LevelFacts
<1>9. \A i \in 1 .. Depth : stack[i].cid \in Int /\ stack[i].before \in Int /\ stack[i].cid <= c
  BY <1>1, <1>2, <1>5, LevelFacts DEF XactInv, StackInv, CidsGrow
<1> HIDE DEF b, c
<1>10. /\ stack' \in Seq(Levels) /\ Len(stack') = k
       /\ \A i \in 1 .. k :
            /\ stack'[i].cid = IF i = k THEN c ELSE stack[i].cid
            /\ stack'[i].xid = stack[i].xid /\ stack'[i].block = stack[i].block
            /\ stack'[i].before = stack[i].before
  <2>1. k \in 1 .. Len(b)
    BY <1>5, <1>7
  <2>2. /\ stack' \in Seq(Levels) /\ Len(stack') = Len(b)
        /\ \A i \in 1 .. Len(b) :
             /\ stack'[i].cid = IF i = k THEN c ELSE b[i].cid
             /\ stack'[i].xid = b[i].xid /\ stack'[i].block = b[i].block
             /\ stack'[i].before = b[i].before
    BY <1>6, <1>7, <1>8, <2>1, WithCidIs
  <2>3. QED
    BY <1>7, <2>2
<1>11. Depth' = k /\ Depth' \in 1 .. MaxDepth /\ 1 \in 1 .. k
  BY <1>2, <1>5, <1>10 DEF Depth
<1>12. StackInv'
  <2>1. StackShape'
    BY <1>5, <1>10, <1>11 DEF XactInv, StackInv, StackShape
  <2>2. ASSUME NEW i \in 2 .. k
        PROVE  stack'[i].before = stack'[i-1].cid /\ stack'[i].cid >= stack'[i].before
    <3>1. i \in 1 .. k /\ i - 1 \in 1 .. k /\ i - 1 # k /\ i \in 2 .. Depth /\ i \in 1 .. Depth
      BY <1>2, <1>5
    <3>2. stack[i].before = stack[i-1].cid /\ stack[i].cid >= stack[i].before
      BY <3>1 DEF XactInv, StackInv, CommandIdsNest
    <3>3. stack[i].cid \in Int /\ stack[i].before \in Int /\ stack[i].cid <= c
      BY <1>9, <3>1
    <3>4. QED
      BY <1>8, <1>10, <3>1, <3>2, <3>3
  <2>3. ASSUME NEW i \in 1 .. k, NEW j \in 1 .. k, i <= j
        PROVE  stack'[i].cid <= stack'[j].cid
    <3>1. CASE j = k
      <4>1. stack'[j].cid = c /\ stack'[i].cid = IF i = k THEN c ELSE stack[i].cid
        BY <1>10, <3>1
      <4>2. i \in 1 .. Depth
        BY <1>2, <1>5
      <4>3. stack[i].cid <= c
        BY <1>9, <4>2
      <4>4. QED
        BY <1>8, <4>1, <4>3
    <3>2. CASE j # k
      <4>1. i # k
        BY <1>5, <2>3, <3>2
      <4>2. stack[i].cid <= stack[j].cid
        BY <1>5, <2>3 DEF XactInv, StackInv, CidsGrow
      <4>3. QED
        BY <1>10, <3>2, <4>1, <4>2
    <3>3. QED
      BY <3>1, <3>2
  <2>4. QED
    BY <1>11, <2>1, <2>2, <2>3 DEF StackInv, CommandIdsNest, CidsGrow
<1>13. ASSUME NEW w \in writes
       PROVE  /\ down(w) \in [cid : CommandIds, level : 1 .. MaxDepth]
              /\ down(w).level \in 1 .. k /\ down(w).cid = w.cid
              /\ down(w).cid <= stack'[down(w).level].cid
  <2>1. /\ w \in [cid : CommandIds, level : 1 .. MaxDepth] /\ w.level \in 1 .. Depth
        /\ w.cid \in Int /\ w.cid <= stack[w.level].cid
    BY <1>1, LevelFacts DEF XactInv, TypeOK
  <2>2. /\ down(w) = [cid |-> w.cid, level |-> IF w.level >= t THEN k ELSE w.level]
    BY <2>1
  <2>3. CASE w.level >= t
    <3>1. w.cid <= c
      BY <1>8, <1>9, <2>1
    <3>2. down(w) = [cid |-> w.cid, level |-> k] /\ stack'[k].cid = c
      BY <1>5, <1>10, <2>2, <2>3, Zenon
    <3>3. k \in 1 .. MaxDepth
      BY <1>2, <1>5
    <3>4. QED
      BY <1>5, <2>1, <3>1, <3>2, <3>3, Zenon
  <2>4. CASE ~(w.level >= t)
    <3>1. down(w) = w
      BY <2>1, <2>2, <2>4
    <3>2. w.level \in 1 .. k
      BY <1>2, <1>3, <1>5, <2>1, <2>4
    <3>3. stack[w.level].cid \in Int /\ stack[w.level].cid <= stack'[w.level].cid
      BY <1>8, <1>9, <1>10, <2>1, <3>2
    <3>4. stack'[w.level].cid \in Int
      BY <1>8, <1>9, <1>10, <2>1, <3>2, SMTT(20)
    <3>5. QED
      BY <2>1, <3>1, <3>2, <3>3, <3>4
  <2>5. QED
    BY <2>3, <2>4
<1>14. WriteInv' /\ writes' \in SUBSET [cid : CommandIds, level : 1 .. MaxDepth]
  <2> HIDE DEF down
  <2>1. OwnWritesVisible'
    BY <1>4, <1>13, SMTT(20) DEF XactInv, WriteInv, OwnWritesVisible
  <2>2. QED
    BY <1>4, <1>11, <1>13, <2>1, SMTT(20) DEF WriteInv, WritesNest
<1>15. \A i \in 1 .. Depth' : stack'[i].xid \in {stack[1].xid, 0}
  BY <1>1, <1>5, <1>10, <1>11, LevelFacts, Zenon
<1>16. QED
  BY <1>1, <1>4, <1>10, <1>11, <1>12, <1>14, <1>15, LevelsStep

-----------------------------------------------------------------------------
(***************************************************************************)
(* The end of a statement                                                  *)
(***************************************************************************)
LEMMA CurrentBlock ==
  ASSUME XactInv, stack # <<>>
  PROVE  CurrentState.block \in {"kStarted", "kInProgress", "kAbortPending", "kSubInProgress"}
<1>1. Depth = Len(stack) /\ Depth \in 1 .. Depth
  BY LevelFacts
<1>2. QED
  BY <1>1 DEF XactInv, StackInv, StackShape, CurrentState, Last

LEMMA CommitCommandStep ==
  ASSUME XactInv, CommitTransactionCommand
  PROVE  XactInv' /\ (Failed => Failed')
<1>1. pc' = "idle"
  BY DEF CommitTransactionCommand
<1>2. CASE stack = <<>>
  <2>1. UNCHANGED others
    BY <1>2 DEF CommitTransactionCommand, others
  <2>2. QED
    BY <1>1, <1>2, <2>1, QuietStep DEF Started, Failed, InBlock
<1>3. CASE stack # <<>> /\ CurrentState.block = "kStarted"
  <2>1. CommitTransaction
    BY <1>3 DEF CommitTransactionCommand
  <2>2. Depth = 1 /\ CurrentState = stack[1]
    BY <1>3, OneLevel DEF XactInv, StackInv
  <2>3. QED
    BY <1>1, <1>3, <2>1, <2>2, CommitStep DEF Failed
<1>4. CASE stack # <<>> /\ CurrentState.block # "kStarted"
  <2>1. CurrentState.block \notin {"kEnd", "kAbort"}
    BY <1>4, CurrentBlock
  <2>2. /\ CommandCounterIncrement(stack)
        /\ UNCHANGED <<nextXid, clog, pgxact, gids, catalog, writes>>
    BY <1>4, <2>1 DEF CommitTransactionCommand
  <2>3. stack \in Seq(Levels) /\ Len(stack) = Depth
    BY <1>4, LevelFacts
  <2>4. /\ stack' \in Seq(Levels) /\ Depth' = Depth /\ stack' # <<>>
        /\ \A i \in 1 .. Depth : stack'[i].xid = stack[i].xid /\ stack'[i].block = stack[i].block
        /\ curcid' \in CommandIds \cup {NoSnapshot}
        /\ StackInv' /\ WriteInv'
    BY <1>4, <2>2, <2>3, CounterStep
  <2>5. TypeOK'
    BY <1>1, <2>2, <2>4 DEF XactInv, TypeOK, Depth, catalog
  <2>6. 1 \in 1 .. Depth /\ \A i \in 1 .. Depth : stack[i].xid \in {stack[1].xid, 0}
    BY <1>4, LevelFacts
  <2>7. XidInv'
    BY <1>4, <2>2, <2>4, <2>6, SameXid DEF XactInv
  <2>8. CatalogInStep'
    BY <1>4, <2>2, <2>4, SameCatalog DEF XactInv
  <2>9. Failed => Failed'
    BY <2>4, <2>6 DEF Failed, InBlock
  <2>10. QED
    BY <1>1, <2>4, <2>5, <2>7, <2>8, <2>9 DEF XactInv, Started
<1>5. QED
  BY <1>2, <1>3, <1>4

(* The error path.                                                         *)
LEMMA ErrorStep ==
  ASSUME XactInv, AbortCurrentTransaction
  PROVE  XactInv' /\ (Failed => Failed')
<1>1. pc' = "idle"
  BY DEF AbortCurrentTransaction
<1>2. CASE stack # <<>> /\ CurrentState.block = "kStarted"
  <2>1. AbortTransaction(stack)
    BY <1>2 DEF AbortCurrentTransaction
  <2>2. Depth = 1 /\ CurrentState = stack[1]
    BY <1>2, OneLevel DEF XactInv, StackInv
  <2>3. QED
    BY <1>1, <1>2, <2>1, <2>2, AbortStep DEF Failed, Depth
<1>3. CASE stack # <<>> /\ CurrentState.block = "kInProgress"
  <2>1. /\ stack' = WithBlock(stack, "kAbortPending")
        /\ UNCHANGED <<nextXid, clog, pgxact, curcid, gids, catalog, writes>>
    BY <1>3 DEF AbortCurrentTransaction
  <2>2. Depth = 1
    BY <1>3, OneLevel DEF XactInv, StackInv
  <2>3. QED
    BY <1>1, <1>3, <2>1, <2>2, BlockStep DEF Failed, InBlock
<1>4. CASE stack # <<>> /\ CurrentState.block = "kSubInProgress"
  <2>1. /\ stack' = AbortSubTransactions(stack, 1)
        /\ writes' = {w \in writes : w.level < Depth}
        /\ UNCHANGED <<nextXid, clog, pgxact, curcid, gids, catalog>>
    BY <1>4 DEF AbortCurrentTransaction
  <2>2. stack \in Seq(Levels) /\ Depth = Len(stack) /\ Depth \in Nat /\ Depth >= 1
    BY <1>4, LevelFacts
  <2>3. Depth # 1
    BY <1>4, <2>2 DEF XactInv, StackInv, StackShape, CurrentState, Last
  <2>4. 1 \in 1 .. Len(stack) - 1 /\ Len(stack) - 1 \in 1 .. Depth
    BY <2>2, <2>3
  <2>5. stack' = SubSeq(stack, 1, Len(stack) - 1)
    BY <2>1, <2>2, <2>4, AbortSubsIs DEF XactInv, StackInv, CommandIdsNest
  <2>6. writes' = {w \in writes : w.level <= Len(stack) - 1}
    <3>1. \A w \in writes : w.level \in 1 .. Depth
      BY <1>4, LevelFacts
    <3>2. \A w \in writes : w.level < Depth <=> w.level <= Len(stack) - 1
      BY <2>2, <3>1
    <3>3. QED
      BY <2>1, <3>2
  <2>7. XactInv' /\ stack' # <<>> /\ stack'[1] = stack[1]
    BY <1>1, <1>4, <2>1, <2>4, <2>5, <2>6, DropLevels
  <2>8. QED
    BY <2>7 DEF Failed, InBlock
<1>5. CASE stack = <<>> \/ CurrentState.block = "kAbortPending"
  <2>1. UNCHANGED others
    BY <1>5 DEF AbortCurrentTransaction, others
  <2>2. QED
    BY <1>1, <2>1, QuietStep DEF Started, Failed, InBlock, others
<1>6. QED
  BY <1>2, <1>3, <1>4, <1>5, CurrentBlock

-----------------------------------------------------------------------------
(***************************************************************************)
(* The theorems                                                            *)
(***************************************************************************)
LEMMA XactInit == Init => XactInv
<1> SUFFICES ASSUME Init PROVE XactInv
  OBVIOUS
<1>1. stack = <<>> /\ Depth = 0 /\ TopXid = 0 /\ ~InBlock
  BY DEF Init, Depth, TopXid, InBlock
<1>2. nextXid = 3 /\ nextXid \in 3 .. MaxXid + 1
  BY BoundsAssumption DEF Init
<1>3. TypeOK
  <2>1. pgxact \in MaybeXid /\ gids \in [Gids -> MaybeXid]
    BY DEF Init, MaybeXid
  <2>2. clog \in [Xids -> {"kInProgress", "kCommitted", "kAborted"}]
    BY DEF Init
  <2>3. stack \in Seq(Levels) /\ Len(stack) <= MaxDepth
    BY <1>1, EmptySeq, BoundsAssumption
  <2>4. QED
    BY <1>2, <2>1, <2>2, <2>3, Zenon DEF Init, TypeOK
<1>4. XidInv
  BY <1>1, <1>2 DEF Init, XidInv, XidsAssigned, PublishedInStep, NoOrphanedXid
<1>5. StackInv
  BY <1>1 DEF StackInv, StackShape, CommandIdsNest, CidsGrow
<1>6. WriteInv
  BY DEF Init, WriteInv, WritesNest, OwnWritesVisible
<1>7. CatalogInStep
  BY <1>1 DEF Init, CatalogInStep
<1>8. QED
  BY <1>3, <1>4, <1>5, <1>6, <1>7 DEF Init, XactInv, Started

(* The steps of the query loop that change nothing else.                   *)
LEMMA LoopStep ==
  ASSUME XactInv,
         \/ ParseError \/ StatementError \/ StatementDone
         \/ \E n \in Names : NoSuchSavepoint(n)
  PROVE  XactInv' /\ UNCHANGED stack
<1>1. UNCHANGED others /\ pc' \in {"done", "error"}
  BY DEF ParseError, StatementError, StatementDone, NoSuchSavepoint, others
<1>2. QED
  BY <1>1, QuietStep DEF Started, others

(* Every step keeps the invariant and, from a failed block, is one of      *)
(* FailedStep.                                                             *)
LEMMA XactStep ==
  ASSUME XactInv, [Next]_vars
  PROVE  XactInv' /\ FailedStep
<1>1. CASE UNCHANGED vars
  <2>1. UNCHANGED others /\ UNCHANGED pc
    BY <1>1 DEF vars, others, catalog
  <2>2. Started'
    BY <2>1 DEF XactInv, Started, others
  <2>3. pc' \in {"idle", "body", "run", "done", "error"}
    BY <2>1 DEF XactInv, TypeOK
  <2>4. QED
    BY <2>1, <2>2, <2>3, QuietStep DEF FailedStep, Failed, InBlock, others
<1>2. CASE StartTransactionCommand
  <2>1. XactInv'
    BY <1>2, StartStep
  <2>2. stack # <<>> => CurrentState.block # "kBegin"
    BY CurrentBlock
  <2>3. stack # <<>> => UNCHANGED stack
    BY <1>2, <2>2 DEF StartTransactionCommand
  <2>4. QED
    BY <2>1, <2>3 DEF FailedStep, Failed, InBlock
<1>3. CASE \/ ParseError \/ StatementError \/ StatementDone
           \/ \E n \in Names : NoSuchSavepoint(n)
  BY <1>3, LoopStep DEF FailedStep, Failed, InBlock
<1>4. CASE GetTransactionSnapshot
  <2>1. UNCHANGED stack
    BY <1>4 DEF GetTransactionSnapshot
  <2>2. QED
    BY <1>4, <2>1, SnapshotStep DEF FailedStep, Failed, InBlock
<1>5. CASE Write
  BY <1>5, WriteStep DEF FailedStep, Failed, InBlock
<1>6. CASE \E t \in Tables : Ddl(t)
  <2>1. PICK t \in Tables : Ddl(t)
    BY <1>6
  <2>2. UNCHANGED stack
    BY <2>1 DEF Ddl
  <2>3. QED
    BY <2>1, <2>2, DdlStep DEF FailedStep, Failed, InBlock
<1>7. CASE BeginTransactionBlock
  <2>1. XactInv'
    BY <1>7, BeginStep
  <2>2. stack # <<>>
    BY <1>7 DEF XactInv, Started, BeginTransactionBlock
  <2>3. CASE CurrentState.block = "kStarted"
    <3>1. CurrentState = stack[1]
      BY <2>2, <2>3, OneLevel DEF XactInv, StackInv
    <3>2. QED
      BY <2>1, <2>3, <3>1 DEF FailedStep, Failed
  <2>4. CASE CurrentState.block # "kStarted"
    <3>1. UNCHANGED stack
      BY <1>7, <2>2, <2>4 DEF BeginTransactionBlock
    <3>2. QED
      BY <2>1, <3>1 DEF FailedStep, Failed, InBlock
  <2>5. QED
    BY <2>3, <2>4
<1>8. CASE EndTransactionBlock
  BY <1>8, EndStep
<1>9. CASE AbortTransactionBlock
  BY <1>9, RollbackStep DEF FailedStep, InBlock
<1>10. CASE \E g \in Gids : PrepareTransactionBlock(g)
  BY <1>10, PrepareStep DEF FailedStep
<1>11. CASE \E g \in Gids : PrepareFails(g)
  BY <1>11, PrepareFailsStep DEF FailedStep, Failed, InBlock
<1>12. CASE \E g \in Gids : CommitPreparedTransaction(g) \/ RollbackPreparedTransaction(g)
  <2>1. PICK g \in Gids, status \in {"kCommitted", "kAborted"} : FinishPrepared(g, status)
    BY <1>12 DEF CommitPreparedTransaction, RollbackPreparedTransaction
  <2>2. UNCHANGED stack
    BY <2>1 DEF FinishPrepared
  <2>3. QED
    BY <2>1, <2>2, FinishPreparedStep DEF FailedStep, Failed, InBlock
<1>13. CASE \E n \in Names : BeginSavepoint(n)
  BY <1>13, SavepointStep DEF FailedStep, Failed, InBlock
<1>14. CASE \E n \in Names : ReleaseSavepoint(n)
  BY <1>14, ReleaseStep DEF FailedStep, Failed, InBlock
<1>15. CASE \E n \in Names : RollbackToSavepoint(n)
  BY <1>15, RollbackToStep DEF FailedStep, Failed, InBlock
<1>16. CASE CommitTransactionCommand
  BY <1>16, CommitCommandStep DEF FailedStep
<1>17. CASE AbortCurrentTransaction
  BY <1>17, ErrorStep DEF FailedStep
<1>18. QED
  BY <1>1, <1>2, <1>3, <1>4, <1>5, <1>6, <1>7, <1>8, <1>9, <1>10, <1>11, <1>12,
     <1>13, <1>14, <1>15, <1>16, <1>17, SMTT(20) DEF Next, TransactionStatement

(* XactInv is an invariant of every behaviour of the transaction blocks.   *)
THEOREM XactInvariant == Spec => []XactInv
<1>1. XactInv /\ [Next]_vars => XactInv'
  BY XactStep
<1>2. QED
  BY <1>1, XactInit, PTL DEF Spec

(* Stack, log, PGXACT, command counter, prepared list and catalog agree    *)
(* after every step of the loop, whatever statement comes and whichever    *)
(* fails (xact.cpp, twophase.cpp, Catalog::Commit and Rollback).           *)
THEOREM BlocksAgree == Spec => []XactRight
<1>1. XactInv => XactRight
  BY DEF XactInv, XidInv, StackInv, WriteInv, XactRight
<1>2. QED
  BY <1>1, XactInvariant, PTL

(* A block that met an error stays failed until it ends, and it ends       *)
(* aborted unless it is prepared (AbortCurrentTransaction's kAbortPending).*)
THEOREM FailedStaysFailed == Spec => FailedBlockAborts
<1>1. XactInv /\ [Next]_vars => [FailedStep]_vars
  BY XactStep
<1>2. QED
  BY <1>1, XactInvariant, PTL DEF Spec, FailedBlockAborts

-----------------------------------------------------------------------------
(***************************************************************************)
(* The steps of Xact as steps of Outcomes                                  *)
(***************************************************************************)

(* What the backend can still decide is what the log has no decision for.  *)
OpenInLog == \A x : x \in Open <=> x \in 3 .. nextXid - 1 /\ clog[x] = "kInProgress"

LEMMA OpenIs == XactInv => OpenInLog
<1> SUFFICES ASSUME XactInv PROVE OpenInLog
  OBVIOUS
<1> USE DEF XactInv, XidInv
<1>1. TopXid \in MaybeXid
  <2>1. stack # <<>> => stack[1].xid \in MaybeXid
    BY LevelTypes, EmptyStack DEF TypeOK
  <2>2. QED
    BY <2>1 DEF TopXid, InBlock, MaybeXid
<1>2. /\ nextXid \in Int /\ TopXid < nextXid
      /\ \A g \in Gids : gids[g] \in MaybeXid /\ gids[g] < nextXid
  BY BoundsAssumption DEF TypeOK, XidsAssigned
<1>3. \A x \in MaybeXid \ {0} : x < nextXid => x \in 3 .. nextXid - 1
  BY <1>2, BoundsAssumption DEF MaybeXid, Xids
<1>4. ASSUME NEW x \in Open  PROVE x \in 3 .. nextXid - 1 /\ clog[x] = "kInProgress"
  <2>1. x \in 3 .. nextXid - 1 /\ (x = TopXid \/ \E g \in Gids : gids[g] = x)
    BY <1>1, <1>2, <1>3 DEF Open
  <2>2. QED
    BY <2>1 DEF NoOrphanedXid
<1>5. ASSUME NEW x \in 3 .. nextXid - 1, clog[x] = "kInProgress"  PROVE x \in Open
  <2>1. x # 0
    BY <1>2
  <2>2. QED
    BY <1>5, <2>1 DEF NoOrphanedXid, Open
<1>6. QED
  BY <1>4, <1>5 DEF OpenInLog

LEMMA OpenIsAfter == XactInv' => OpenInLog'
BY OpenIs, PTL

(* What a step may do to the counter and the log ...                       *)
Assigned == nextXid' = nextXid + 1 /\ UNCHANGED clog
Decided  == /\ UNCHANGED nextXid
            /\ \E x \in Open, status \in {"kCommitted", "kAborted"} :
                 clog' = [clog EXCEPT ![x] = status]

(* ... is then a step of Outcomes, both ends satisfying the invariant.     *)
LEMMA OutcomeStep ==
  ASSUME XactInv, XactInv', UNCHANGED <<nextXid, clog>> \/ Assigned \/ Decided
  PROVE  [Out!Assign \/ Out!Decision]_Out!vars
<1>1. \A x : x \in Open <=> x \in 3 .. nextXid - 1 /\ clog[x] = "kInProgress"
  BY OpenIs DEF OpenInLog
<1>2. \A x : x \in Open' <=> x \in 3 .. nextXid' - 1 /\ clog'[x] = "kInProgress"
  BY OpenIsAfter DEF OpenInLog
<1>3. /\ nextXid \in Int /\ nextXid >= 3 /\ nextXid' \in Int /\ nextXid' <= MaxXid + 1
      /\ MaxXid \in Int /\ clog \in [Xids -> {"kInProgress", "kCommitted", "kAborted"}]
  BY BoundsAssumption DEF XactInv, TypeOK
<1>4. CASE UNCHANGED <<nextXid, clog>>
  <2>1. Open' = Open
    BY <1>1, <1>2, <1>4
  <2>2. QED
    BY <1>4, <2>1 DEF Out!vars
<1>5. CASE Assigned
  <2>1. nextXid \in Xids /\ clog[nextXid] = "kInProgress"
    BY <1>3, <1>5 DEF Assigned, Xids, XactInv, XidInv, XidsAssigned
  <2>2. Open' = Open \cup {nextXid}
    <3>1. \A x : x \in 3 .. nextXid' - 1 <=> x \in 3 .. nextXid - 1 \/ x = nextXid
      BY <1>3, <1>5 DEF Assigned
    <3>2. QED
      BY <1>1, <1>2, <1>5, <2>1, <3>1 DEF Assigned
  <2>3. QED
    BY <1>5, <2>1, <2>2 DEF Assigned, Out!Assign
<1>6. CASE Decided
  <2>1. PICK x \in Open, status \in {"kCommitted", "kAborted"} :
          clog' = [clog EXCEPT ![x] = status]
    BY <1>6, Zenon DEF Decided
  <2>2. nextXid' = nextXid /\ x \in 3 .. nextXid - 1 /\ clog[x] = "kInProgress"
    BY <1>1, <1>6 DEF Decided
  <2>3. \A y \in 3 .. nextXid - 1 : clog'[y] = IF y = x THEN status ELSE clog[y]
    BY <1>3, <2>1, <2>2 DEF Xids
  <2>4. Open' = Open \ {x}
    BY <1>1, <1>2, <2>2, <2>3
  <2>5. Out!Decide(x, status)
    BY <2>1, <2>2, <2>4 DEF Out!Decide
  <2>6. QED
    BY <2>5 DEF Out!Decision
<1>7. QED
  BY <1>4, <1>5, <1>6

(* A status written for a level decides the XID of the top one, or none.   *)
LEMMA LevelDecided ==
  ASSUME XactInv, NEW x \in {TopXid, 0}, NEW status \in {"kCommitted", "kAborted"},
         SetXidStatus(x, status), UNCHANGED nextXid
  PROVE  UNCHANGED <<nextXid, clog>> \/ Decided
<1>1. CASE x = 0
  BY <1>1 DEF SetXidStatus
<1>2. CASE x # 0
  <2>1. x \in Open
    BY <1>2 DEF Open
  <2>2. clog' = [clog EXCEPT ![x] = status]
    BY <1>2 DEF SetXidStatus
  <2>3. QED
    BY <2>1, <2>2, Zenon DEF Decided
<1>3. QED
  BY <1>1, <1>2

(* Every step leaves counter and log alone, assigns one XID, or decides    *)
(* one that is open.                                                       *)
LEMMA StepOutcome ==
  ASSUME XactInv, Next
  PROVE  UNCHANGED <<nextXid, clog>> \/ Assigned \/ Decided
<1> DEFINE Goal == UNCHANGED <<nextXid, clog>> \/ Assigned \/ Decided
<1>1. stack # <<>> => Depth \in 1 .. Depth /\ 1 \in 1 .. Depth
  BY EmptyStack DEF XactInv, TypeOK, Depth
<1>2. stack # <<>> => CurrentState.xid \in {TopXid, 0} /\ Last(stack).xid \in {TopXid, 0}
  BY <1>1 DEF XactInv, XidInv, PublishedInStep, CurrentState, Last, Depth
<1>3. ASSUME stack # <<>>, CommitTransaction  PROVE Goal
  <2>1. SetXidStatus(CurrentState.xid, "kCommitted") /\ UNCHANGED nextXid
    BY <1>3 DEF CommitTransaction
  <2>2. QED
    BY <1>2, <1>3, <2>1, LevelDecided
<1>4. ASSUME stack # <<>>, AbortTransaction(stack)  PROVE Goal
  <2>1. SetXidStatus(Last(stack).xid, "kAborted") /\ UNCHANGED nextXid
    BY <1>4 DEF AbortTransaction
  <2>2. QED
    BY <1>2, <1>4, <2>1, LevelDecided
<1>5. CASE StartTransactionCommand
  BY <1>5 DEF StartTransactionCommand, StartTransaction
<1>6. CASE \/ ParseError \/ StatementError \/ StatementDone \/ GetTransactionSnapshot
           \/ \E t \in Tables : Ddl(t)
           \/ \E n \in Names : \/ BeginSavepoint(n) \/ ReleaseSavepoint(n)
                               \/ RollbackToSavepoint(n) \/ NoSuchSavepoint(n)
  BY <1>6 DEF ParseError, StatementError, StatementDone, GetTransactionSnapshot, Ddl,
     NoSuchSavepoint, BeginSavepoint, ReleaseSavepoint, RollbackToSavepoint
<1>7. CASE Write \/ \E g \in Gids : PrepareTransactionBlock(g) \/ PrepareFails(g)
  BY <1>7 DEF Write, PrepareTransactionBlock, PrepareFails, Assigned
<1>8. CASE BeginTransactionBlock
  BY <1>8 DEF BeginTransactionBlock, StartTransaction
<1>9. CASE EndTransactionBlock
  <2>1. stack # <<>>
    BY <1>9 DEF EndTransactionBlock, XactInv, Started
  <2>2. CommitTransaction \/ AbortTransaction(stack) \/ UNCHANGED <<nextXid, clog>>
    BY <1>9 DEF EndTransactionBlock
  <2>3. QED
    BY <1>3, <1>4, <2>1, <2>2
<1>10. CASE AbortTransactionBlock
  <2>1. stack # <<>>
    BY <1>10 DEF AbortTransactionBlock, XactInv, Started
  <2>2. CASE CurrentState.block = "kSubInProgress"
    <3> DEFINE s == AbortSubTransactions(stack, Depth - 1)
    <3>1. Last(s).xid = TopXid
      <4>1. stack \in Seq(Levels) /\ Len(stack) \in Nat /\ stack[1].block # "kSubInProgress"
        BY <1>1, <2>1, EmptyStack DEF XactInv, TypeOK, StackInv, StackShape
      <4>2. Depth - 1 \in 1 .. Len(stack) - 1
        BY <1>1, <2>1, <2>2, <4>1 DEF CurrentState, Last, Depth
      <4>3. \A i \in 2 .. Len(stack) : stack[i].before = stack[i-1].cid
        BY DEF XactInv, StackInv, CommandIdsNest, Depth
      <4>4. s = SubSeq(stack, 1, 1)
        <5>1. s = SubSeq(stack, 1, Len(stack) - (Depth - 1))
          BY <4>1, <4>2, <4>3, AbortSubsIs, Zenon
        <5>2. Len(stack) - (Depth - 1) = 1
          BY <4>1 DEF Depth
        <5>3. QED
          BY <5>1, <5>2, Zenon
      <4>5. Len(s) = 1 /\ s[1] = stack[1]
        BY <1>1, <2>1, <4>1, <4>4, BottomIs DEF Depth
      <4>6. QED
        BY <2>1, <4>5 DEF Last, TopXid, InBlock
    <3>2. SetXidStatus(Last(s).xid, "kAborted") /\ UNCHANGED nextXid
      BY <1>10, <2>2 DEF AbortTransactionBlock, AbortTransaction
    <3> HIDE DEF s
    <3>3. QED
      BY <3>1, <3>2, LevelDecided
  <2>3. CASE CurrentState.block # "kSubInProgress"
    <3>1. AbortTransaction(stack)
      BY <1>10, <2>3 DEF AbortTransactionBlock
    <3>2. QED
      BY <1>4, <2>1, <3>1
  <2>4. QED
    BY <2>2, <2>3
<1>11. CASE \E g \in Gids : CommitPreparedTransaction(g) \/ RollbackPreparedTransaction(g)
  <2>1. PICK g \in Gids, status \in {"kCommitted", "kAborted"} : FinishPrepared(g, status)
    BY <1>11 DEF CommitPreparedTransaction, RollbackPreparedTransaction
  <2>2. CASE gids[g] = 0
    BY <2>1, <2>2 DEF FinishPrepared
  <2>3. CASE gids[g] # 0
    BY <2>1, <2>3 DEF FinishPrepared, SetXidStatus, Decided, Open
  <2>4. QED
    BY <2>2, <2>3
<1>12. CASE CommitTransactionCommand
  <2>1. \/ stack # <<>> /\ (CommitTransaction \/ AbortTransaction(stack))
        \/ UNCHANGED <<nextXid, clog>>
    BY <1>12 DEF CommitTransactionCommand
  <2>2. QED
    BY <1>3, <1>4, <2>1
<1>13. CASE AbortCurrentTransaction
  <2>1. (stack # <<>> /\ AbortTransaction(stack)) \/ UNCHANGED <<nextXid, clog>>
    BY <1>13 DEF AbortCurrentTransaction
  <2>2. QED
    BY <1>4, <2>1
<1>14. QED
  BY <1>5, <1>6, <1>7, <1>8, <1>9, <1>10, <1>11, <1>12, <1>13, SMTT(20)
  DEF Next, TransactionStatement

(* The block state machine, errors and savepoints included, implements     *)
(* Outcomes without losing a transaction: every XID a backend takes stays  *)
(* open until it is decided, once (xact.cpp, twophase.cpp).                *)
THEOREM XactRefinement == Spec => ImplementsOutcomes
<1>1. Init => Out!Init
  <2> SUFFICES ASSUME Init PROVE Out!Init
    OBVIOUS
  <2>1. nextXid \in Xids /\ nextXid - 1 \notin Xids
    BY BoundsAssumption DEF Init, Xids
  <2>2. TopXid = kInvalidTransactionId
    BY DEF Init, InBlock, TopXid
  <2>3. Open = {}
    <3>1. gids = [g \in Gids |-> kInvalidTransactionId]
      BY Zenon DEF Init
    <3>2. QED
      BY <2>2, <3>1 DEF Open
  <2>4. clog = [x \in Xids |-> "kInProgress"]
    BY DEF Init
  <2>5. QED
    BY <2>1, <2>3, <2>4 DEF Out!Init
<1>2. XactInv /\ XactInv' /\ [Next]_vars => [Out!Assign \/ Out!Decision]_Out!vars
  <2> SUFFICES ASSUME XactInv, XactInv', [Next]_vars
               PROVE  [Out!Assign \/ Out!Decision]_Out!vars
    OBVIOUS
  <2>1. UNCHANGED <<nextXid, clog>> \/ Assigned \/ Decided
    BY StepOutcome DEF vars
  <2>2. QED
    BY <2>1, OutcomeStep
<1>3. QED
  BY <1>1, <1>2, XactInvariant, PTL DEF Spec, ImplementsOutcomes, Out!LosslessSpec
=============================================================================
