-------------------------------- MODULE Xact --------------------------------
(***************************************************************************)
(* The transaction block state machine of one backend: the state stack of  *)
(* src/transaction/xact.cpp, driven by the simple-query loop of            *)
(* src/protocol/postgres.cpp and the transaction statements of             *)
(* src/protocol/utility.cpp, with the process-local list of prepared       *)
(* transactions (twophase.cpp) and the catalog's undo copy (catalog.cpp).  *)
(*                                                                         *)
(* A statement is a run of steps: StartTransactionCommand, either one      *)
(* transaction statement or any number of effects (a row write, DDL,       *)
(* taking the snapshot), and then CommitTransactionCommand, or             *)
(* AbortCurrentTransaction when any of them reported an error.  Nothing    *)
(* in the loop refuses statements in a failed block.                       *)
(*                                                                         *)
(* The server does not yet dispatch SAVEPOINT, RELEASE and ROLLBACK TO;    *)
(* they are modelled as statements over xact.cpp's public functions.       *)
(***************************************************************************)
EXTENDS Integers, Sequences

CONSTANTS Gids,              \* names of prepared transactions
          Names,             \* savepoint names
          Tables,            \* user tables DDL creates and drops
          kInvalidCommandId, \* 2^32 - 1 in the code: the counter stops below it
          MaxXid,            \* bound on XIDs assigned
          MaxDepth           \* bound on the depth of the stack

ASSUME BoundsAssumption ==
  /\ kInvalidCommandId \in Nat \ {0}
  /\ MaxXid \in Nat /\ MaxXid >= 3
  /\ MaxDepth \in Nat \ {0}

kInvalidTransactionId     == 0
kFirstNormalTransactionId == 3
kFirstCommandId           == 0
NoSnapshot                == -1
NoName                    == ""

Xids       == kFirstNormalTransactionId .. MaxXid
MaybeXid   == Xids \cup {kInvalidTransactionId}
CommandIds == kFirstCommandId .. kInvalidCommandId - 1

(* The states a stack entry is ever left in between two functions.         *)
TBlockState == {"kStarted", "kBegin", "kInProgress", "kEnd", "kAbort",
                "kAbortPending", "kSubInProgress", "kSubAbort"}

VARIABLES
  pc,        \* where the query loop is
  stack,     \* StateStack(), the current (sub)transaction last
  nextXid,   \* VariableCache.nextXid
  clog,      \* the commit log
  pgxact,    \* this backend's PGXACT.xid
  curcid,    \* curcid of the active snapshot, or NoSnapshot
  gids,      \* StateList(): the XID prepared under each GID
  live,      \* the user tables in the in-memory catalog
  undo,      \* Catalog::snapshot_: a singleton, or empty when there is none
  dirty,     \* Catalog::dirty_
  file,      \* the tables in the catalog file on disk
  writes     \* history: rows this transaction wrote and has not rolled back

vars == <<pc, stack, nextXid, clog, pgxact, curcid, gids, live, undo, dirty,
          file, writes>>

catalog == <<live, undo, dirty, file>>

Levels == [block : TBlockState, xid : MaybeXid, cid : CommandIds,
           before : CommandIds, name : Names \cup {NoName}]

TypeOK ==
  /\ pc \in {"idle", "body", "run", "done", "error"}
  /\ stack \in Seq(Levels) /\ Len(stack) <= MaxDepth
  /\ nextXid \in kFirstNormalTransactionId .. MaxXid + 1
  /\ clog \in [Xids -> {"kInProgress", "kCommitted", "kAborted"}]
  /\ pgxact \in MaybeXid
  /\ curcid \in CommandIds \cup {NoSnapshot}
  /\ gids \in [Gids -> MaybeXid]
  /\ live \in SUBSET Tables /\ file \in SUBSET Tables
  /\ undo \in SUBSET SUBSET Tables
  /\ dirty \in BOOLEAN
  /\ writes \in SUBSET [cid : CommandIds, level : 1 .. MaxDepth]

Init ==
  /\ pc = "idle" /\ stack = <<>>
  /\ nextXid = kFirstNormalTransactionId
  /\ clog = [x \in Xids |-> "kInProgress"]
  /\ pgxact = kInvalidTransactionId
  /\ curcid = NoSnapshot
  /\ gids = [g \in Gids |-> kInvalidTransactionId]
  /\ live = {} /\ undo = {} /\ dirty = FALSE /\ file = {}
  /\ writes = {}

Last(s)       == s[Len(s)]
Popped(s)     == SubSeq(s, 1, Len(s) - 1)
Depth         == Len(stack)
CurrentState  == Last(stack)
PopState      == Popped(stack)
WithBlock(s, blk) == [s EXCEPT ![Len(s)].block = blk]

-----------------------------------------------------------------------------
(* The internal functions.                                                 *)

(* StartTransaction, catalog snapshot included; blk is what the caller     *)
(* then makes of kStarted.                                                 *)
StartTransaction(blk) ==
  /\ stack' = <<[block |-> blk, xid |-> kInvalidTransactionId,
                 cid |-> kFirstCommandId, before |-> kFirstCommandId,
                 name |-> NoName]>>
  /\ undo' = {live}
  /\ UNCHANGED <<nextXid, clog, pgxact, curcid, gids, live, dirty, file, writes>>

SetXidStatus(x, status) ==
  clog' = IF x = kInvalidTransactionId THEN clog ELSE [clog EXCEPT ![x] = status]

(* Mutant: the flag is cleared and nothing is saved.                       *)
ClearDirtyOnly ==
  /\ UNCHANGED file
  /\ dirty' = FALSE

CommitDirty ==
  /\ file' = IF dirty THEN live ELSE file
  /\ dirty' = FALSE

(* Mutant: the XID stays in PGXACT after the commit.                       *)
CommitStaysPublished ==
  /\ SetXidStatus(CurrentState.xid, "kCommitted")
  /\ curcid' = NoSnapshot
  /\ CommitDirty /\ undo' = {}
  /\ stack' = PopState
  /\ writes' = {}
  /\ UNCHANGED <<nextXid, pgxact, gids, live>>

CommitTransaction ==
  /\ SetXidStatus(CurrentState.xid, "kCommitted")
  /\ pgxact' = kInvalidTransactionId
  /\ curcid' = NoSnapshot
  /\ CommitDirty /\ undo' = {}
  /\ stack' = PopState
  /\ writes' = {}
  /\ UNCHANGED <<nextXid, gids, live>>

(* AbortTransaction with s the stack it finds.                             *)
AbortTransaction(s) ==
  /\ SetXidStatus(Last(s).xid, "kAborted")
  /\ pgxact' = kInvalidTransactionId
  /\ curcid' = NoSnapshot
  /\ IF undo = {} THEN UNCHANGED <<live, dirty>>
     ELSE live' \in undo /\ dirty' = FALSE
  /\ undo' = {}
  /\ stack' = Popped(s)
  /\ writes' = {}
  /\ UNCHANGED <<nextXid, gids, file>>

(* Mutant: the counter to return to is not taken over from the parent.     *)
SubFromZero(parent, name) ==
  [block |-> "kSubInProgress", xid |-> parent.xid, cid |-> parent.cid,
   before |-> kFirstCommandId, name |-> name]

Sub(parent, name) ==
  [block |-> "kSubInProgress", xid |-> parent.xid, cid |-> parent.cid,
   before |-> parent.cid, name |-> name]

StartSubTransaction(s, name) == Append(s, Sub(Last(s), name))

(* Mutant: the counter is not handed to the parent.                        *)
CommitSubKeepsCid(s, n) == SubSeq(s, 1, Len(s) - n)

(* The stack after n calls of CommitSubTransaction, of AbortSubTransaction.*)
CommitSubTransactions(s, n) ==
  [SubSeq(s, 1, Len(s) - n) EXCEPT ![Len(s) - n].cid = Last(s).cid]

AbortSubTransactions(s, n) ==
  [SubSeq(s, 1, Len(s) - n) EXCEPT ![Len(s) - n].cid = s[Len(s) - n + 1].before]

(* Mutant: the counter does not stop at its limit.                         *)
NextCidUnlimited(cid) == cid + 1

NextCid(cid) == IF cid < kInvalidCommandId - 1 THEN cid + 1 ELSE cid

(* CommandCounterIncrement, s being the stack it finds.                    *)
CommandCounterIncrement(s) ==
  LET next == NextCid(Last(s).cid)
  IN  /\ stack' = [s EXCEPT ![Len(s)].cid = next]
      /\ curcid' = IF curcid = NoSnapshot THEN curcid ELSE next

-----------------------------------------------------------------------------
(* A statement begins.                                                     *)

StartTransactionCommand ==
  /\ pc = "idle" /\ pc' = "body"
  /\ IF stack = <<>>
       THEN StartTransaction("kStarted")
       ELSE /\ stack' = IF CurrentState.block = "kBegin"
                          THEN WithBlock(stack, "kInProgress") ELSE stack
            /\ UNCHANGED <<nextXid, clog, pgxact, curcid, gids, catalog, writes>>

(* raw_parser fails: straight to the error path, no command was started.   *)
ParseError ==
  /\ pc = "idle" /\ pc' = "error"
  /\ UNCHANGED <<stack, nextXid, clog, pgxact, curcid, gids, catalog, writes>>

(* The statement reports an error, at any point of its execution.          *)
StatementError ==
  /\ pc \in {"body", "run"} /\ pc' = "error"
  /\ UNCHANGED <<stack, nextXid, clog, pgxact, curcid, gids, catalog, writes>>

(* It ends without having been a transaction statement.                    *)
StatementDone ==
  /\ pc \in {"body", "run"} /\ pc' = "done"
  /\ UNCHANGED <<stack, nextXid, clog, pgxact, curcid, gids, catalog, writes>>

-----------------------------------------------------------------------------
(* Effects.                                                                *)

GetTransactionSnapshot ==
  /\ pc \in {"body", "run"} /\ pc' = "run"
  /\ curcid = NoSnapshot
  /\ curcid' = CurrentState.cid
  /\ UNCHANGED <<stack, nextXid, clog, pgxact, gids, catalog, writes>>

(* GetCurrentTransactionId: the XID is assigned to the top level at the    *)
(* first write and copied to the current level.                            *)
AssignXid(s) ==
  IF Last(s).xid # kInvalidTransactionId THEN s
  ELSE LET x == IF s[1].xid = kInvalidTransactionId THEN nextXid ELSE s[1].xid
       IN  [s EXCEPT ![1].xid = x, ![Len(s)].xid = x]

(* heap_insert and its like: the row carries the current XID and command   *)
(* ID, and CommandCounterIncrement follows at once.                        *)
Write ==
  LET s == AssignXid(stack)
  IN  /\ pc \in {"body", "run"} /\ pc' = "run"
      /\ s[1].xid <= MaxXid
      /\ nextXid' = IF stack[1].xid # kInvalidTransactionId THEN nextXid ELSE nextXid + 1
      /\ pgxact' = s[1].xid
      /\ writes' = writes \cup {[cid |-> CurrentState.cid, level |-> Depth]}
      /\ CommandCounterIncrement(s)
      /\ UNCHANGED <<clog, gids, catalog>>

(* CREATE and DROP change the in-memory catalog; PreWrite marks it dirty.  *)
Ddl(t) ==
  /\ pc \in {"body", "run"} /\ pc' = "run"
  /\ live' = IF t \in live THEN live \ {t} ELSE live \cup {t}
  /\ dirty' = (dirty \/ undo # {})
  /\ UNCHANGED <<stack, nextXid, clog, pgxact, curcid, gids, undo, file, writes>>

-----------------------------------------------------------------------------
(* Transaction statements.                                                 *)

BeginTransactionBlock ==
  /\ pc = "body" /\ pc' = "done"
  /\ IF stack = <<>>
       THEN StartTransaction("kBegin")
       ELSE /\ stack' = IF CurrentState.block = "kStarted"
                          THEN WithBlock(stack, "kInProgress") ELSE stack
            /\ UNCHANGED <<nextXid, clog, pgxact, curcid, gids, catalog, writes>>

(* Mutant: COMMIT commits a failed block too.                              *)
EndCommitsFailed ==
  /\ pc = "body" /\ pc' = "done"
  /\ IF CurrentState.block # "kSubInProgress" THEN CommitTransaction
     ELSE UNCHANGED <<stack, nextXid, clog, pgxact, curcid, gids, catalog, writes>>

(* COMMIT: a failed block is rolled back, one with open savepoints is left *)
(* as it is, with a warning.                                               *)
EndTransactionBlock ==
  /\ pc = "body" /\ pc' = "done"
  /\ CASE CurrentState.block \in {"kStarted", "kInProgress", "kBegin"} ->
             CommitTransaction
       [] CurrentState.block \in {"kAbort", "kAbortPending"} ->
             AbortTransaction(stack)
       [] OTHER ->
             UNCHANGED <<stack, nextXid, clog, pgxact, curcid, gids, catalog, writes>>

(* ROLLBACK: with open savepoints these are aborted first.                 *)
AbortTransactionBlock ==
  /\ pc = "body" /\ pc' = "done"
  /\ AbortTransaction(IF CurrentState.block = "kSubInProgress"
                        THEN AbortSubTransactions(stack, Depth - 1) ELSE stack)

(* PREPARE TRANSACTION refused: savepoints are open, or the GID is taken   *)
(* (found out only after an XID has been assigned).                        *)
PrepareFails(g) ==
  /\ pc = "body" /\ pc' = "error"
  /\ \/ /\ Depth > 1
        /\ UNCHANGED <<stack, nextXid, pgxact>>
     \/ /\ Depth = 1 /\ gids[g] # kInvalidTransactionId
        /\ stack' = AssignXid(stack) /\ stack'[1].xid <= MaxXid
        /\ pgxact' = stack'[1].xid
        /\ nextXid' = IF stack'[1].xid = nextXid THEN nextXid + 1 ELSE nextXid
  /\ UNCHANGED <<clog, curcid, gids, catalog, writes>>

(* Mutant: a GID in use is not refused.                                    *)
PrepareDuplicate(g) ==
  LET x == AssignXid(stack)[1].xid
  IN  /\ pc = "body" /\ pc' = "done"
      /\ Depth = 1 /\ x <= MaxXid
      /\ nextXid' = IF x = nextXid THEN nextXid + 1 ELSE nextXid
      /\ gids' = [gids EXCEPT ![g] = x]
      /\ pgxact' = kInvalidTransactionId
      /\ curcid' = NoSnapshot
      /\ CommitDirty /\ undo' = {}
      /\ stack' = PopState
      /\ writes' = {}
      /\ UNCHANGED <<clog, live>>

PrepareTransactionBlock(g) ==
  LET x == AssignXid(stack)[1].xid
  IN  /\ pc = "body" /\ pc' = "done"
      /\ Depth = 1 /\ gids[g] = kInvalidTransactionId /\ x <= MaxXid
      /\ nextXid' = IF x = nextXid THEN nextXid + 1 ELSE nextXid
      /\ gids' = [gids EXCEPT ![g] = x]
      /\ pgxact' = kInvalidTransactionId
      /\ curcid' = NoSnapshot
      /\ CommitDirty /\ undo' = {}
      /\ stack' = PopState
      /\ writes' = {}
      /\ UNCHANGED <<clog, live>>

(* COMMIT PREPARED and ROLLBACK PREPARED, in or out of a block.            *)
FinishPrepared(g, status) ==
  /\ pc = "body"
  /\ IF gids[g] = kInvalidTransactionId
       THEN pc' = "error" /\ UNCHANGED <<clog, gids>>
       ELSE /\ pc' = "done"
            /\ SetXidStatus(gids[g], status)
            /\ gids' = [gids EXCEPT ![g] = kInvalidTransactionId]
  /\ UNCHANGED <<stack, nextXid, pgxact, curcid, catalog, writes>>

CommitPreparedTransaction(g)   == FinishPrepared(g, "kCommitted")
RollbackPreparedTransaction(g) == FinishPrepared(g, "kAborted")

-----------------------------------------------------------------------------
(* Savepoints.                                                             *)

BeginSavepoint(name) ==
  /\ pc = "body" /\ pc' = "done"
  /\ Depth < MaxDepth
  /\ stack' = StartSubTransaction(stack, name)
  /\ UNCHANGED <<nextXid, clog, pgxact, curcid, gids, catalog, writes>>

(* The innermost savepoint of that name.                                   *)
Target(name, t) == /\ stack[t].name = name
                   /\ \A i \in t + 1 .. Depth : stack[i].name # name

(* RELEASE and ROLLBACK TO a savepoint that does not exist.                *)
NoSuchSavepoint(name) ==
  /\ pc = "body" /\ pc' = "error"
  /\ \A t \in 2 .. Depth : stack[t].name # name
  /\ UNCHANGED <<stack, nextXid, clog, pgxact, curcid, gids, catalog, writes>>

ReleaseSavepoint(name) ==
  /\ pc = "body" /\ pc' = "done"
  /\ \E t \in 2 .. Depth :
       /\ Target(name, t)
       /\ stack' = CommitSubTransactions(stack, Depth - t + 1)
       /\ writes' = {[w EXCEPT !.level = IF @ >= t THEN t - 1 ELSE @] : w \in writes}
  /\ UNCHANGED <<nextXid, clog, pgxact, curcid, gids, catalog>>

RollbackToSavepoint(name) ==
  /\ pc = "body" /\ pc' = "done"
  /\ \E t \in 2 .. Depth :
       /\ Target(name, t)
       /\ stack' = StartSubTransaction(AbortSubTransactions(stack, Depth - t + 1), name)
       /\ writes' = {w \in writes : w.level < t}
  /\ UNCHANGED <<nextXid, clog, pgxact, curcid, gids, catalog>>

-----------------------------------------------------------------------------
(* A statement ends.                                                       *)

CommitTransactionCommand ==
  /\ pc = "done" /\ pc' = "idle"
  /\ CASE stack = <<>> ->
            UNCHANGED <<stack, nextXid, clog, pgxact, curcid, gids, catalog, writes>>
       [] stack # <<>> /\ CurrentState.block \in {"kStarted", "kEnd"} ->
            CommitTransaction
       [] stack # <<>> /\ CurrentState.block = "kAbort" ->
            AbortTransaction(stack)
       [] OTHER ->
            /\ CommandCounterIncrement(stack)
            /\ UNCHANGED <<nextXid, clog, pgxact, gids, catalog, writes>>

(* Mutant: a failed savepoint is marked and left on the stack.             *)
AbortMarksSub ==
  /\ pc = "error" /\ pc' = "idle"
  /\ IF stack # <<>> /\ CurrentState.block = "kStarted"
       THEN AbortTransaction(stack)
       ELSE /\ stack' = IF stack = <<>> THEN stack
                        ELSE WithBlock(stack, IF Depth > 1 THEN "kSubAbort"
                                              ELSE "kAbortPending")
            /\ UNCHANGED <<nextXid, clog, pgxact, curcid, gids, catalog, writes>>

(* An error: a single statement is aborted, a block is marked failed, a    *)
(* savepoint is rolled back and gone.                                      *)
AbortCurrentTransaction ==
  /\ pc = "error" /\ pc' = "idle"
  /\ CASE stack # <<>> /\ CurrentState.block = "kStarted" ->
            AbortTransaction(stack)
       [] stack # <<>> /\ CurrentState.block \in {"kInProgress", "kBegin"} ->
            /\ stack' = WithBlock(stack, "kAbortPending")
            /\ UNCHANGED <<nextXid, clog, pgxact, curcid, gids, catalog, writes>>
       [] stack # <<>> /\ CurrentState.block = "kSubInProgress" ->
            /\ stack' = AbortSubTransactions(stack, 1)
            /\ writes' = {w \in writes : w.level < Depth}
            /\ UNCHANGED <<nextXid, clog, pgxact, curcid, gids, catalog>>
       [] OTHER ->
            UNCHANGED <<stack, nextXid, clog, pgxact, curcid, gids, catalog, writes>>

TransactionStatement ==
  \/ BeginTransactionBlock \/ EndTransactionBlock \/ AbortTransactionBlock
  \/ \E g \in Gids : \/ PrepareTransactionBlock(g) \/ PrepareFails(g)
                     \/ CommitPreparedTransaction(g) \/ RollbackPreparedTransaction(g)
  \/ \E n \in Names : \/ BeginSavepoint(n) \/ ReleaseSavepoint(n)
                      \/ RollbackToSavepoint(n) \/ NoSuchSavepoint(n)

Next ==
  \/ StartTransactionCommand \/ ParseError \/ StatementError \/ StatementDone
  \/ GetTransactionSnapshot \/ Write \/ \E t \in Tables : Ddl(t)
  \/ TransactionStatement
  \/ CommitTransactionCommand \/ AbortCurrentTransaction

Spec == Init /\ [][Next]_vars

-----------------------------------------------------------------------------
(* Properties.                                                             *)

InBlock == stack # <<>>
Failed  == InBlock /\ stack[1].block = "kAbortPending"
TopXid  == IF InBlock THEN stack[1].xid ELSE kInvalidTransactionId

(* The states xact.cpp moves through inside a function never stay on the   *)
(* stack: between calls the top level is a single statement, an open block *)
(* or a failed one, and everything above it is a running savepoint.  The   *)
(* query loop finds every state it switches on handled.                    *)
StackShape ==
  \A i \in 1 .. Depth :
    stack[i].block \in IF i = 1 THEN {"kStarted", "kInProgress", "kAbortPending"}
                       ELSE {"kSubInProgress"}

(* What other backends see is this transaction: PGXACT shows the top       *)
(* level's XID, every level runs under that XID or none, and the log has   *)
(* no decision for it while it is open.                                    *)
PublishedInStep ==
  /\ pgxact = TopXid
  /\ \A i \in 1 .. Depth : stack[i].xid \in {TopXid, kInvalidTransactionId}
  /\ TopXid # kInvalidTransactionId => clog[TopXid] = "kInProgress"

(* No XID is forgotten: one that is still in progress in the log is the    *)
(* open transaction's or is listed under exactly one GID, so a COMMIT,     *)
(* ROLLBACK, COMMIT PREPARED or ROLLBACK PREPARED can still decide it.     *)
NoOrphanedXid ==
  /\ \A x \in kFirstNormalTransactionId .. nextXid - 1 :
       clog[x] = "kInProgress" <=> x = TopXid \/ \E g \in Gids : gids[g] = x
  /\ \A g, h \in Gids : gids[g] # kInvalidTransactionId =>
       gids[g] # TopXid /\ (g # h => gids[g] # gids[h])

(* The XIDs this backend can still decide.                                 *)
Open == ({TopXid} \cup {gids[g] : g \in Gids}) \ {kInvalidTransactionId}

Out == INSTANCE Outcomes WITH next <- nextXid, open <- Open, outcome <- clog

(* Whatever fails, in whatever block or savepoint, each XID is handed out  *)
(* once and decided once, and none is lost: nothing but a decision makes   *)
(* the backend let go of one.                                              *)
ImplementsOutcomes == Out!LosslessSpec

(* Command IDs nest: a savepoint remembers exactly the counter its parent  *)
(* stands at, so rolling it back puts the parent where it was.             *)
CommandIdsNest ==
  \A i \in 2 .. Depth : /\ stack[i].before = stack[i-1].cid
                        /\ stack[i].cid >= stack[i].before

(* A transaction sees its own work: whatever it wrote and has not rolled   *)
(* back, in whatever savepoint, has a command ID its snapshot admits       *)
(* (HeapTupleSatisfiesMVCC: t_cid <= curcid), also when the counter has    *)
(* reached its limit.                                                      *)
OwnWritesVisible ==
  curcid # NoSnapshot => \A w \in writes : w.cid <= curcid

(* The catalog is undone and saved with the transaction: while one is      *)
(* open the undo copy is what the disk has, when none is the memory is.    *)
CatalogInStep ==
  IF InBlock THEN undo = {file} /\ (~dirty => live = file)
             ELSE undo = {} /\ live = file /\ ~dirty

(* Stack, log, PGXACT, command counter, prepared list and catalog agree    *)
(* between any two statements, whatever fails.                             *)
XactRight ==
  /\ StackShape /\ PublishedInStep /\ NoOrphanedXid
  /\ CommandIdsNest /\ OwnWritesVisible /\ CatalogInStep

(* A failed block stays failed until it ends, and it ends aborted unless   *)
(* it is prepared.                                                         *)
FailedStep ==
  Failed => \/ Failed'
            \/ ~InBlock' /\ (TopXid # kInvalidTransactionId =>
                               clog'[TopXid] = "kAborted")
            \/ \E g \in Gids : gids'[g] # gids[g]

FailedBlockAborts == [][FailedStep]_vars

(* xact.hpp: in a failed block "the user must issue ROLLBACK to exit", and *)
(* xact.cpp treats COMMIT as ROLLBACK: there is no other way out.          *)
FailedBlockOnlyAborts ==
  [][Failed /\ ~Failed' => ~InBlock' /\ (TopXid # kInvalidTransactionId =>
                                           clog'[TopXid] = "kAborted")]_vars
=============================================================================
