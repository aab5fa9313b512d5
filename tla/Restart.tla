------------------------------ MODULE Restart ------------------------------
(***************************************************************************)
(* What of the transaction status survives a restart: the commit log in    *)
(* shared memory, its file, and the private sets of dirty pages            *)
(* (src/transaction/transam.cpp), written by the checkpointer              *)
(* (src/server/checkpointer.cpp) and at shutdown, read at start            *)
(* (src/server/postmaster.cpp).                                            *)
(*                                                                         *)
(* All XIDs are on one page of the log.  Starter is the process that       *)
(* calls InitializeServerSubsystems and ShutdownServerSubsystems; the      *)
(* others are forked by it.  A process of Workers runs transactions: in    *)
(* the server the forked ones, in a program that embeds the subsystems     *)
(* Starter itself.                                                         *)
(***************************************************************************)
EXTENDS Integers, TLAPS

CONSTANTS Starter, Forked,   \* processes
          Workers,           \* those that run transactions
          MaxXid,            \* bound: largest XID assigned
          MaxStarts          \* bound: starts of the server

ASSUME NamesAssumption ==
  Workers \subseteq {Starter} \cup Forked /\ "nobody" \notin {Starter} \cup Forked
ASSUME BoundsAssumption == MaxXid \in Nat /\ MaxXid >= 3

VARIABLES
  up,        \* the server runs
  nextXid,   \* g_variable_cache->nextXid, shared memory
  clog,      \* g_clog_base, shared memory
  file,      \* the page's file; Short: truncated and not yet written
  dirty,     \* per process: DirtyClogPages holds the page
  xact,      \* per process: XID of its transaction, 0: none
  flushing,  \* the process between O_TRUNC and write, or Nobody
  starts,    \* number of starts
  outcomes,  \* history: per XID the outcomes of its transactions
  kept       \* history: XIDs committed, then flushed, and not used again

vars == <<up, nextXid, clog, file, dirty, xact, flushing, starts, outcomes, kept>>

Procs == {Starter} \cup Forked
Nobody == "nobody"
FirstNormal == 3
Xids == FirstNormal .. MaxXid
Status == {"in_progress", "committed", "aborted"}
Empty == [x \in Xids |-> "in_progress"]
Short == [x \in {} |-> "in_progress"]

(* initdb: no file, which reads as Short does.                             *)
Init ==
  /\ up = FALSE /\ starts = 0
  /\ nextXid = FirstNormal
  /\ clog = Empty /\ file = Short
  /\ dirty = [p \in Procs |-> FALSE]
  /\ xact = [p \in Procs |-> 0]
  /\ flushing = Nobody
  /\ outcomes = [x \in Xids |-> {}]
  /\ kept = {}

(* Mutant: what is not in the file counts as committed.                    *)
LoadedCommitted ==
  [x \in Xids |-> IF x \in DOMAIN file THEN file[x] ELSE "committed"]

(* LoadClogFiles: an entry that is not in the file keeps its first value.  *)
Loaded == [x \in Xids |-> IF x \in DOMAIN file THEN file[x] ELSE "in_progress"]

(* InitializeServerSubsystems: fresh shared memory, so the XID counter     *)
(* starts at the first normal XID again; the log is read from its file.    *)
Start ==
  /\ ~up /\ starts < MaxStarts
  /\ up' = TRUE /\ starts' = starts + 1
  /\ nextXid' = FirstNormal
  /\ clog' = Loaded
  /\ dirty' = [p \in Procs |-> FALSE]
  /\ xact' = [p \in Procs |-> 0]
  /\ UNCHANGED <<file, flushing, outcomes, kept>>

(* AllocateNextTransactionId with TransactionIdSetInProgress.              *)
Begin(p) ==
  /\ up /\ flushing # p /\ xact[p] = 0 /\ nextXid <= MaxXid
  /\ nextXid' = nextXid + 1
  /\ xact' = [xact EXCEPT ![p] = nextXid]
  /\ clog' = [clog EXCEPT ![nextXid] = "in_progress"]
  /\ dirty' = [dirty EXCEPT ![p] = TRUE]
  /\ kept' = kept \ {nextXid}
  /\ UNCHANGED <<up, file, flushing, starts, outcomes>>

(* TransactionIdCommit and TransactionIdAbort.                             *)
End(p, status) ==
  /\ up /\ flushing # p /\ xact[p] # 0
  /\ clog' = [clog EXCEPT ![xact[p]] = status]
  /\ outcomes' = [outcomes EXCEPT ![xact[p]] = @ \cup {status}]
  /\ dirty' = [dirty EXCEPT ![p] = TRUE]
  /\ xact' = [xact EXCEPT ![p] = 0]
  /\ UNCHANGED <<up, nextXid, file, flushing, starts, kept>>

(* FlushClogFiles of a process that has the page in its dirty set: the     *)
(* file is truncated and rewritten from shared memory.  It is called from  *)
(* CreateCheckPoint, and by Starter in ShutdownClog once the children have *)
(* exited.                                                                 *)
FlushTruncate(p) ==
  /\ up /\ flushing = Nobody /\ xact[p] = 0
  /\ dirty[p]
  /\ flushing' = p
  /\ file' = Short
  /\ UNCHANGED <<up, nextXid, clog, dirty, xact, starts, outcomes, kept>>

Committed == {x \in Xids : clog[x] = "committed"}

FlushWrite(p) ==
  /\ up /\ flushing = p
  /\ flushing' = Nobody
  /\ file' = clog
  /\ dirty' = [dirty EXCEPT ![p] = FALSE]
  /\ kept' = Committed
  /\ UNCHANGED <<up, nextXid, clog, xact, starts, outcomes>>

(* Mutant: the shutdown does not flush.                                    *)
ShutdownNoFlush ==
  /\ up /\ flushing = Nobody /\ \A p \in Procs : xact[p] = 0
  /\ up' = FALSE
  /\ kept' = IF dirty[Starter] THEN Committed ELSE kept
  /\ UNCHANGED <<nextXid, clog, file, dirty, xact, flushing, starts, outcomes>>

(* ShutdownServerSubsystems, after the children have exited.               *)
Shutdown ==
  /\ up /\ flushing = Nobody /\ \A p \in Procs : xact[p] = 0
  /\ up' = FALSE
  /\ file' = IF dirty[Starter] THEN clog ELSE file
  /\ dirty' = [dirty EXCEPT ![Starter] = FALSE]
  /\ kept' = IF dirty[Starter] THEN Committed ELSE kept
  /\ UNCHANGED <<nextXid, clog, xact, flushing, starts, outcomes>>

(* The machine stops: memory is lost, the file is as it was left.          *)
Crash ==
  /\ up
  /\ up' = FALSE
  /\ flushing' = Nobody
  /\ kept' = IF flushing = Nobody THEN kept ELSE {}
  /\ UNCHANGED <<nextXid, clog, file, dirty, xact, starts, outcomes>>

Next ==
  \/ Start \/ Shutdown \/ Crash
  \/ \E p \in Workers : Begin(p) \/ End(p, "committed") \/ End(p, "aborted")
  \/ \E p \in Procs : FlushTruncate(p) \/ FlushWrite(p)

Spec == Init /\ [][Next]_vars

-----------------------------------------------------------------------------
(* No status comes from nowhere: the log and its file say "committed" or   *)
(* "aborted" only of an XID one of whose transactions ended that way, in   *)
(* whatever life of the server.  (Which one is another matter: the counter *)
(* is not saved, so an XID may be used once in every life.)                *)
StatusHasOwner ==
  \A x \in Xids :
    /\ clog[x] # "in_progress" => clog[x] \in outcomes[x]
    /\ x \in DOMAIN file /\ file[x] # "in_progress" => file[x] \in outcomes[x]

(* A commit that a flush has written, or that Starter made before it shut  *)
(* the server down, is found again after any number of crashes and starts, *)
(* until its XID is used again or a crash comes in the middle of a later   *)
(* rewrite of the file.                                                    *)
FlushedCommitsKept ==
  \A x \in kept : up => clog[x] = "committed"

(* What the log says after a restart is true, and what was flushed is      *)
(* still in it.                                                            *)
CommitsKept == StatusHasOwner /\ FlushedCommitsKept

(* postmaster.cpp, ShutdownServerSubsystems: "flush CLOG / commit_ts /     *)
(* multixact dirty pages to disk so transaction state survives a restart". *)
(* The code: DirtyClogPages is private, the commits were made by forked    *)
(* processes, and the set of the process that shuts down is empty.         *)
ShutdownKeepsCommits ==
  [][Shutdown => \A x \in Committed : x \in DOMAIN file' /\ file'[x] = "committed"]_vars

-----------------------------------------------------------------------------
(***************************************************************************)
(* CommitsKept for every number of processes, XIDs and starts.             *)
(***************************************************************************)
TypeOK ==
  /\ up \in BOOLEAN
  /\ nextXid \in FirstNormal .. MaxXid + 1
  /\ clog \in [Xids -> Status]
  /\ file \in [Xids -> Status] \cup {Short}
  /\ dirty \in [Procs -> BOOLEAN]
  /\ xact \in [Procs -> Xids \cup {0}]
  /\ flushing \in Procs \cup {Nobody}
  /\ outcomes \in [Xids -> SUBSET Status]
  /\ kept \subseteq Xids

(* While the server runs, a transaction has an XID below the counter, of   *)
(* its own, and the log has it in progress: so no flush takes it for       *)
(* committed and no other end overwrites it.                               *)
RunningInv ==
  up => \A p \in Procs : xact[p] # 0 =>
          /\ xact[p] < nextXid
          /\ clog[xact[p]] = "in_progress"
          /\ \A q \in Procs : xact[q] = xact[p] => q = p

(* Outside of a rewrite the kept commits are in the file, which is all     *)
(* that a start has; while the server runs they are in the log.            *)
KeptInv ==
  /\ ~up => flushing = Nobody
  /\ \A x \in kept :
       /\ up => clog[x] = "committed"
       /\ flushing = Nobody => x \in DOMAIN file /\ file[x] = "committed"

RestartInv == TypeOK /\ RunningInv /\ KeptInv /\ StatusHasOwner

LEMMA ShortIsEmpty == DOMAIN Short = {}
BY DEF Short

(* The first state: nothing is kept, and no XID has a status.              *)
LEMMA RestartInit == Init => RestartInv
<1> SUFFICES ASSUME Init PROVE RestartInv
  OBVIOUS
<1>1. TypeOK
  <2>1. nextXid \in FirstNormal .. MaxXid + 1
    BY BoundsAssumption DEF Init, FirstNormal
  <2>2. clog \in [Xids -> Status]
    BY DEF Init, Empty, Status
  <2>3. QED
    BY <2>1, <2>2 DEF Init, TypeOK
<1>2. RunningInv /\ KeptInv
  BY DEF Init, RunningInv, KeptInv
<1>3. StatusHasOwner
  BY ShortIsEmpty DEF Init, StatusHasOwner, Empty
<1>4. QED
  BY <1>1, <1>2, <1>3 DEF RestartInv

(* A start loads the log from the file, and no transaction is left.        *)
LEMMA StartStep == RestartInv /\ Start => RestartInv'
<1> SUFFICES ASSUME RestartInv, Start PROVE RestartInv'
  OBVIOUS
<1> USE DEF RestartInv
<1>1. \A x \in Xids : clog'[x] = IF x \in DOMAIN file THEN file[x] ELSE "in_progress"
  BY DEF Start, Loaded
<1>2. \A x \in DOMAIN file : x \in Xids /\ file[x] \in Status
  BY ShortIsEmpty DEF TypeOK
<1>3. TypeOK'
  <2>1. clog' \in [Xids -> Status]
    BY <1>2 DEF Start, Loaded, Status
  <2>2. nextXid' \in FirstNormal .. MaxXid + 1
    BY BoundsAssumption DEF Start, FirstNormal
  <2>3. QED
    BY <2>1, <2>2 DEF Start, TypeOK
<1>4. RunningInv'
  BY DEF Start, RunningInv
<1>5. KeptInv'
  BY <1>1 DEF Start, KeptInv, TypeOK
<1>6. StatusHasOwner'
  BY <1>1 DEF Start, StatusHasOwner
<1>7. QED
  BY <1>3, <1>4, <1>5, <1>6

(* A new XID is the counter's, so it is nobody's, and it is not kept.      *)
LEMMA BeginStep ==
  ASSUME NEW p \in Procs, RestartInv, Begin(p)
  PROVE  RestartInv'
<1> USE DEF RestartInv
<1>1. /\ nextXid \in Xids /\ nextXid # 0 /\ nextXid' = nextXid + 1
      /\ nextXid' \in FirstNormal .. MaxXid + 1
  BY BoundsAssumption DEF Begin, TypeOK, Xids, FirstNormal
<1>2. /\ xact' = [xact EXCEPT ![p] = nextXid]
      /\ clog' = [clog EXCEPT ![nextXid] = "in_progress"]
      /\ up /\ up' /\ kept' = kept \ {nextXid}
      /\ UNCHANGED <<file, flushing, outcomes>>
  BY DEF Begin, TypeOK
<1>3. TypeOK'
  BY <1>1, <1>2 DEF Begin, TypeOK, Status
<1>4. RunningInv'
  <2>1. \A q \in Procs : xact'[q] = IF q = p THEN nextXid ELSE xact[q]
    BY <1>2 DEF TypeOK
  <2>2. \A q \in Procs : xact[q] # 0 =>
          /\ xact[q] \in Xids /\ xact[q] # nextXid /\ xact[q] < nextXid + 1
          /\ clog'[xact[q]] = "in_progress"
    BY <1>1, <1>2, BoundsAssumption DEF TypeOK, RunningInv, Xids, FirstNormal
  <2>3. clog'[nextXid] = "in_progress" /\ nextXid < nextXid + 1
    BY <1>1, <1>2, BoundsAssumption DEF TypeOK, Xids, FirstNormal
  <2>4. QED
    BY <1>1, <1>2, <2>1, <2>2, <2>3 DEF RunningInv
<1>5. KeptInv'
  BY <1>2 DEF KeptInv, TypeOK
<1>6. StatusHasOwner'
  BY <1>1, <1>2 DEF StatusHasOwner, TypeOK
<1>7. QED
  BY <1>3, <1>4, <1>5, <1>6

(* An end writes the status of an XID that is in progress, so not kept.    *)
LEMMA EndStep ==
  ASSUME NEW p \in Procs, NEW status \in {"committed", "aborted"},
         RestartInv, End(p, status)
  PROVE  RestartInv'
<1> USE DEF RestartInv
<1> DEFINE x == xact[p]
<1>1. x \in Xids /\ x # 0 /\ clog[x] = "in_progress" /\ x \notin kept
  BY DEF End, TypeOK, RunningInv, KeptInv
<1>2. /\ up /\ up' /\ xact' = [xact EXCEPT ![p] = 0]
      /\ clog' = [clog EXCEPT ![x] = status]
      /\ outcomes' = [outcomes EXCEPT ![x] = @ \cup {status}]
      /\ UNCHANGED <<nextXid, file, flushing, kept>>
  BY DEF End, TypeOK
<1>3. TypeOK'
  BY <1>1, <1>2 DEF End, TypeOK, Status
<1>4. RunningInv'
  BY <1>1, <1>2 DEF RunningInv, TypeOK
<1>5. KeptInv'
  BY <1>1, <1>2 DEF KeptInv, TypeOK
<1>6. StatusHasOwner'
  BY <1>1, <1>2 DEF StatusHasOwner, TypeOK
<1>7. QED
  BY <1>3, <1>4, <1>5, <1>6

(* A flush: the file is empty while flushing is not Nobody, and then the   *)
(* log itself.                                                             *)
LEMMA FlushStep ==
  ASSUME NEW p \in Procs, RestartInv, FlushTruncate(p) \/ FlushWrite(p)
  PROVE  RestartInv'
<1> USE DEF RestartInv
<1>1. p # Nobody
  BY NamesAssumption DEF Procs, Nobody
<1>2. CASE FlushTruncate(p)
  <2>1. TypeOK' /\ RunningInv'
    BY <1>2 DEF FlushTruncate, TypeOK, RunningInv
  <2>2. KeptInv'
    BY <1>1, <1>2 DEF FlushTruncate, KeptInv, TypeOK
  <2>3. StatusHasOwner'
    BY <1>2, ShortIsEmpty DEF FlushTruncate, StatusHasOwner
  <2>4. QED
    BY <2>1, <2>2, <2>3
<1>3. CASE FlushWrite(p)
  <2>1. TypeOK' /\ RunningInv'
    BY <1>3 DEF FlushWrite, TypeOK, RunningInv, Committed
  <2>2. KeptInv'
    BY <1>3 DEF FlushWrite, KeptInv, TypeOK, Committed
  <2>3. StatusHasOwner'
    BY <1>3 DEF FlushWrite, StatusHasOwner
  <2>4. QED
    BY <2>1, <2>2, <2>3
<1>4. QED
  BY <1>2, <1>3

(* Shutdown and crash: the file is complete unless a rewrite was under     *)
(* way, and then nothing is kept any more.                                 *)
LEMMA StopStep ==
  ASSUME RestartInv, Shutdown \/ Crash
  PROVE  RestartInv'
<1> USE DEF RestartInv
<1>1. CASE Shutdown
  <2>1. TypeOK' /\ RunningInv'
    BY <1>1 DEF Shutdown, TypeOK, RunningInv, Committed, Procs
  <2>2. KeptInv'
    BY <1>1 DEF Shutdown, KeptInv, TypeOK, Committed
  <2>3. StatusHasOwner'
    BY <1>1 DEF Shutdown, StatusHasOwner
  <2>4. QED
    BY <2>1, <2>2, <2>3
<1>2. CASE Crash
  BY <1>2 DEF Crash, TypeOK, RunningInv, KeptInv, StatusHasOwner
<1>3. QED
  BY <1>1, <1>2

(* The invariant is inductive, whatever the order of starts, transactions, *)
(* flushes, shutdowns and crashes.                                         *)
THEOREM RestartInvariant == Spec => []RestartInv
<1>1. Init => RestartInv
  BY RestartInit
<1>2. RestartInv /\ [Next]_vars => RestartInv'
  <2> SUFFICES ASSUME RestartInv, [Next]_vars PROVE RestartInv'
    OBVIOUS
  <2>1. CASE Start
    BY <2>1, StartStep
  <2>2. CASE Shutdown \/ Crash
    BY <2>2, StopStep
  <2>3. CASE \E p \in Workers : Begin(p) \/ End(p, "committed") \/ End(p, "aborted")
    BY <2>3, BeginStep, EndStep, NamesAssumption DEF Procs
  <2>4. CASE \E p \in Procs : FlushTruncate(p) \/ FlushWrite(p)
    BY <2>4, FlushStep
  <2>5. CASE UNCHANGED vars
    BY <2>5 DEF vars, RestartInv, TypeOK, RunningInv, KeptInv, StatusHasOwner
  <2>6. QED
    BY <2>1, <2>2, <2>3, <2>4, <2>5 DEF Next
<1>3. QED
  BY <1>1, <1>2, PTL DEF Spec

(* What the log says after a restart is true, and what was flushed is      *)
(* still in it.                                                            *)
THEOREM FlushedIsFound == Spec => []CommitsKept
<1>1. RestartInv => CommitsKept
  BY DEF RestartInv, KeptInv, CommitsKept, FlushedCommitsKept
<1>2. QED
  BY <1>1, RestartInvariant, PTL
=============================================================================
