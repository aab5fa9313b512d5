-------------------------------- MODULE Slru --------------------------------
(***************************************************************************)
(* The SLRU page caches and the two logs kept in them: the timestamps of   *)
(* commits, and the members of MultiXacts, which have an offsets log, a    *)
(* members log and a control file. One process uses them, flushes them at  *)
(* checkpoints and when it shuts down, and may die at any step.            *)
(*                                                                         *)
(* A log is a record: its cached pages, the dirty ones among them, their   *)
(* order of use, and the pages on disk; size is the number of entries of a *)
(* page and blank what an entry holds that was never written. Offsets      *)
(* count members. created, stamped and kept are history variables.         *)
(***************************************************************************)
EXTENDS Integers, Sequences, FiniteSets, TLC, SequencesExt

CONSTANTS
  Capacity,          \* cached pages of a log
  PerPage,           \* entries of a page
  Xids, Statuses,    \* members
  Times,             \* timestamps
  MaxMulti,          \* MultiXacts that are created
  MaxCrashes

VARIABLES
  use,               \* the log this behaviour uses
  stamps, offsets, members,
  next,              \* NextMultiXactIdVar and NextMemberOffset
  control,           \* the control file
  flushing, crashes,
  created,           \* the members each MultiXact was created with
  stamped,           \* the timestamp each transaction was given last
  kept               \* the timestamps a restart may find

logs == <<stamps, offsets, members>>
vars == <<use, logs, next, control, flushing, crashes, created, stamped, kept>>

kFirstMultiXactId == 1
Member == [xid : Xids, status : Statuses]
NoMember == [xid |-> 0, status |-> 0]

(***************************************************************************)
(* slru.cpp                                                                *)
(***************************************************************************)
SimpleLruInit(blank, disk) ==
  [pages |-> << >>, dirty |-> {}, order |-> << >>, disk |-> disk,
   blank |-> blank]

ReadPageFromDisk(log, p) ==
  IF p \in DOMAIN log.disk THEN log.disk[p]
  ELSE [i \in 0 .. PerPage - 1 |-> log.blank]
WritePageToDisk(log, p) == [log EXCEPT !.disk = p :> log.pages[p] @@ @]

TouchPage(log, p) == [log EXCEPT !.order = Append(Remove(@, p), p)]

EvictOnePage(log) ==
  LET victim == Head(log.order)
      saved == IF victim \in log.dirty THEN WritePageToDisk(log, victim)
               ELSE log
  IN IF log.order = << >> THEN log
     ELSE [saved EXCEPT !.order = Tail(@), !.dirty = @ \ {victim},
                        !.pages = Restrict(@, DOMAIN @ \ {victim})]

LoadPage(log, p) ==
  LET room == IF Cardinality(DOMAIN log.pages) >= Capacity
              THEN EvictOnePage(log) ELSE log
  IN IF p \in DOMAIN log.pages THEN TouchPage(log, p)
     ELSE [room EXCEPT !.pages = p :> ReadPageFromDisk(room, p) @@ @,
                       !.order = Append(@, p)]

(* Reading entry e, and the log it leaves *)
SimpleLruRead(log, e) ==
  LET loaded == LoadPage(log, e \div PerPage)
  IN [log |-> loaded, value |-> loaded.pages[e \div PerPage][e % PerPage]]

SimpleLruWrite(log, e, value) ==
  LET p == e \div PerPage
      loaded == LoadPage(log, p)
  IN [loaded EXCEPT !.pages[p][e % PerPage] = value, !.dirty = @ \cup {p}]

(* One page of SimpleLruFlush *)
FlushPage(log, p) == [WritePageToDisk(log, p) EXCEPT !.dirty = @ \ {p}]

(***************************************************************************)
(* multixact.cpp                                                           *)
(***************************************************************************)
MultiXactIdIsValid(multi) == multi # 0 /\ multi < next.multi

(* What MultiXactIdGetMembers reads, and the logs it leaves *)
GetMembers(multi) ==
  LET start == SimpleLruRead(offsets, multi)
      after == IF multi + 1 = next.multi
               THEN [log |-> start.log, value |-> next.offset]
               ELSE SimpleLruRead(start.log, multi + 1)
      count == after.value - start.value
      read == FoldLeft(
                LAMBDA r, i :
                  LET m == SimpleLruRead(r.log, start.value + i - 1)
                  IN [log |-> m.log, list |-> Append(r.list, m.value)],
                [log |-> members, list |-> << >>], [i \in 1 .. count |-> i])
  IN [offsets |-> after.log, members |-> read.log, list |-> read.list]

CreateFrom(logs0, list) ==
  /\ next.multi <= MaxMulti
  /\ offsets' = SimpleLruWrite(logs0.offsets, next.multi, next.offset)
  /\ members' =
       FoldLeft(LAMBDA log, i :
                  SimpleLruWrite(log, next.offset + i - 1, list[i]),
                logs0.members, [i \in DOMAIN list |-> i])
  /\ next' = [multi |-> next.multi + 1, offset |-> next.offset + Len(list)]
  /\ created' = Append(created, list)

Running(log) == use = log /\ ~flushing
UnchangedElse == UNCHANGED <<use, control, flushing, crashes, kept>>

MultiXactIdCreate ==
  /\ Running("multixact")
  /\ \E m \in Member :
       CreateFrom([offsets |-> offsets, members |-> members], <<m>>)
  /\ UnchangedElse /\ UNCHANGED <<stamps, stamped>>

MultiXactIdGetMembers ==
  /\ Running("multixact")
  /\ \E multi \in 1 .. MaxMulti :
       /\ MultiXactIdIsValid(multi)
       /\ offsets' = GetMembers(multi).offsets
       /\ members' = GetMembers(multi).members
  /\ UnchangedElse /\ UNCHANGED <<stamps, stamped, next, created>>

(* An xid that is a member already makes this a MultiXactIdGetMembers. *)
MultiXactIdExpand ==
  /\ Running("multixact")
  /\ \E multi \in 1 .. MaxMulti, m \in Member :
       /\ MultiXactIdIsValid(multi)
       /\ LET got == GetMembers(multi)
          IN /\ \A i \in DOMAIN got.list : got.list[i].xid # m.xid
             /\ CreateFrom(got, Append(got.list, m))
  /\ UnchangedElse /\ UNCHANGED <<stamps, stamped>>

(***************************************************************************)
(* commit_ts.cpp                                                           *)
(***************************************************************************)
TransactionTreeSetCommitTsData ==
  /\ Running("commit_ts")
  /\ \E xid \in Xids, ts \in Times, subxids \in SUBSET Xids :
       /\ stamps' = FoldLeft(LAMBDA log, x : SimpleLruWrite(log, x, ts),
                             stamps, <<xid>> \o SetToSeq(subxids))
       /\ stamped' = [x \in Xids |-> IF x \in subxids \cup {xid} THEN ts
                                     ELSE stamped[x]]
       /\ kept' = [x \in Xids |-> kept[x] \cup {stamped'[x]}]
  /\ UNCHANGED <<use, offsets, members, next, control, flushing, crashes,
                 created>>

TransactionIdGetCommitTs ==
  /\ Running("commit_ts")
  /\ \E xid \in Xids : stamps' = SimpleLruRead(stamps, xid).log
  /\ UnchangedElse /\ UNCHANGED <<offsets, members, next, created, stamped>>

(***************************************************************************)
(* The checkpointer and a shutdown flush the timestamps, the offsets, the  *)
(* members and then the control file. Each page is a step, and so is the   *)
(* control file.                                                           *)
(***************************************************************************)
Flush ==
  /\ ~flushing
  /\ flushing' = TRUE
  /\ UNCHANGED <<use, logs, next, control, crashes, created, stamped, kept>>

FlushCommitTs ==
  /\ flushing
  /\ \E p \in stamps.dirty : stamps' = FlushPage(stamps, p)
  /\ UnchangedElse /\ UNCHANGED <<offsets, members, next, created, stamped>>

FlushOffsets ==
  /\ flushing
  /\ \E p \in offsets.dirty : offsets' = FlushPage(offsets, p)
  /\ UnchangedElse /\ UNCHANGED <<stamps, members, next, created, stamped>>

FlushMembers ==
  /\ flushing /\ offsets.dirty = {}
  /\ \E p \in members.dirty : members' = FlushPage(members, p)
  /\ UnchangedElse /\ UNCHANGED <<stamps, offsets, next, created, stamped>>

(* Mutant: the control file goes first. *)
WriteControlFirst ==
  /\ flushing
  /\ control' = next
  /\ flushing' = (offsets.dirty \cup members.dirty \cup stamps.dirty # {})
  /\ UNCHANGED <<use, logs, next, crashes, created, stamped, kept>>

WriteControlFile ==
  /\ flushing
  /\ offsets.dirty \cup members.dirty \cup stamps.dirty = {}
  /\ control' = next
  /\ flushing' = FALSE
  /\ kept' = [x \in Xids |-> {stamped[x]}]
  /\ UNCHANGED <<use, logs, next, crashes, created, stamped>>

(* The process dies, also in the middle of a flush, and is started again:  *)
(* InitializeCommitTs and InitializeMultiXact. What is left of the         *)
(* MultiXacts is what the control file counts.                             *)
Restart ==
  /\ crashes < MaxCrashes
  /\ stamps' = SimpleLruInit(0, stamps.disk)
  /\ offsets' = SimpleLruInit(0, offsets.disk)
  /\ members' = SimpleLruInit(NoMember, members.disk)
  /\ next' = control
  /\ created' = SubSeq(created, 1, control.multi - 1)
  /\ stamped' = [x \in Xids |-> SimpleLruRead(stamps', x).value]
  /\ flushing' = FALSE
  /\ crashes' = crashes + 1
  /\ UNCHANGED <<use, control, kept>>

Init ==
  /\ use \in {"multixact", "commit_ts"}
  /\ stamps = SimpleLruInit(0, << >>)
  /\ offsets = SimpleLruInit(0, << >>)
  /\ members = SimpleLruInit(NoMember, << >>)
  /\ next = [multi |-> kFirstMultiXactId, offset |-> 0]
  /\ control = next     \* no file: the counters start there
  /\ flushing = FALSE /\ crashes = 0
  /\ created = << >>
  /\ stamped = [x \in Xids |-> 0]
  /\ kept = [x \in Xids |-> {0}]

Next ==
  \/ MultiXactIdCreate \/ MultiXactIdGetMembers \/ MultiXactIdExpand
  \/ TransactionTreeSetCommitTsData \/ TransactionIdGetCommitTs
  \/ Flush \/ FlushCommitTs \/ FlushOffsets \/ FlushMembers
  \/ WriteControlFile \/ Restart

Spec == Init /\ [][Next]_vars

(***************************************************************************)
(* Correctness                                                             *)
(***************************************************************************)
(* Every MultiXact that the counter allows has the members it was created  *)
(* with, and every transaction the timestamp it was given last, whatever   *)
(* has been evicted since. After a crash this holds of what was flushed:   *)
(* the control file never counts a MultiXact whose pages are not on disk,  *)
(* and a timestamp found on disk is the flushed one or a later one.        *)
LogsKept ==
  /\ \A multi \in 1 .. next.multi - 1 :
       GetMembers(multi).list = created[multi]
  /\ \A x \in Xids :
       /\ SimpleLruRead(stamps, x).value = stamped[x]
       /\ ReadPageFromDisk(stamps, x \div PerPage)[x % PerPage] \in kept[x]
=============================================================================
