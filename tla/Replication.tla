---------------------------- MODULE Replication ----------------------------
(***************************************************************************)
(* Replication slots and logical decoding (src/replication/slot.cpp,       *)
(* slotfuncs.cpp, logical.cpp, logicalproto.cpp); senders, receivers and   *)
(* synchronous replication (walsender.cpp, walsenderfuncs.cpp,             *)
(* walreceiver.cpp, syncrep.cpp).  The two halves share only the log; a    *)
(* behaviour exercises one of them, side.                                  *)
(*                                                                         *)
(* Record i of the log occupies the LSNs 2*i and 2*i+1, so that an LSN can *)
(* fall inside a record; a read that starts there fails its checksum.      *)
(***************************************************************************)
EXTENDS Integers, Sequences, FiniteSetsExt

CONSTANTS Slots,          \* slot names
          Pids,           \* walsenders and workers that acquire slots
          Standbys,       \* standby servers, also the pids of their senders
          AppName,        \* application_name of each standby
          Configs,        \* values of synchronous_standby_names: names and count
          kMaxWalSenders,
          MaxRecords,     \* bound: records in the log
          MaxReplies      \* bound: replies of one standby in flight

ASSUME StandbysAssumption == IsFiniteSet(Standbys)

ASSUME ConfigsAssumption ==
  \A c \in Configs : c.num \in Nat /\ Len(c.names) \in Nat /\ DOMAIN c.names = 1 .. Len(c.names)

ASSUME MaxRecordsAssumption == MaxRecords \in Nat

VARIABLES
  side,       \* "logical" or "physical"
  wal,        \* the records: "message", "xact" or "other"
  slots,      \* ReplicationSlotCtlData::slots
  files,      \* pg_replslot/<name>/state
  delivered,  \* history: LSNs of the records returned from each slot
  skipped,    \* history: LSN up to which each slot was advanced by hand
  senders,    \* WalSndCtlData::walsenders
  receivers,  \* WalRcvData of each standby
  sent,       \* per standby: LSN up to which the connection carried the log
  replies,    \* per standby: replies in flight
  config      \* SyncRepConfig

logicalVars == <<slots, files, delivered, skipped>>
physicalVars == <<senders, receivers, sent, replies, config>>
vars == <<side, wal, slots, files, delivered, skipped,
          senders, receivers, sent, replies, config>>

LsnOf(i) == 2 * i
GetXLogInsertRecPtr == LsnOf(Len(wal) + 1)
Lsns == 0 .. LsnOf(MaxRecords + 1)
NoPid == 0

(* WalRcvData; a standby that never received anything.                     *)
WalRcvInit == [state |-> "stopped", receive |-> 0, write |-> 0, flush |-> 0]

Init ==
  /\ side \in {"logical", "physical"}
  /\ wal = << >>
  /\ slots = << >> /\ files = << >> /\ delivered = << >> /\ skipped = << >>
  /\ senders = << >>
  /\ receivers = [s \in Standbys |-> WalRcvInit]
  /\ sent = [s \in Standbys |-> 0]
  /\ replies = [s \in Standbys |-> {}]
  /\ config = [names |-> << >>, num |-> 0]

(* XLogInsert: LogLogicalMessage writes a "message", others the rest.      *)
XLogInsert(kind) ==
  /\ Len(wal) < MaxRecords
  /\ wal' = Append(wal, kind)
  /\ UNCHANGED <<side, logicalVars, physicalVars>>

-----------------------------------------------------------------------------
(* Slots.  What of a slot WriteSlotFile writes and ReadSlotFile reads.     *)
SlotFile(s) ==
  [type |-> s.type, persistence |-> s.persistence,
   restart_lsn |-> s.restart_lsn, confirmed_flush_lsn |-> s.confirmed_flush_lsn]

With(f, n, v) == [m \in DOMAIN f \cup {n} |-> IF m = n THEN v ELSE f[m]]
Without(f, n) == [m \in DOMAIN f \ {n} |-> f[m]]

WriteSlotFile(n, s) == files' = With(files, n, SlotFile(s))

(* PgCreateReplicationSlot and CreateInitDecodingContext come here too.  A *)
(* call with a name that is taken is refused and changes nothing.          *)
ReplicationSlotCreate(n, type, persistence) ==
  /\ n \notin DOMAIN slots
  /\ LET s == [type |-> type, persistence |-> persistence,
               restart_lsn |-> GetXLogInsertRecPtr,
               confirmed_flush_lsn |-> GetXLogInsertRecPtr,
               active_pid |-> NoPid, dirty |-> TRUE]
     IN /\ slots' = With(slots, n, s)
        /\ WriteSlotFile(n, s)
  /\ delivered' = With(delivered, n, {})
  /\ skipped' = With(skipped, n, 0)
  /\ UNCHANGED <<side, wal, physicalVars>>

ReplicationSlotAcquire(n, pid) ==
  /\ n \in DOMAIN slots /\ slots[n].active_pid = NoPid
  /\ slots' = [slots EXCEPT ![n].active_pid = pid, ![n].dirty = TRUE]
  /\ UNCHANGED <<side, wal, files, delivered, skipped, physicalVars>>

(* Only the first slot, in the order of the names, that pid holds.         *)
ReplicationSlotRelease(pid) ==
  /\ \E n \in DOMAIN slots :
       /\ slots[n].active_pid = pid
       /\ \A m \in DOMAIN slots : slots[m].active_pid = pid => n <= m
       /\ slots' = [slots EXCEPT ![n].active_pid = NoPid, ![n].dirty = TRUE]
  /\ UNCHANGED <<side, wal, files, delivered, skipped, physicalVars>>

(* Also PgDropReplicationSlot.                                             *)
ReplicationSlotDrop(n) ==
  /\ n \in DOMAIN slots /\ slots[n].active_pid = NoPid
  /\ slots' = Without(slots, n) /\ files' = Without(files, n)
  /\ delivered' = Without(delivered, n) /\ skipped' = Without(skipped, n)
  /\ UNCHANGED <<side, wal, physicalVars>>

(* Only marks the slot: the file changes at the next write.                *)
ReplicationSlotPersist(n) ==
  /\ n \in DOMAIN slots
  /\ slots' = [slots EXCEPT ![n].persistence = "persistent", ![n].dirty = TRUE]
  /\ UNCHANGED <<side, wal, files, delivered, skipped, physicalVars>>

(* The slot after ReplicationSlotAdvance: a slot never moves back.         *)
Advanced(s, upto) ==
  IF s.type = "physical"
  THEN [s EXCEPT !.restart_lsn = Max({@, upto}), !.dirty = TRUE]
  ELSE [s EXCEPT !.confirmed_flush_lsn = Max({@, upto}), !.dirty = TRUE]

MoveTo(n, upto) ==
  /\ slots' = [slots EXCEPT ![n] = Advanced(@, upto)]
  /\ WriteSlotFile(n, Advanced(slots[n], upto))

(* PgReplicationSlotAdvance: any LSN is accepted, also one that has not    *)
(* been written yet.                                                       *)
ReplicationSlotAdvance(n, upto) ==
  /\ n \in DOMAIN slots
  /\ MoveTo(n, upto)
  /\ skipped' = [skipped EXCEPT ![n] = Max({@, upto})]
  /\ UNCHANGED <<side, wal, delivered, physicalVars>>

(* LogicalShippingMain from start: it returns the messages and commits of  *)
(* the records it can read, at most max of them unless max is 0, and the   *)
(* LSN after the last record read.                                         *)
Decodes(kind) == kind \in {"message", "xact"}

LogicalShippingMain(start, max) ==
  LET readable == IF start % 2 = 0 THEN {i \in DOMAIN wal : LsnOf(i) >= start} ELSE {}
      wanted == {i \in readable : Decodes(wal[i])}
      taken == {i \in wanted :
                  max = 0 \/ Cardinality({j \in wanted : j <= i}) <= max}
      last == IF max # 0 /\ Cardinality(taken) = max THEN Max(taken)
              ELSE Len(wal)
  IN [lsns |-> {LsnOf(i) : i \in taken},
      end_lsn |-> IF readable = {} THEN start ELSE LsnOf(last + 1)]

(* Mutant: the slot moves to the end of the log, whatever was returned.    *)
GetChangesToEnd(n, upto, max) ==
  /\ n \in DOMAIN slots /\ slots[n].type = "logical"
  /\ LET r == LogicalShippingMain(slots[n].confirmed_flush_lsn, max)
     IN /\ delivered' = [delivered EXCEPT ![n] = @ \cup r.lsns]
        /\ MoveTo(n, GetXLogInsertRecPtr)
  /\ UNCHANGED <<side, wal, skipped, physicalVars>>

(* PgLogicalSlotGetChanges: upto limits how far the slot moves, not what   *)
(* is returned.  PgLogicalSlotPeekChanges does the same and moves nothing. *)
PgLogicalSlotGetChanges(n, upto, max) ==
  /\ n \in DOMAIN slots /\ slots[n].type = "logical"
  /\ LET r == LogicalShippingMain(slots[n].confirmed_flush_lsn, max)
         end == IF upto # 0 THEN Min({r.end_lsn, upto}) ELSE r.end_lsn
     IN /\ delivered' = [delivered EXCEPT ![n] = @ \cup r.lsns]
        /\ IF end > slots[n].confirmed_flush_lsn THEN MoveTo(n, end)
           ELSE UNCHANGED <<slots, files>>
  /\ UNCHANGED <<side, wal, skipped, physicalVars>>

ReplicationSlotFlushSlots ==
  /\ files' = [n \in DOMAIN files \cup DOMAIN slots |->
                 IF n \in DOMAIN slots /\ slots[n].dirty THEN SlotFile(slots[n]) ELSE files[n]]
  /\ slots' = [n \in DOMAIN slots |-> [slots[n] EXCEPT !.dirty = FALSE]]
  /\ UNCHANGED <<side, wal, delivered, skipped, physicalVars>>

(* ReplicationSlotInit and ReplicationSlotLoadSlots in a new process, with *)
(* or without a flush at the end of the old one.                           *)
ReplicationSlotLoadSlots ==
  /\ slots' = [n \in DOMAIN files |->
                 [type |-> files[n].type, persistence |-> files[n].persistence,
                  restart_lsn |-> files[n].restart_lsn,
                  confirmed_flush_lsn |-> files[n].confirmed_flush_lsn,
                  active_pid |-> NoPid, dirty |-> FALSE]]
  /\ UNCHANGED <<side, wal, files, delivered, skipped, physicalVars>>

Logical ==
  \/ \E kind \in {"message", "xact", "other"} : XLogInsert(kind)
  \/ \E n \in Slots :
       \/ \E type \in {"physical", "logical"}, p \in {"persistent", "temporary"} :
            ReplicationSlotCreate(n, type, p)
       \/ \E pid \in Pids : ReplicationSlotAcquire(n, pid)
       \/ ReplicationSlotDrop(n)
       \/ ReplicationSlotPersist(n)
       \/ \E upto \in Lsns : ReplicationSlotAdvance(n, upto)
       \/ \E upto \in Lsns, max \in 0 .. 1 : PgLogicalSlotGetChanges(n, upto, max)
  \/ \E pid \in Pids : ReplicationSlotRelease(pid)
  \/ ReplicationSlotFlushSlots
  \/ ReplicationSlotLoadSlots

-----------------------------------------------------------------------------
(* Streaming.                                                              *)
WalSndGetByPid(pid) ==
  LET I == {i \in DOMAIN senders : senders[i].pid = pid}
  IN  IF I = {} THEN 0 ELSE Min(I)

(* A standby connects: WalRcvStart there, from what it has on disk, and    *)
(* WalSndAlloc here.                                                       *)
WalRcvStart(s) ==
  /\ receivers[s].state = "stopped" /\ Len(senders) < kMaxWalSenders
  /\ LET start == receivers[s].flush
     IN /\ receivers' = [receivers EXCEPT ![s] =
             [state |-> "streaming", receive |-> start, write |-> start, flush |-> start]]
        /\ sent' = [sent EXCEPT ![s] = start]
  /\ senders' = Append(senders, [pid |-> s, write |-> 0, flush |-> 0])
  /\ UNCHANGED <<side, wal, logicalVars, replies, config>>

(* WalSndStreamWal: WalSndWriteData for every record that the connection   *)
(* has not carried.  Nothing reads the sender's sent_ptr and apply_ptr;    *)
(* they are left out, and with them WalSndKeepalive.                       *)
WalSndStreamWal(s) ==
  /\ WalSndGetByPid(s) # 0 /\ sent[s] < GetXLogInsertRecPtr
  /\ sent' = [sent EXCEPT ![s] = GetXLogInsertRecPtr]
  /\ UNCHANGED <<side, wal, logicalVars, senders, receivers, replies, config>>

(* WalRcvReportLsn: received from the connection, then written and         *)
(* flushed, each as far as the step before.                                *)
WalRcvReportLsn(s, kind) ==
  /\ receivers[s].state = "streaming"
  /\ LET limit == CASE kind = "receive" -> sent[s]
                    [] kind = "write" -> receivers[s].receive
                    [] kind = "flush" -> receivers[s].write
     IN /\ receivers[s][kind] < limit
        /\ receivers' = [receivers EXCEPT ![s][kind] = limit]
  /\ UNCHANGED <<side, wal, logicalVars, senders, sent, replies, config>>

(* The standby's reply, which may be delayed and overtaken.                *)
SendReply(s) ==
  /\ receivers[s].state = "streaming" /\ Cardinality(replies[s]) < MaxReplies
  /\ replies' = [replies EXCEPT ![s] = @ \cup
       {[write |-> receivers[s].write, flush |-> receivers[s].flush]}]
  /\ UNCHANGED <<side, wal, logicalVars, senders, receivers, sent, config>>

ApplyStandbyReply(s, m) ==
  LET i == WalSndGetByPid(s)
      w == senders[i]
  IN /\ i # 0
     /\ senders' = [senders EXCEPT ![i] =
          [w EXCEPT !.write = Max({w.write, m.write}), !.flush = Max({w.flush, m.flush})]]
     /\ replies' = [replies EXCEPT ![s] = @ \ {m}]
     /\ UNCHANGED <<side, wal, logicalVars, receivers, sent, config>>

(* The connection ends: WalSndRemove here; WalRcvStop there, where what    *)
(* was written but not flushed may be lost.                                *)
WalSndRemove(s) ==
  LET i == WalSndGetByPid(s)
  IN /\ i # 0
     /\ senders' = [j \in 1 .. Len(senders) - 1 |-> senders[IF j < i THEN j ELSE j + 1]]
     /\ receivers' = [receivers EXCEPT ![s].state = "stopped",
                                       ![s].receive = receivers[s].flush,
                                       ![s].write = receivers[s].flush]
     /\ replies' = [replies EXCEPT ![s] = {}]
     /\ UNCHANGED <<side, wal, logicalVars, sent, config>>

(* SyncRepConfigUpdate: a count above the number of names is refused.      *)
SyncRepConfigUpdate(c) ==
  /\ c # config /\ c.num <= Len(c.names)
  /\ config' = c
  /\ UNCHANGED <<side, wal, logicalVars, senders, receivers, sent, replies>>

(* Mutant: what the standby has only written counts.                       *)
CountWritten(lsn) ==
  Cardinality({k \in DOMAIN config.names :
    \E i \in DOMAIN senders :
      /\ config.names[k] \in {"*", AppName[senders[i].pid]}
      /\ senders[i].write >= lsn})

(* A name counts once, at the first of its senders that has flushed.       *)
SyncRepCountAcked(lsn) ==
  Cardinality({k \in DOMAIN config.names :
    \E i \in DOMAIN senders :
      /\ config.names[k] \in {"*", AppName[senders[i].pid]}
      /\ senders[i].flush >= lsn})

SyncRepIsSatisfied(lsn) == config.num = 0 \/ SyncRepCountAcked(lsn) >= config.num

Physical ==
  \/ XLogInsert("other")
  \/ \E s \in Standbys :
       \/ WalRcvStart(s) \/ WalSndStreamWal(s) \/ WalSndRemove(s)
       \/ \E kind \in {"receive", "write", "flush"} : WalRcvReportLsn(s, kind)
       \/ SendReply(s)
       \/ \E m \in replies[s] : ApplyStandbyReply(s, m)
  \/ \E c \in Configs : SyncRepConfigUpdate(c)

Next ==
  \/ side = "logical" /\ Logical
  \/ side = "physical" /\ Physical

Spec == Init /\ [][Next]_vars

-----------------------------------------------------------------------------
(* PgLogicalSlotGetChanges never passes over a change: every message or    *)
(* commit from the slot's creation up to its position has been returned,   *)
(* except for what was skipped by hand; and the position is on disk, so    *)
(* the same holds of a process that starts now.                            *)
NoChangeLost ==
  \A n \in DOMAIN slots : slots[n].type = "logical" =>
    /\ \A i \in DOMAIN wal :
         (/\ Decodes(wal[i])
          /\ LsnOf(i) >= Max({slots[n].restart_lsn, skipped[n]})
          /\ LsnOf(i) < slots[n].confirmed_flush_lsn) => LsnOf(i) \in delivered[n]
    /\ files[n].confirmed_flush_lsn = slots[n].confirmed_flush_lsn

(* SyncRepIsSatisfied, however replies are delayed and reordered and       *)
(* standbys come and go: if every name is listed once, a commit that is    *)
(* reported as replicated is on the disks of as many standbys as the       *)
(* configuration asks for.                                                 *)
AckedIsFlushed ==
  \A lsn \in Lsns \ {0} :
    (/\ SyncRepIsSatisfied(lsn)
     /\ "*" \notin Range(config.names)
     /\ \A i, j \in DOMAIN config.names : config.names[i] = config.names[j] => i = j) =>
      Cardinality({s \in Standbys : /\ AppName[s] \in Range(config.names)
                                    /\ receivers[s].flush >= lsn}) >= config.num

(* "Wildcard * matches any standby" (include/replication/syncrep.hpp): the *)
(* count is one of standbys.  The code counts the entries of the list, so  *)
(* that one standby can stand for several.                                 *)
AckedByDistinct ==
  \A lsn \in Lsns \ {0} : SyncRepIsSatisfied(lsn) =>
    Cardinality({s \in Standbys : receivers[s].flush >= lsn}) >= config.num
=============================================================================
