-------------------------------- MODULE Wal --------------------------------
(***************************************************************************)
(* The write-ahead log: records are assembled and written by XLogInsert    *)
(* (src/transaction/xloginsert.cpp, xlog.cpp) to the end of one file that  *)
(* all processes append to, made durable by XLogFlush, and read back after *)
(* a restart by the reader and PerformCrashRecovery (xlogreader.cpp,       *)
(* xlogrecovery.cpp, src/server/startup.cpp).                              *)
(*                                                                         *)
(* A record is one to three pieces, each a write() of its own: the header, *)
(* the backup blocks, the data.  The file is a sequence of pieces.  A      *)
(* piece that was cut in the middle is Junk; bytes that are not a whole    *)
(* record fail the reader's length or CRC test.                            *)
(***************************************************************************)
EXTENDS Integers, Sequences, SequencesExt

CONSTANTS Procs,       \* processes that write to the log
          MaxRecords,  \* bound: records inserted
          MaxStarts    \* bound: starts of the server

VARIABLES
  file,     \* wal.log
  synced,   \* pieces of it that an fsync has made durable
  buffer,   \* WalBuffer as InitializeWal loaded it
  insert,   \* per process: the record being written and its next piece
  up,       \* the server runs
  records,  \* number of records begun
  starts,   \* number of starts
  flushed,  \* history: records complete in the file at some fsync
  torn      \* history: a record was left incomplete or mixed with another

vars == <<file, synced, buffer, insert, up, records, starts, flushed, torn>>

Idle == [rec |-> 0, pieces |-> 0, piece |-> 0]
Junk == Idle

Init ==
  /\ file = <<>> /\ synced = 0 /\ buffer = <<>>
  /\ insert = [p \in Procs |-> Idle]
  /\ up = FALSE /\ records = 0 /\ starts = 0
  /\ flushed = {} /\ torn = FALSE

-----------------------------------------------------------------------------
(* Reading.                                                                *)

(* Mutant: a record that ends with the log is taken for truncated.         *)
ReadShort(log, lsn) ==
  LET n == log[lsn].pieces IN
  /\ log[lsn].piece = 1
  /\ lsn + n - 1 < Len(log)
  /\ \A i \in 1 .. n : log[lsn + i - 1] = [log[lsn] EXCEPT !.piece = i]

(* ReadAndDecodeRecord: there is a header, there are as many bytes as it   *)
(* says, and they are the record's.                                        *)
ReadAndDecodeRecord(log, lsn) ==
  LET n == log[lsn].pieces IN
  /\ log[lsn].piece = 1
  /\ lsn + n - 1 <= Len(log)
  /\ \A i \in 1 .. n : log[lsn + i - 1] = [log[lsn] EXCEPT !.piece = i]

(* PerformCrashRecoveryFrom: record after record until XLogReadRecord      *)
(* reports the end of the log.                                             *)
RECURSIVE RecoveryFrom(_, _)
RecoveryFrom(log, lsn) ==
  IF lsn > Len(log) \/ ~ReadAndDecodeRecord(log, lsn) THEN <<>>
  ELSE <<log[lsn].rec>> \o RecoveryFrom(log, lsn + log[lsn].pieces)

PerformCrashRecovery(log) == RecoveryFrom(log, 1)

-----------------------------------------------------------------------------
(* InitializeWal: the whole file is loaded, and appended to from its end.  *)
InitializeWal ==
  /\ ~up /\ starts < MaxStarts
  /\ up' = TRUE /\ starts' = starts + 1
  /\ buffer' = file
  /\ UNCHANGED <<file, synced, insert, records, flushed, torn>>

(* XLogInsert begins: the record's pieces are decided.                     *)
XLogInsert(p, pieces) ==
  /\ up /\ insert[p] = Idle /\ records < MaxRecords
  /\ records' = records + 1
  /\ insert' = [insert EXCEPT ![p] =
                  [rec |-> records + 1, pieces |-> pieces, piece |-> 1]]
  /\ UNCHANGED <<file, synced, buffer, up, starts, flushed, torn>>

Follows(piece) ==
  IF piece.piece = 1
  THEN file = <<>> \/ Last(file).piece = Last(file).pieces
  ELSE file # <<>> /\ Last(file) = [piece EXCEPT !.piece = @ - 1]

Advanced(i) == IF i.piece = i.pieces THEN Idle ELSE [i EXCEPT !.piece = @ + 1]

(* XLogWriteRaw: the next piece goes to the end of the file, wherever that *)
(* is by now.                                                              *)
XLogWriteRaw(p) ==
  /\ up /\ insert[p] # Idle
  /\ file' = Append(file, insert[p])
  /\ torn' = (torn \/ ~Follows(insert[p]))
  /\ insert' = [insert EXCEPT ![p] = Advanced(@)]
  /\ UNCHANGED <<synced, buffer, up, records, starts, flushed>>

(* A write fails part way, with some bytes in the file or none.  The       *)
(* result of WriteAllToFd is not looked at and the insert goes on.         *)
WriteFails(p) ==
  /\ up /\ insert[p] # Idle
  /\ \/ file' = Append(file, Junk)
     \/ file' = file
  /\ torn' = TRUE
  /\ insert' = [insert EXCEPT ![p] = Advanced(@)]
  /\ UNCHANGED <<synced, buffer, up, records, starts, flushed>>

Complete(log) ==
  {log[i].rec : i \in {j \in 1 .. Len(log) :
     log[j] # Junk /\ \A k \in 1 .. log[j].pieces :
                        \E l \in 1 .. Len(log) : log[l] = [log[j] EXCEPT !.piece = k]}}

(* XLogFlush, by whatever process: fsync of the file.                      *)
XLogFlush ==
  /\ up
  /\ synced' = Len(file)
  /\ flushed' = flushed \cup Complete(file)
  /\ UNCHANGED <<file, buffer, insert, up, records, starts, torn>>

(* A process is killed while it writes a record.                           *)
ProcDie(p) ==
  /\ up /\ insert[p] # Idle
  /\ torn' = (torn \/ insert[p].piece > 1)
  /\ insert' = [insert EXCEPT ![p] = Idle]
  /\ UNCHANGED <<file, synced, buffer, up, records, starts, flushed>>

(* The machine stops: the file keeps what was synced and some more, the    *)
(* last piece perhaps only in part.                                        *)
Crash ==
  /\ up
  /\ up' = FALSE
  /\ insert' = [p \in Procs |-> Idle]
  /\ \E n \in synced .. Len(file) :
       LET left == SubSeq(file, 1, n) IN
       \/ /\ file' = left
          /\ torn' = (torn \/ (left # <<>> /\ Last(left).piece # Last(left).pieces))
       \/ /\ n < Len(file)
          /\ file' = Append(left, Junk)
          /\ torn' = TRUE
  /\ synced' = Len(file')
  /\ UNCHANGED <<buffer, records, starts, flushed>>

(* The server stops and is not in the middle of a record.                  *)
ShutdownWal ==
  /\ up /\ \A p \in Procs : insert[p] = Idle
  /\ up' = FALSE
  /\ UNCHANGED <<file, synced, buffer, insert, records, starts, flushed, torn>>

Next ==
  \/ InitializeWal \/ XLogFlush \/ Crash \/ ShutdownWal
  \/ \E p \in Procs :
       \/ \E n \in 1 .. 3 : XLogInsert(p, n)
       \/ XLogWriteRaw(p) \/ WriteFails(p) \/ ProcDie(p)

Spec == Init /\ [][Next]_vars

-----------------------------------------------------------------------------
(* As long as no record was left incomplete or mixed with another, what    *)
(* recovery replays from the file is every record that was complete at an  *)
(* fsync, each once, after any number of crashes (PerformCrashRecovery,    *)
(* XLogFlush).                                                             *)
FlushedReplayed ==
  LET redo == PerformCrashRecovery(file) IN
  ~torn => /\ flushed \subseteq ToSet(redo)
           /\ \A i, j \in 1 .. Len(redo) : i # j => redo[i] # redo[j]

(* xlog.cpp: InitializeWal "loads the file back into the buffer so crash   *)
(* recovery works across process restarts.  XLogFlush() fsyncs the file":  *)
(* a record that XLogFlush has made durable is replayed after a restart.   *)
(* The code does not cut the incomplete record a crash leaves, appends     *)
(* after it, and the reader stops at it.                                   *)
FlushedSurvives ==
  up => flushed \cap Complete(buffer) \subseteq ToSet(PerformCrashRecovery(buffer))
=============================================================================
