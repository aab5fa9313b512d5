------------------------------ MODULE ProcPool -----------------------------
(***************************************************************************)
(* The shared pool of PGPROC slots and the ProcArray that lists the slots  *)
(* in use: InitProcess, ProcGlobalInit and ProcKill of                     *)
(* src/storage/ipc/proc.cpp, ProcArrayAdd and ProcArrayRemove of           *)
(* src/transaction/procarray.cpp, and the accept loop of                   *)
(* src/server/postmaster.cpp that forks, admits and reaps backends.        *)
(*                                                                         *)
(* The head of the freelist is a static variable, so each process has its  *)
(* own.  A new backend rebuilds it from the slots' pid fields before it    *)
(* takes kProcArrayLock: one step per slot.  What follows under the lock   *)
(* is a single step.                                                       *)
(***************************************************************************)
EXTENDS Integers, Sequences, FiniteSets, TLC

CONSTANTS Backends,        \* processes that may be forked
          kMaxBackends,    \* slots in the pool
          max_connections  \* children the postmaster allows at once

ASSUME PoolAssumption ==
  /\ kMaxBackends \in Nat \ {0}
  /\ max_connections \in Nat

ASSUME BackendsAssumption == IsFiniteSet(Backends)

Slots  == 0 .. kMaxBackends - 1
NoSlot == -1
NoPid  == "none"

VARIABLES
  pid,        \* the pid field of each slot, NoPid for the code's 0
  pgprocnos,  \* the ProcArray, numProcs entries long
  state,      \* what each process is doing
  next,       \* the next slot its freelist scan reads, going down
  head,       \* its own g_proc_freelist
  MyProc      \* its own slot

vars == <<pid, pgprocnos, state, next, head, MyProc>>

TypeOK ==
  /\ pid \in [Slots -> Backends \cup {NoPid}]
  /\ pgprocnos \in Seq(Slots) /\ Len(pgprocnos) <= kMaxBackends
  /\ state \in [Backends -> {"absent", "scan", "claim", "main", "exited"}]
  /\ next \in [Backends -> Slots \cup {NoSlot}]
  /\ head \in [Backends -> Slots \cup {NoSlot}]
  /\ MyProc \in [Backends -> Slots \cup {NoSlot}]

(* The postmaster has run ProcGlobalInit and InitializeProcArray.          *)
Init ==
  /\ pid = [s \in Slots |-> NoPid]
  /\ pgprocnos = <<>>
  /\ state = [b \in Backends |-> "absent"]
  /\ next = [b \in Backends |-> NoSlot]
  /\ head = [b \in Backends |-> NoSlot]
  /\ MyProc = [b \in Backends |-> NoSlot]

Goto(b, s) == state' = [state EXCEPT ![b] = s]

-----------------------------------------------------------------------------
(* The postmaster.                                                         *)

active_children == Cardinality({b \in Backends : state[b] # "absent"})

(* Run admits a connection and AcceptAndFork forks; the child enters       *)
(* InitProcess, whose ProcGlobalInit begins to rebuild the freelist.       *)
AcceptAndFork(b) ==
  /\ state[b] = "absent"
  /\ active_children < max_connections
  /\ Goto(b, "scan")
  /\ next' = [next EXCEPT ![b] = kMaxBackends - 1]
  /\ head' = [head EXCEPT ![b] = NoSlot]
  /\ UNCHANGED <<pid, pgprocnos, MyProc>>

ReapChildren(b) ==
  /\ state[b] = "exited"
  /\ Goto(b, "absent")
  /\ UNCHANGED <<pid, pgprocnos, next, head, MyProc>>

-----------------------------------------------------------------------------
(* ProcGlobalInit reads one slot: a free one becomes the head of the list. *)
ProcGlobalInit(b) ==
  /\ state[b] = "scan"
  /\ head' = IF pid[next[b]] = NoPid THEN [head EXCEPT ![b] = next[b]] ELSE head
  /\ next' = [next EXCEPT ![b] = @ - 1]
  /\ Goto(b, IF next[b] = 0 THEN "claim" ELSE "scan")
  /\ UNCHANGED <<pid, pgprocnos, MyProc>>

numProcs == Len(pgprocnos)

ProcArrayAdd(s) ==
  pgprocnos' = IF numProcs < kMaxBackends THEN Append(pgprocnos, s)
               ELSE pgprocnos

Listed(s) == {i \in 1 .. numProcs : pgprocnos[i] = s}

(* Mutant: the entry is cut off the end and not overwritten by the last.   *)
RemoveLast(s) ==
  pgprocnos' = IF Listed(s) = {} THEN pgprocnos
               ELSE SubSeq(pgprocnos, 1, numProcs - 1)

(* Mutant: the last entry is cleared and still counted.                    *)
RemoveWithoutDecrement(s) ==
  IF Listed(s) = {} THEN UNCHANGED pgprocnos
  ELSE LET i == CHOOSE i \in Listed(s) : \A j \in Listed(s) : i <= j
       IN  pgprocnos' = [pgprocnos EXCEPT ![i] = pgprocnos[numProcs],
                                          ![numProcs] = NoSlot]

(* The first entry for s is overwritten by the last one.                   *)
ProcArrayRemove(s) ==
  IF Listed(s) = {} THEN UNCHANGED pgprocnos
  ELSE LET i == CHOOSE i \in Listed(s) : \A j \in Listed(s) : i <= j
       IN  pgprocnos' = SubSeq([pgprocnos EXCEPT ![i] = pgprocnos[numProcs]],
                               1, numProcs - 1)

(* InitProcess under kProcArrayLock: it takes the head of its own list.    *)
(* Without one it returns nullptr, and the backend serves its client       *)
(* without a slot.                                                         *)
InitProcess(b) ==
  /\ state[b] = "claim"
  /\ Goto(b, "main")
  /\ MyProc' = [MyProc EXCEPT ![b] = head[b]]
  /\ IF head[b] = NoSlot
       THEN UNCHANGED <<pid, pgprocnos>>
       ELSE /\ pid' = [pid EXCEPT ![head[b]] = b]
            /\ ProcArrayAdd(head[b])
  /\ UNCHANGED <<next, head>>

(* Mutant: the slot is not marked free.                                    *)
ProcKillKeepsPid(b) ==
  /\ state[b] = "main"
  /\ Goto(b, "exited")
  /\ MyProc' = [MyProc EXCEPT ![b] = NoSlot]
  /\ IF MyProc[b] = NoSlot THEN UNCHANGED pgprocnos ELSE ProcArrayRemove(MyProc[b])
  /\ UNCHANGED <<pid, next, head>>

(* The client is gone: ProcKill gives the slot back and the process exits. *)
ProcKill(b) ==
  /\ state[b] = "main"
  /\ Goto(b, "exited")
  /\ MyProc' = [MyProc EXCEPT ![b] = NoSlot]
  /\ IF MyProc[b] = NoSlot
       THEN UNCHANGED <<pid, pgprocnos>>
       ELSE /\ pid' = [pid EXCEPT ![MyProc[b]] = NoPid]
            /\ ProcArrayRemove(MyProc[b])
  /\ UNCHANGED <<next, head>>

Next ==
  \E b \in Backends :
    AcceptAndFork(b) \/ ProcGlobalInit(b) \/ InitProcess(b) \/ ProcKill(b)
    \/ ReapChildren(b)

Spec == Init /\ [][Next]_vars

-----------------------------------------------------------------------------
Holders(s) == {b \in Backends : MyProc[b] = s}

(* Snapshots and GetOldestXmin look at the right slots: the array lists    *)
(* each slot exactly as often as a running backend uses it, whatever the   *)
(* order in which backends come and go and even when two of them got the   *)
(* same slot (procarray.cpp:87-123).                                       *)
EntriesMatchHolders ==
  \A s \in Slots : Cardinality(Listed(s)) = Cardinality(Holders(s))

(* No slot is lost: one that is marked used is used by the backend whose   *)
(* pid it carries, so a pool without backends is a free pool.              *)
NoSlotLost ==
  \A s \in Slots : pid[s] # NoPid => MyProc[pid[s]] = s

(* What the code's comments claim and the model refutes: "InitProcess      *)
(* claims a slot from the freelist under kProcArrayLock" (proc.cpp:6-7).   *)
(* The list is built before the lock is taken, and two backends that start *)
(* together may claim one slot.                                            *)
SlotExclusive ==
  \A b, c \in Backends : b # c /\ MyProc[b] # NoSlot => MyProc[b] # MyProc[c]


(* The backends are interchangeable.                                       *)
Symmetric == Permutations(Backends)
=============================================================================
