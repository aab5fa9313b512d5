-------------------------------- MODULE Ssi --------------------------------
(***************************************************************************)
(* Serializable transactions: predicate locks                              *)
(* (src/storage/ipc/predicate.cpp) and the search for dangerous structures *)
(* among read-write conflicts (src/transaction/ssi.cpp).                   *)
(*                                                                         *)
(* One relation with one page; a tag is the relation, the page or a tuple. *)
(* ereport(ERROR) leaves the transaction failed: all it can do is abort.   *)
(***************************************************************************)
EXTENDS Integers, Sequences, FiniteSetsExt

CONSTANTS Xids,      \* serializable transactions
          Tuples,    \* tuples of the page
          MaxLocks   \* bound: predicate locks in the store

VARIABLES
  locks,      \* Locks(): sequence of [xid, tag]
  in, out,    \* per transaction: readers of in_conflicts, writers of out_conflicts
  status,      \* "none", "active", "failed", "committed" or "aborted"
  readOnly,   \* the transactions registered as READ ONLY
  dangerous   \* the transactions flagged

ssiVars == <<locks, in, out, status, readOnly, dangerous>>

Tags == Tuples \cup {"page", "relation"}

SsiTypeOK ==
  /\ locks \in Seq([xid : Xids, tag : Tags])
  /\ in \in [Xids -> Seq(Xids)] /\ out \in [Xids -> Seq(Xids)]
  /\ status \in [Xids -> {"none", "active", "failed", "committed", "aborted"}]
  /\ readOnly \subseteq Xids /\ dangerous \subseteq Xids

SsiInit ==
  /\ locks = <<>>
  /\ in = [x \in Xids |-> <<>>] /\ out = [x \in Xids |-> <<>>]
  /\ status = [x \in Xids |-> "none"]
  /\ readOnly = {} /\ dangerous = {}

(* Xacts(): the transactions FindXact finds.                               *)
Xacts       == {x \in Xids : status[x] # "none"}
Finished(x) == status[x] \in {"committed", "aborted"}

RegisterSerializableTransaction(x, ro) ==
  /\ status[x] = "none"
  /\ status' = [status EXCEPT ![x] = "active"]
  /\ readOnly' = IF ro THEN readOnly \cup {x} ELSE readOnly
  /\ UNCHANGED <<locks, in, out, dangerous>>

(* PredicateLockTuple, -Page, -Relation.                                   *)
Acquire(x, tag) ==
  /\ status[x] = "active"
  /\ Len(locks) < MaxLocks
  /\ [xid |-> x, tag |-> tag] \notin Range(locks)
  /\ locks' = Append(locks, [xid |-> x, tag |-> tag])
  /\ UNCHANGED <<in, out, status, readOnly, dangerous>>

PredicateLockRelease(x) == SelectSeq(locks, LAMBDA l : l.xid # x)

MatchesTag(tag, tuple) == tag \in {"relation", "page", tuple}

(* The conflict lists and flags while a writer goes through the locks.     *)
Conflicts == [in |-> in, out |-> out, dangerous |-> dangerous, failed |-> FALSE]

AddRWConflict(c, reader, writer) ==
  IF writer \in Range(c.out[reader]) THEN c
  ELSE [c EXCEPT !.out[reader] = Append(@, writer),
                 !.in[writer] = Append(@, reader)]

(* The first member of a conflict list that satisfies Test, as a set.      *)
FirstOf(s, Test(_)) ==
  LET I == {i \in DOMAIN s : Test(s[i])} IN IF I = {} THEN {} ELSE {s[Min(I)]}

(* x is T2: T1 -> x -> T3 and T1 has finished.                             *)
PivotTriple(c, x) ==
  UNION {{t1, x, Head(c.out[x])} : t1 \in IF c.out[x] = <<>> THEN {} ELSE FirstOf(c.in[x], Finished)}

(* x is T3: T1 -> T2 -> x, and T1 and T2 have finished.                    *)
LastTriple(c, x) ==
  LET Closes(t2) == Finished(t2) /\ FirstOf(c.in[t2], Finished) # {}
  IN  UNION {FirstOf(c.in[t2], Finished) \cup {t2, x} : t2 \in FirstOf(c.in[x], Closes)}

(* x is T1: x -> T2 -> T3, and x and T2 have finished.                     *)
FirstTriple(c, x) ==
  LET Opens(t2) == Finished(t2) /\ c.out[t2] # <<>>
  IN  UNION {{x, t2, Head(c.out[t2])} :
               t2 \in IF Finished(x) THEN FirstOf(c.out[x], Opens) ELSE {}}

(* Mutant: a committing transaction is never looked at as the pivot.       *)
OnlyOuter(c, x) ==
  [c EXCEPT !.dangerous = @ \cup IF LastTriple(c, x) # {} THEN LastTriple(c, x)
                                 ELSE FirstTriple(c, x)]

(* The cases in order, each of which returns; MarkDangerous flags all      *)
(* three transactions.                                                     *)
CheckForDangerousStructure(c, x) ==
  [c EXCEPT !.dangerous = @ \cup IF PivotTriple(c, x) # {} THEN PivotTriple(c, x)
                                 ELSE IF LastTriple(c, x) # {} THEN LastTriple(c, x)
                                 ELSE FirstTriple(c, x)]

(* OnConflict_CheckForSerializationFailure raises the error.               *)
Checked(c, x) ==
  LET d == CheckForDangerousStructure(c, x)
  IN  [d EXCEPT !.failed = x \in d.dangerous]

(* One lock seen by a write of x: held by another transaction that did not *)
(* abort, and covering the tuple, it becomes a conflict.  An error ends    *)
(* the loop over the locks.                                                *)
Visit(c, l, x, tuple) ==
  IF \/ c.failed \/ l.xid = x \/ l.xid \notin Xacts
     \/ status[l.xid] = "aborted" \/ ~MatchesTag(l.tag, tuple)
  THEN c ELSE Checked(AddRWConflict(c, l.xid, x), x)

(* The loop.                                                               *)
Visited(x, tuple) ==
  LET walk[i \in 0 .. Len(locks)] ==
        IF i = 0 THEN Conflicts ELSE Visit(walk[i-1], locks[i], x, tuple)
  IN  walk[Len(locks)]

CheckForSerializableConflict(x, tuple) ==
  LET c == Visited(x, tuple)
  IN  /\ status[x] = "active" /\ x \notin readOnly
      /\ in' = c.in /\ out' = c.out /\ dangerous' = c.dangerous
      /\ status' = IF c.failed THEN [status EXCEPT ![x] = "failed"] ELSE status
      /\ UNCHANGED <<locks, readOnly>>

(* COMMIT: the check comes before the transaction counts as finished; its  *)
(* locks stay.                                                             *)
Commit(x) ==
  LET c == Checked(Conflicts, x)
  IN  /\ status[x] = "active"
      /\ dangerous' = c.dangerous
      /\ status' = [status EXCEPT ![x] = IF c.failed THEN "failed" ELSE "committed"]
      /\ UNCHANGED <<locks, in, out, readOnly>>

Abort(x) ==
  /\ status[x] \in {"active", "failed"}
  /\ status' = [status EXCEPT ![x] = "aborted"]
  /\ locks' = PredicateLockRelease(x)
  /\ UNCHANGED <<in, out, readOnly, dangerous>>

SsiNext ==
  \E x \in Xids :
    \/ \E ro \in BOOLEAN : RegisterSerializableTransaction(x, ro)
    \/ \E tag \in Tags : Acquire(x, tag)
    \/ \E tuple \in Tuples : CheckForSerializableConflict(x, tuple)
    \/ Commit(x)
    \/ Abort(x)

SsiSpec == SsiInit /\ [][SsiNext]_ssiVars

-----------------------------------------------------------------------------

Conflict(a, b) == b \in Range(out[a])
CommittedXids == {x \in Xids : status[x] = "committed"}

(* The read-write conflicts among committed transactions have no cycle:    *)
(* the last transaction of a cycle to commit has a conflict from one that  *)
(* has finished and a conflict of its own, and fails.                      *)
CommittedAcyclic ==
  \A S \in (SUBSET CommittedXids) \ {{}} : \E a \in S : \A b \in S : ~Conflict(a, b)

=============================================================================
