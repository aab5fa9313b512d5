------------------------------- MODULE RWLock -------------------------------
(***************************************************************************)
(* What lwlock.hpp promises the callers of a lightweight lock: a set of    *)
(* backends holds it, one alone in kExclusive ("single writer, no other    *)
(* holders") or any number in kShared ("multiple readers, no writers").    *)
(* Each change is one indivisible step.  The recursion count of a backend  *)
(* is not part of the promise.                                             *)
(***************************************************************************)
CONSTANTS Procs

VARIABLE holding   \* the mode each backend holds the lock in

Grant(p, m) == holding[p] = "NotHeld" /\ holding' = [holding EXCEPT ![p] = m]

GrantExclusive(p) ==
  /\ \A q \in Procs : holding[q] = "NotHeld"
  /\ Grant(p, "kExclusive")

GrantShared(p) ==
  /\ \A q \in Procs : holding[q] # "kExclusive"
  /\ Grant(p, "kShared")

Release(p) ==
  /\ holding[p] # "NotHeld"
  /\ holding' = [holding EXCEPT ![p] = "NotHeld"]

Init == holding = [p \in Procs |-> "NotHeld"]

Next == \E p \in Procs : GrantExclusive(p) \/ GrantShared(p) \/ Release(p)

Spec == Init /\ [][Next]_holding
=============================================================================
