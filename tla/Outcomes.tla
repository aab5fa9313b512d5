------------------------------ MODULE Outcomes ------------------------------
(***************************************************************************)
(* What transam.hpp promises of transaction IDs: each is handed out once,  *)
(* in order, and is decided at most once, while its transaction is open.   *)
(* Every change is one indivisible step.  How the XID is published, logged *)
(* and listed on the way is not part of the promise.                       *)
(***************************************************************************)
EXTENDS Integers

CONSTANT Xids     \* the XIDs that can be handed out: an interval

VARIABLES next,      \* the next one
          open,      \* those handed out whose transaction can still be decided
          outcome    \* what the commit log says of each

vars == <<next, open, outcome>>

Init ==
  /\ next \in Xids /\ next - 1 \notin Xids
  /\ open = {}
  /\ outcome = [x \in Xids |-> "kInProgress"]

Assign ==
  /\ next \in Xids
  /\ next' = next + 1
  /\ open' = open \cup {next}
  /\ UNCHANGED outcome

Decide(x, status) ==
  /\ outcome[x] = "kInProgress"
  /\ open' = open \ {x}
  /\ outcome' = [outcome EXCEPT ![x] = status]
  /\ UNCHANGED next

(* Transactions end without a decision and stay in progress for good.      *)
Abandon(lost) ==
  /\ open' = open \ lost
  /\ UNCHANGED <<next, outcome>>

Decision == \E x \in open, status \in {"kCommitted", "kAborted"} : Decide(x, status)

(* Backends that may vanish, and a log that may run out of room.           *)
Next == Assign \/ Decision \/ \E lost \in SUBSET open : Abandon(lost)

Spec == Init /\ [][Next]_vars

(* One backend that lives on: every transaction it starts it can decide.   *)
LosslessSpec == Init /\ [][Assign \/ Decision]_vars
=============================================================================
