------------------------------ MODULE IpcProofs -----------------------------
(***************************************************************************)
(* Two structures of src/storage/ipc that processes share.                 *)
(*                                                                         *)
(* ProcPool: no slot of the pool is lost and the ProcArray lists the slots *)
(* in use, for any number of slots and of backends.                        *)
(*                                                                         *)
(* Ssi: the conflicts among committed transactions have no cycle, for any  *)
(* number of transactions, tuples and predicate locks.                     *)
(***************************************************************************)
EXTENDS ProcPool, Ssi, FiniteSetTheorems, SequenceTheorems,
        WellFoundedInduction, TLAPS

(* A backend in the scan has a slot left to read; a backend that is not    *)
(* serving a client holds no slot.                                         *)
Phases ==
  \A b \in Backends :
    /\ state[b] = "scan" => next[b] \in Slots
    /\ state[b] # "main" => MyProc[b] = NoSlot

PoolInv == TypeOK /\ Phases /\ NoSlotLost

(* Adding and removing an entry keep a ProcArray of slots within its size. *)
LEMMA ArrayTyped ==
  ASSUME TypeOK, NEW s \in Slots, ProcArrayAdd(s) \/ ProcArrayRemove(s)
  PROVE  pgprocnos' \in Seq(Slots) /\ Len(pgprocnos') <= kMaxBackends
<1>. USE PoolAssumption
<1>. pgprocnos \in Seq(Slots) /\ Len(pgprocnos) <= kMaxBackends
  BY DEF TypeOK
<1>1. CASE ProcArrayAdd(s)
  BY <1>1 DEF ProcArrayAdd, numProcs
<1>2. CASE ProcArrayRemove(s) /\ Listed(s) = {}
  BY <1>2 DEF ProcArrayRemove
<1>3. CASE ProcArrayRemove(s) /\ Listed(s) # {}
  <2>. DEFINE i == CHOOSE i \in Listed(s) : \A j \in Listed(s) : i <= j
              q == [pgprocnos EXCEPT ![i] = pgprocnos[numProcs]]
  <2>1. numProcs \in 1 .. kMaxBackends
    BY <1>3 DEF Listed, numProcs
  <2>2. pgprocnos[numProcs] \in Slots
    BY <2>1 DEF numProcs
  <2>3. q \in Seq(Slots) /\ Len(q) = numProcs
    <3>1. pgprocnos \in [1 .. numProcs -> Slots] /\ numProcs \in Nat
      BY DEF numProcs
    <3>2. q \in [1 .. numProcs -> Slots]
      BY <2>2, <3>1, Zenon
    <3>. HIDE DEF q
    <3>. QED
      BY <3>1, <3>2
  <2>4. pgprocnos' = SubSeq(q, 1, numProcs - 1)
    BY <1>3 DEF ProcArrayRemove
  <2>. HIDE DEF q
  <2>. QED
    BY <2>1, <2>3, <2>4
<1>. QED
  BY <1>1, <1>2, <1>3

(* The pool starts free.                                                   *)
LEMMA PoolInit == Init => PoolInv
<1>. USE PoolAssumption
<1>. QED
  BY DEF Init, PoolInv, TypeOK, Phases, NoSlotLost, Slots, NoSlot

(* Every step of the postmaster and of a backend preserves the invariant.  *)
LEMMA PoolStep == PoolInv /\ [Next]_vars => PoolInv'
<1>. SUFFICES ASSUME PoolInv, [Next]_vars PROVE PoolInv'
  OBVIOUS
<1>. USE PoolAssumption DEF PoolInv, Goto
<1>1. ASSUME NEW b \in Backends, AcceptAndFork(b) PROVE PoolInv'
  BY <1>1 DEF AcceptAndFork, TypeOK, Phases, NoSlotLost, Slots
<1>2. ASSUME NEW b \in Backends, ReapChildren(b) PROVE PoolInv'
  BY <1>2 DEF ReapChildren, TypeOK, Phases, NoSlotLost
<1>3. ASSUME NEW b \in Backends, ProcGlobalInit(b) PROVE PoolInv'
  BY <1>3 DEF ProcGlobalInit, TypeOK, Phases, NoSlotLost, Slots, NoSlot
<1>4. ASSUME NEW b \in Backends, InitProcess(b) PROVE PoolInv'
  <2>1. CASE head[b] = NoSlot
    BY <1>4, <2>1 DEF InitProcess, TypeOK, Phases, NoSlotLost
  <2>2. CASE head[b] # NoSlot
    <3>1. head[b] \in Slots
      BY <2>2 DEF TypeOK
    <3>2. pgprocnos' \in Seq(Slots) /\ Len(pgprocnos') <= kMaxBackends
      BY <1>4, <2>2, <3>1, ArrayTyped DEF InitProcess
    <3>3. TypeOK'
      BY <1>4, <2>2, <3>1, <3>2 DEF InitProcess, TypeOK
    <3>4. Phases'
      BY <1>4 DEF InitProcess, TypeOK, Phases
    <3>5. MyProc[b] = NoSlot /\ NoSlot \notin Slots
      BY <1>4 DEF InitProcess, Phases, Slots, NoSlot
    <3>6. NoSlotLost'
      BY <1>4, <2>2, <3>1, <3>5 DEF InitProcess, TypeOK, NoSlotLost
    <3>. QED
      BY <3>3, <3>4, <3>6
  <2>. QED
    BY <2>1, <2>2
<1>5. ASSUME NEW b \in Backends, ProcKill(b) PROVE PoolInv'
  <2>1. CASE MyProc[b] = NoSlot
    BY <1>5, <2>1 DEF ProcKill, TypeOK, Phases, NoSlotLost
  <2>2. CASE MyProc[b] # NoSlot
    <3>1. MyProc[b] \in Slots
      BY <2>2 DEF TypeOK
    <3>2. pgprocnos' \in Seq(Slots) /\ Len(pgprocnos') <= kMaxBackends
      BY <1>5, <2>2, <3>1, ArrayTyped DEF ProcKill
    <3>3. TypeOK'
      BY <1>5, <2>2, <3>1, <3>2 DEF ProcKill, TypeOK
    <3>4. Phases'
      BY <1>5 DEF ProcKill, TypeOK, Phases
    <3>5. NoSlotLost'
      BY <1>5, <2>2, <3>1 DEF ProcKill, TypeOK, NoSlotLost
    <3>. QED
      BY <3>3, <3>4, <3>5
  <2>. QED
    BY <2>1, <2>2
<1>6. CASE UNCHANGED vars
  BY <1>6 DEF vars, TypeOK, Phases, NoSlotLost
<1>. QED
  BY <1>1, <1>2, <1>3, <1>4, <1>5, <1>6 DEF Next

(* The inductive invariant of the pool (proc.cpp:51-159).                  *)
THEOREM PoolInvariant == Spec => []PoolInv
<1>. QED
  BY PoolInit, PoolStep, PTL DEF Spec

(* A slot marked used is used by the backend whose pid it carries:         *)
(* InitProcess and ProcKill lose no slot, even when two backends claimed   *)
(* the same one.                                                           *)
THEOREM SlotsAreKept == Spec => []NoSlotLost
<1>1. PoolInv => NoSlotLost
  BY DEF PoolInv
<1>. QED
  BY <1>1, PoolInvariant, PTL

-----------------------------------------------------------------------------
(***************************************************************************)
(* The entries of the ProcArray.  Removing one moves the last into its     *)
(* place, and adding one is silently skipped when the array is full: that  *)
(* it never is takes the postmaster's limit on its children.               *)
(***************************************************************************)
Children == {b \in Backends : state[b] # "absent"}
Serving  == {b \in Backends : MyProc[b] # NoSlot}

EntriesInv ==
  /\ PoolInv
  /\ EntriesMatchHolders
  /\ numProcs = Cardinality(Serving)
  /\ Cardinality(Children) <= max_connections

LEMMA SetsAreFinite ==
  ASSUME TypeOK
  PROVE  /\ IsFiniteSet(Children) /\ Cardinality(Children) \in Nat
         /\ IsFiniteSet(Serving) /\ Cardinality(Serving) \in Nat
         /\ \A s : /\ IsFiniteSet(Holders(s)) /\ Cardinality(Holders(s)) \in Nat
                  /\ IsFiniteSet(Listed(s)) /\ Cardinality(Listed(s)) \in Nat
<1>1. ASSUME NEW S \in SUBSET Backends PROVE IsFiniteSet(S) /\ Cardinality(S) \in Nat
  <2>1. IsFiniteSet(S)
    BY BackendsAssumption, FS_Subset
  <2>2. QED
    BY <2>1, FS_CardinalityType
<1>2. numProcs \in Nat
  BY DEF TypeOK, numProcs
<1>3. ASSUME NEW S \in SUBSET (1 .. numProcs) PROVE IsFiniteSet(S) /\ Cardinality(S) \in Nat
  <2>1. IsFiniteSet(1 .. numProcs)
    BY <1>2, FS_Interval
  <2>2. IsFiniteSet(S)
    BY <2>1, FS_Subset, Zenon
  <2>3. QED
    BY <2>2, FS_CardinalityType
<1>4. Children \in SUBSET Backends /\ Serving \in SUBSET Backends
  BY DEF Children, Serving
<1>5. \A s : Holders(s) \in SUBSET Backends /\ Listed(s) \in SUBSET (1 .. numProcs)
  BY DEF Holders, Listed
<1>6. QED
  BY <1>1, <1>3, <1>4, <1>5

(* ProcArrayAdd with room for the entry.                                   *)
LEMMA AddCounts ==
  ASSUME TypeOK, NEW s \in Slots, ProcArrayAdd(s), numProcs < kMaxBackends
  PROVE  /\ numProcs' = numProcs + 1
         /\ Cardinality(Listed(s)') = Cardinality(Listed(s)) + 1
         /\ \A t : t # s => Listed(t)' = Listed(t)
<1>1. /\ pgprocnos' = Append(pgprocnos, s) /\ pgprocnos \in Seq(Slots)
      /\ numProcs = Len(pgprocnos) /\ numProcs \in Nat
  BY DEF ProcArrayAdd, TypeOK, numProcs
<1>2. /\ numProcs' = numProcs + 1 /\ pgprocnos'[numProcs + 1] = s
      /\ \A i \in 1 .. numProcs : pgprocnos'[i] = pgprocnos[i]
  BY <1>1 DEF numProcs
<1>3. \A t : Listed(t)' = IF t = s THEN Listed(t) \cup {numProcs + 1} ELSE Listed(t)
  BY <1>1, <1>2 DEF Listed
<1>4. numProcs + 1 \notin Listed(s)
  BY <1>1 DEF Listed
<1>5. Cardinality(Listed(s) \cup {numProcs + 1}) = Cardinality(Listed(s)) + 1
  BY <1>4, SetsAreFinite, FS_AddElement, Zenon
<1>6. QED
  BY <1>2, <1>3, <1>5, Zenon

LEMMA HasLowest ==
  ASSUME NEW S, S \subseteq Nat, S # {}
  PROVE  \E m \in S : \A y \in S : m <= y
<1> DEFINE R == {ss \in Nat \X Nat : ss[1] < ss[2]}
<1>1. IsWellFoundedOn(R, Nat)
  BY NatLessThanWellFounded DEF OpToRel
<1>2. \E m \in S : \A y \in S : ~(<<y, m>> \in R)
  <2> HIDE DEF R
  <2> QED  BY <1>1, WFMin
<1>3. PICK m \in S : \A y \in S : <<y, m>> \notin R
  BY <1>2
<1>4. ASSUME NEW y \in S PROVE m <= y
  <2>1. y \in Nat /\ m \in Nat
    OBVIOUS
  <2>2. <<y, m>> \in R <=> y < m
    BY <2>1
  <2>3. QED
    BY <1>3, <2>1, <2>2
<1>5. QED
  BY <1>4

(* ProcArrayRemove of a listed slot: the others keep their entries, though *)
(* the last one may move.                                                  *)
LEMMA RemoveCounts ==
  ASSUME TypeOK, NEW s \in Slots, ProcArrayRemove(s), Listed(s) # {}
  PROVE  /\ numProcs' = numProcs - 1
         /\ Cardinality(Listed(s)') = Cardinality(Listed(s)) - 1
         /\ \A t : t # s => Cardinality(Listed(t)') = Cardinality(Listed(t))
<1> DEFINE i == CHOOSE i \in Listed(s) : \A j \in Listed(s) : i <= j
           n == numProcs
           q == [pgprocnos EXCEPT ![i] = pgprocnos[n]]
<1>1. pgprocnos' = SubSeq(q, 1, n - 1)
  BY DEF ProcArrayRemove
<1>2. i \in Listed(s)
  <2>1. Listed(s) \subseteq Nat
    BY DEF Listed, TypeOK, numProcs
  <2>2. QED
    BY <2>1, HasLowest
<1> HIDE DEF i
<1>3. /\ pgprocnos \in [1 .. n -> Slots] /\ n \in Nat /\ i \in 1 .. n /\ pgprocnos[i] = s
  BY <1>2 DEF TypeOK, numProcs, Listed
<1>4. n - 1 \in Nat /\ n \in 1 .. n /\ n - 1 <= n /\ 1 .. n - 1 \subseteq 1 .. n
  BY <1>3
<1> HIDE DEF n
<1>5. q \in [1 .. n -> Slots] /\ \A j \in 1 .. n : q[j] = IF j = i THEN pgprocnos[n] ELSE pgprocnos[j]
  BY <1>3, <1>4
<1> HIDE DEF q
<1>6. q \in Seq(Slots) /\ Len(q) = n
  BY <1>3, <1>5
<1>7. Len(pgprocnos') = n - 1 /\ \A j \in 1 .. n - 1 : pgprocnos'[j] = q[j]
  BY <1>1, <1>4, <1>6
<1>8. numProcs' = n - 1
  BY <1>7 DEF numProcs
<1>9. \A t, j : j \in Listed(t) <=> j \in 1 .. n /\ pgprocnos[j] = t
  BY DEF Listed, n
<1>10. \A t, j : j \in Listed(t)' <=> /\ j \in 1 .. n - 1
                                     /\ (IF j = i THEN pgprocnos[n] ELSE pgprocnos[j]) = t
  BY <1>4, <1>5, <1>7, <1>8 DEF Listed
<1>11. \A j : j \in 1 .. n - 1 <=> j \in 1 .. n /\ j # n
  BY <1>3
<1>12. Cardinality(Listed(s)') = Cardinality(Listed(s)) - 1
  <2>1. CASE pgprocnos[n] = s
    <3>1. Listed(s)' = Listed(s) \ {n} /\ n \in Listed(s)
      BY <1>3, <1>4, <1>9, <1>10, <1>11, <2>1
    <3>2. QED
      BY <3>1, SetsAreFinite, FS_RemoveElement, Zenon
  <2>2. CASE pgprocnos[n] # s
    <3>1. Listed(s)' = Listed(s) \ {i}
      BY <1>3, <1>4, <1>9, <1>10, <1>11, <2>2
    <3>2. QED
      BY <1>2, <3>1, SetsAreFinite, FS_RemoveElement, Zenon
  <2>3. QED
    BY <2>1, <2>2
<1>13. ASSUME NEW t, t # s PROVE Cardinality(Listed(t)') = Cardinality(Listed(t))
  <2>1. CASE pgprocnos[n] = t
    <3>1. Listed(t)' = (Listed(t) \ {n}) \cup {i} /\ n \in Listed(t) /\ i \notin Listed(t) \ {n}
      BY <1>3, <1>4, <1>9, <1>10, <1>11, <1>13, <2>1
    <3>2. /\ IsFiniteSet(Listed(t) \ {n}) /\ Cardinality(Listed(t)) \in Nat
          /\ Cardinality(Listed(t) \ {n}) = Cardinality(Listed(t)) - 1
      BY <3>1, SetsAreFinite, FS_RemoveElement, Zenon
    <3>3. Cardinality((Listed(t) \ {n}) \cup {i}) = Cardinality(Listed(t) \ {n}) + 1
      BY <3>1, <3>2, FS_AddElement
    <3>4. QED
      BY <3>1, <3>2, <3>3
  <2>2. CASE pgprocnos[n] # t
    <3>1. \A j : j \in Listed(t)' <=> j \in Listed(t)
      BY <1>3, <1>9, <1>10, <1>11, <1>13, <2>2
    <3>2. Listed(t)' = Listed(t)
      BY <3>1
    <3>3. QED
      BY <3>2
  <2>3. QED
    BY <2>1, <2>2
<1>14. QED
  BY <1>8, <1>12, <1>13 DEF n

(* A backend that takes a slot is a child, and so are all that have one.   *)
LEMMA RoomLeft ==
  ASSUME EntriesInv, max_connections <= kMaxBackends, NEW b \in Backends, state[b] = "claim"
  PROVE  numProcs < kMaxBackends /\ b \notin Serving
<1>1. b \notin Serving /\ Serving \cup {b} \in SUBSET Children
  BY DEF EntriesInv, PoolInv, Phases, TypeOK, Serving, Children
<1>2. /\ IsFiniteSet(Children) /\ Cardinality(Children) \in Nat
      /\ IsFiniteSet(Serving) /\ Cardinality(Serving) \in Nat
  BY SetsAreFinite DEF EntriesInv, PoolInv
<1>3. Cardinality(Serving \cup {b}) = Cardinality(Serving) + 1
  BY <1>1, <1>2, FS_AddElement, Zenon
<1>4. Cardinality(Serving \cup {b}) <= Cardinality(Children)
  BY <1>1, <1>2, FS_Subset
<1>5. QED
  BY <1>1, <1>2, <1>3, <1>4, PoolAssumption DEF EntriesInv

LEMMA EntriesInit == Init => EntriesInv
<1> SUFFICES ASSUME Init PROVE EntriesInv
  OBVIOUS
<1>1. PoolInv
  BY PoolInit
<1>2. numProcs = 0 /\ Serving = {} /\ Children = {}
  BY DEF Init, numProcs, Serving, Children
<1>3. \A s \in Slots : Listed(s) = {} /\ Holders(s) = {}
  BY PoolAssumption DEF Init, Listed, numProcs, Holders, Slots, NoSlot
<1>4. QED
  BY <1>1, <1>2, <1>3, FS_EmptySet, PoolAssumption DEF EntriesInv, EntriesMatchHolders

LEMMA EntriesStep ==
  ASSUME max_connections <= kMaxBackends, EntriesInv, [Next]_vars
  PROVE  EntriesInv'
<1>0. PoolInv /\ PoolInv' /\ TypeOK /\ TypeOK'
  BY PoolStep DEF EntriesInv, PoolInv
<1>1. ASSUME NEW b \in Backends, AcceptAndFork(b) PROVE EntriesInv'
  <2>1. /\ UNCHANGED <<pgprocnos, MyProc>> /\ b \notin Children
        /\ Cardinality(Children) < max_connections
    BY <1>1 DEF AcceptAndFork, active_children, Children
  <2>2. Children' = Children \cup {b}
    BY <1>0, <1>1 DEF AcceptAndFork, Goto, Children, TypeOK
  <2>3. Cardinality(Children') <= max_connections
    <3>1. Cardinality(Children \cup {b}) = Cardinality(Children) + 1
      BY <1>0, <2>1, SetsAreFinite, FS_AddElement, Zenon
    <3>2. Cardinality(Children) \in Nat
      BY <1>0, SetsAreFinite
    <3>3. QED
      BY <2>1, <2>2, <3>1, <3>2, PoolAssumption
  <2>4. QED
    BY <1>0, <2>1, <2>3, Zenon DEF EntriesInv, EntriesMatchHolders, Listed, Holders, numProcs, Serving
<1>2. ASSUME NEW b \in Backends, ReapChildren(b) PROVE EntriesInv'
  <2>1. UNCHANGED <<pgprocnos, MyProc>> /\ b \in Children
    BY <1>2 DEF ReapChildren, Children
  <2>2. Children' = Children \ {b}
    BY <1>0, <1>2 DEF ReapChildren, Goto, Children, TypeOK
  <2>3. Cardinality(Children') <= max_connections
    <3>1. Cardinality(Children \ {b}) = Cardinality(Children) - 1
      BY <1>0, <2>1, SetsAreFinite, FS_RemoveElement, Zenon
    <3>2. Cardinality(Children) \in Nat
      BY <1>0, SetsAreFinite
    <3>3. QED
      BY <2>2, <3>1, <3>2, PoolAssumption DEF EntriesInv
  <2>4. QED
    BY <1>0, <2>1, <2>3, Zenon DEF EntriesInv, EntriesMatchHolders, Listed, Holders, numProcs, Serving
<1>3. ASSUME NEW b \in Backends, ProcGlobalInit(b) PROVE EntriesInv'
  <2>1. UNCHANGED <<pgprocnos, MyProc>>
    BY <1>3 DEF ProcGlobalInit
  <2>2. Children' = Children
    BY <1>0, <1>3 DEF ProcGlobalInit, Goto, Children, TypeOK
  <2>3. QED
    BY <1>0, <2>1, <2>2, Zenon DEF EntriesInv, EntriesMatchHolders, Listed, Holders, numProcs, Serving
<1>4. ASSUME NEW b \in Backends, InitProcess(b) PROVE EntriesInv'
  <2>1. Children' = Children /\ state[b] = "claim"
    BY <1>0, <1>4 DEF InitProcess, Goto, Children, TypeOK
  <2>2. CASE head[b] = NoSlot
    <3>1. MyProc[b] = NoSlot
      BY <1>0, <2>1 DEF PoolInv, Phases
    <3>2. UNCHANGED <<pgprocnos, MyProc>>
      BY <1>0, <1>4, <2>2, <3>1 DEF InitProcess, TypeOK
    <3>3. QED
      BY <1>0, <2>1, <3>2, Zenon DEF EntriesInv, EntriesMatchHolders, Listed, Holders, numProcs, Serving
  <2>3. CASE head[b] # NoSlot
    <3>1. PICK s \in Slots : s = head[b] /\ s # NoSlot
      BY <1>0, <2>3 DEF TypeOK
    <3>2. ProcArrayAdd(s) /\ MyProc' = [MyProc EXCEPT ![b] = s]
      BY <1>4, <2>3, <3>1 DEF InitProcess
    <3>3. numProcs < kMaxBackends /\ b \notin Serving
      BY <2>1, RoomLeft
    <3>4. /\ numProcs' = numProcs + 1
          /\ Cardinality(Listed(s)') = Cardinality(Listed(s)) + 1
          /\ \A t : t # s => Listed(t)' = Listed(t)
      BY <1>0, <3>1, <3>2, <3>3, AddCounts
    <3>5. MyProc[b] = NoSlot /\ MyProc \in [Backends -> Slots \cup {NoSlot}] /\ NoSlot \notin Slots
      BY <1>0, <3>3 DEF Serving, TypeOK, Slots, NoSlot
    <3>6. /\ Serving' = Serving \cup {b} /\ b \notin Holders(s) /\ Holders(s)' = Holders(s) \cup {b}
          /\ \A t \in Slots : t # s => Holders(t)' = Holders(t)
      BY <3>1, <3>2, <3>5 DEF Serving, Holders
    <3>7. /\ Cardinality(Serving \cup {b}) = Cardinality(Serving) + 1
          /\ Cardinality(Holders(s) \cup {b}) = Cardinality(Holders(s)) + 1
      BY <1>0, <3>3, <3>6, SetsAreFinite, FS_AddElement, Zenon
    <3>8. EntriesMatchHolders'
      <4>1. ASSUME NEW t \in Slots PROVE Cardinality(Listed(t)') = Cardinality(Holders(t)')
        BY <3>1, <3>4, <3>6, <3>7, Zenon DEF EntriesInv, EntriesMatchHolders
      <4>2. QED
        BY <4>1 DEF EntriesMatchHolders
    <3>9. QED
      BY <1>0, <2>1, <3>4, <3>6, <3>7, <3>8 DEF EntriesInv
  <2>4. QED
    BY <2>2, <2>3
<1>5. ASSUME NEW b \in Backends, ProcKill(b) PROVE EntriesInv'
  <2>1. Children' = Children
    BY <1>0, <1>5 DEF ProcKill, Goto, Children, TypeOK
  <2>2. CASE MyProc[b] = NoSlot
    <3>1. UNCHANGED <<pgprocnos, MyProc>>
      BY <1>0, <1>5, <2>2 DEF ProcKill, TypeOK
    <3>2. QED
      BY <1>0, <2>1, <3>1, Zenon DEF EntriesInv, EntriesMatchHolders, Listed, Holders, numProcs, Serving
  <2>3. CASE MyProc[b] # NoSlot
    <3>1. PICK s \in Slots : s = MyProc[b] /\ s # NoSlot
      BY <1>0, <2>3 DEF TypeOK
    <3>2. ProcArrayRemove(s) /\ MyProc' = [MyProc EXCEPT ![b] = NoSlot]
      BY <1>5, <2>3, <3>1 DEF ProcKill
    <3>3. b \in Holders(s) /\ b \in Serving
      BY <3>1 DEF Holders, Serving
    <3>4. MyProc \in [Backends -> Slots \cup {NoSlot}] /\ NoSlot \notin Slots /\ MyProc[b] = s
      BY <1>0, <3>1 DEF TypeOK, Slots, NoSlot
    <3>5. Listed(s) # {}
      <4>1. Cardinality(Listed(s)) = Cardinality(Holders(s))
        BY <3>1 DEF EntriesInv, EntriesMatchHolders
      <4>2. IsFiniteSet(Holders(s)) /\ Holders(s) # {}
        BY <1>0, <3>3, SetsAreFinite
      <4>3. QED
        BY <4>1, <4>2, FS_EmptySet
    <3>6. /\ numProcs' = numProcs - 1
          /\ Cardinality(Listed(s)') = Cardinality(Listed(s)) - 1
          /\ \A t : t # s => Cardinality(Listed(t)') = Cardinality(Listed(t))
      BY <1>0, <3>1, <3>2, <3>5, RemoveCounts
    <3>7. /\ Serving' = Serving \ {b} /\ Holders(s)' = Holders(s) \ {b}
          /\ \A t \in Slots : t # s => Holders(t)' = Holders(t)
      BY <3>1, <3>2, <3>4 DEF Serving, Holders
    <3>8. /\ Cardinality(Serving \ {b}) = Cardinality(Serving) - 1
          /\ Cardinality(Holders(s) \ {b}) = Cardinality(Holders(s)) - 1
      BY <1>0, <3>3, SetsAreFinite, FS_RemoveElement, Zenon
    <3>9. EntriesMatchHolders'
      <4>1. ASSUME NEW t \in Slots PROVE Cardinality(Listed(t)') = Cardinality(Holders(t)')
        BY <3>1, <3>6, <3>7, <3>8 DEF EntriesInv, EntriesMatchHolders
      <4>2. QED
        BY <4>1 DEF EntriesMatchHolders
    <3>10. QED
      BY <1>0, <2>1, <3>6, <3>7, <3>8, <3>9 DEF EntriesInv
  <2>4. QED
    BY <2>2, <2>3
<1>6. CASE UNCHANGED vars
  <2>1. UNCHANGED <<pgprocnos, MyProc, state>>
    BY <1>6 DEF vars
  <2>2. QED
    BY <1>0, <2>1, Zenon DEF EntriesInv, EntriesMatchHolders, Listed, Holders, numProcs, Serving, Children
<1>7. QED
  BY <1>1, <1>2, <1>3, <1>4, <1>5, <1>6 DEF Next

(* If the postmaster admits no more children than there are slots, as by   *)
(* default (postmaster.hpp:30, proc.hpp:29), the ProcArray lists each slot *)
(* exactly as often as a backend uses it: no entry is dropped for want of  *)
(* room, and no removal takes another backend's entry.                     *)
THEOREM EntriesAreRight ==
  ASSUME max_connections <= kMaxBackends
  PROVE  Spec => []EntriesMatchHolders
<1>1. Init => EntriesInv
  BY EntriesInit
<1>2. EntriesInv /\ [Next]_vars => EntriesInv'
  BY EntriesStep
<1>3. EntriesInv => EntriesMatchHolders
  BY DEF EntriesInv
<1>4. QED
  BY <1>1, <1>2, <1>3, PTL DEF Spec

-----------------------------------------------------------------------------
(***************************************************************************)
(* Serializable transactions: the inductive invariant                      *)
(***************************************************************************)

(* The two lists of a conflict agree, and nobody conflicts with themself.  *)
Paired(i, o) ==
  /\ i \in [Xids -> Seq(Xids)] /\ o \in [Xids -> Seq(Xids)]
  /\ \A a, b \in Xids : b \in Range(o[a]) => a \in Range(i[b]) /\ a # b

SsiInv ==
  /\ status \in [Xids -> {"none", "active", "failed", "committed", "aborted"}]
  /\ Paired(in, out)
  /\ CommittedAcyclic

(* What a writer's conflicts are while it goes through the locks: paired,  *)
(* and grown by conflicts that lead to the writer only.                    *)
Grown(c, x) ==
  /\ Paired(c.in, c.out)
  /\ \A a \in Xids : Range(c.out[a]) \subseteq Range(out[a]) \cup {x}

IsConflicts(c) ==
  c = [in |-> c.in, out |-> c.out, dangerous |-> c.dangerous, failed |-> c.failed]

-----------------------------------------------------------------------------
(***************************************************************************)
(* Conflict lists                                                          *)
(***************************************************************************)
LEMMA RangeOfAppend ==
  ASSUME NEW S, NEW s \in Seq(S), NEW e \in S
  PROVE  Append(s, e) \in Seq(S) /\ Range(Append(s, e)) = Range(s) \cup {e}
<1>1. /\ Append(s, e) \in Seq(S) /\ Len(Append(s, e)) = Len(s) + 1
      /\ \A i \in 1 .. Len(s) : Append(s, e)[i] = s[i]
      /\ Append(s, e)[Len(s) + 1] = e
  BY AppendProperties
<1>2. /\ Len(s) \in Nat /\ DOMAIN s = 1 .. Len(s)
      /\ DOMAIN Append(s, e) = 1 .. Len(s) + 1
  BY <1>1, LenProperties
<1>3. \A i \in 1 .. Len(s) + 1 : i = Len(s) + 1 \/ i \in 1 .. Len(s)
  BY <1>2
<1>4. Len(s) + 1 \in 1 .. Len(s) + 1 /\ \A i \in 1 .. Len(s) : i \in 1 .. Len(s) + 1
  BY <1>2
<1>5. QED
  BY <1>1, <1>2, <1>3, <1>4 DEF Range

(* AddRWConflict keeps the lists paired and adds one conflict, to x.       *)
LEMMA AddedConflict ==
  ASSUME NEW c, NEW r \in Xids, NEW x \in Xids, r # x, Grown(c, x),
         IsConflicts(c)
  PROVE  Grown(AddRWConflict(c, r, x), x) /\ IsConflicts(AddRWConflict(c, r, x))
<1> DEFINE i == [c.in EXCEPT ![x] = Append(@, r)]
           o == [c.out EXCEPT ![r] = Append(@, x)]
<1>1. CASE x \in Range(c.out[r])
  <2>1. AddRWConflict(c, r, x) = c
    BY <1>1 DEF AddRWConflict
  <2>2. QED
    BY <2>1
<1>2. CASE x \notin Range(c.out[r])
  <2>1. AddRWConflict(c, r, x) =
          [in |-> i, out |-> o, dangerous |-> c.dangerous, failed |-> c.failed]
    <3>1. AddRWConflict(c, r, x) = [c EXCEPT !.out[r] = Append(@, x), !.in[x] = Append(@, r)]
      BY <1>2 DEF AddRWConflict
    <3>2. QED
      BY <3>1, Zenon DEF IsConflicts
  <2>2. c.in \in [Xids -> Seq(Xids)] /\ c.out \in [Xids -> Seq(Xids)]
    BY DEF Grown, Paired
  <2>3. /\ Append(c.in[x], r) \in Seq(Xids) /\ Range(Append(c.in[x], r)) = Range(c.in[x]) \cup {r}
        /\ Append(c.out[r], x) \in Seq(Xids) /\ Range(Append(c.out[r], x)) = Range(c.out[r]) \cup {x}
    BY <2>2, RangeOfAppend
  <2>4. i \in [Xids -> Seq(Xids)] /\ o \in [Xids -> Seq(Xids)]
    BY <2>2, <2>3
  <2>5. \A a \in Xids : /\ Range(i[a]) = IF a = x THEN Range(c.in[a]) \cup {r} ELSE Range(c.in[a])
                        /\ Range(o[a]) = IF a = r THEN Range(c.out[a]) \cup {x} ELSE Range(c.out[a])
    BY <2>2, <2>3, Zenon
  <2> HIDE DEF i, o
  <2>6. Paired(i, o)
    <3>1. ASSUME NEW a \in Xids, NEW b \in Xids, b \in Range(o[a])
          PROVE  a \in Range(i[b]) /\ a # b
      <4>1. CASE a = r /\ b = x
        BY <2>5, <4>1, Zenon
      <4>2. CASE b \in Range(c.out[a])
        BY <2>5, <4>2, Zenon DEF Grown, Paired
      <4>3. QED
        BY <2>5, <3>1, <4>1, <4>2, Zenon
    <3>2. QED
      BY <2>4, <3>1 DEF Paired
  <2>7. \A a \in Xids : Range(o[a]) \subseteq Range(out[a]) \cup {x}
    BY <2>5, Zenon DEF Grown
  <2>8. QED
    BY <2>1, <2>6, <2>7 DEF Grown, IsConflicts
<1>3. QED
  BY <1>1, <1>2

(* A check flags transactions and leaves the conflicts alone; one that x   *)
(* passes has seen no finished reader of what x wrote, or no conflict of   *)
(* x's own.                                                                *)
LEMMA CheckedIs ==
  ASSUME NEW c, NEW x \in Xids, IsConflicts(c)
  PROVE  /\ IsConflicts(Checked(c, x))
         /\ Checked(c, x).in = c.in /\ Checked(c, x).out = c.out
         /\ ~Checked(c, x).failed => x \notin PivotTriple(c, x)
<1> DEFINE D == c.dangerous \cup IF PivotTriple(c, x) # {} THEN PivotTriple(c, x)
                                 ELSE IF LastTriple(c, x) # {} THEN LastTriple(c, x)
                                 ELSE FirstTriple(c, x)
           d == CheckForDangerousStructure(c, x)
<1>1. d = [in |-> c.in, out |-> c.out, dangerous |-> D, failed |-> c.failed]
  <2> HIDE DEF D
  <2>1. d = [c EXCEPT !.dangerous = D]
    BY DEF CheckForDangerousStructure, D
  <2>2. QED
    BY <2>1 DEF IsConflicts
<1>2. Checked(c, x) = [in |-> c.in, out |-> c.out, dangerous |-> D, failed |-> x \in D]
  <2> HIDE DEF D
  <2>1. Checked(c, x) = [d EXCEPT !.failed = x \in d.dangerous]
    BY DEF Checked
  <2> HIDE DEF d
  <2>2. QED
    BY <1>1, <2>1
<1>3. x \in PivotTriple(c, x) => x \in D
  OBVIOUS
<1> HIDE DEF D
<1>4. Checked(c, x).failed = (x \in D)
  BY <1>2
<1>5. ~Checked(c, x).failed => x \notin PivotTriple(c, x)
  BY <1>3, <1>4, Zenon
<1>6. Checked(c, x).in = c.in /\ Checked(c, x).out = c.out
  BY <1>2
<1>7. IsConflicts(Checked(c, x))
  BY <1>2, SMTT(20) DEF IsConflicts
<1>8. QED
  BY <1>5, <1>6, <1>7

LEMMA VisitGrows ==
  ASSUME NEW c, NEW l, NEW x \in Xids, NEW tuple, IsConflicts(c), Grown(c, x)
  PROVE  IsConflicts(Visit(c, l, x, tuple)) /\ Grown(Visit(c, l, x, tuple), x)
<1>1. CASE Visit(c, l, x, tuple) = c
  BY <1>1, SMTT(20)
<1>2. CASE /\ l.xid # x /\ l.xid \in Xids
           /\ Visit(c, l, x, tuple) = Checked(AddRWConflict(c, l.xid, x), x)
  <2> DEFINE d == AddRWConflict(c, l.xid, x)
  <2>1. Grown(d, x) /\ IsConflicts(d)
    BY <1>2, AddedConflict
  <2> HIDE DEF d
  <2>2. IsConflicts(Checked(d, x)) /\ Checked(d, x).in = d.in /\ Checked(d, x).out = d.out
    BY <2>1, CheckedIs
  <2>3. QED
    BY <1>2, <2>1, <2>2, Zenon DEF Grown, d
<1>3. QED
  BY <1>1, <1>2, Zenon DEF Visit, Xacts

-----------------------------------------------------------------------------
(***************************************************************************)
(* The loop over the locks                                                 *)
(***************************************************************************)

(* The first k rounds of the loop.                                         *)
Rounds(f, k, x, tuple) ==
  f = [i \in 0 .. k |-> IF i = 0 THEN Conflicts ELSE Visit(f[i-1], locks[i], x, tuple)]

(* The loop is well defined.                                               *)
LEMMA LoopExists ==
  ASSUME NEW n \in Nat, NEW x, NEW tuple
  PROVE  \E f : Rounds(f, n, x, tuple)
<1> DEFINE T == {k \in Nat : ~ \E f : Rounds(f, k, x, tuple)}
           R == {ss \in Nat \X Nat : ss[1] < ss[2]}
<1>1. SUFFICES ASSUME T # {} PROVE FALSE
  OBVIOUS
<1>2. IsWellFoundedOn(R, Nat)
  BY NatLessThanWellFounded DEF OpToRel
<1>3. \E m \in T : \A y \in T : ~(<<y, m>> \in R)
  <2>1. T \subseteq Nat
    OBVIOUS
  <2> HIDE DEF R, T
  <2> QED  BY <1>1, <1>2, <2>1, WFMin, Zenon
<1>4. PICK m \in T : \A y \in T : <<y, m>> \notin R
  BY <1>3
<1>5. m # 0
  <2>1. Rounds([i \in 0 .. 0 |-> Conflicts], 0, x, tuple)
    BY DEF Rounds
  <2>2. QED
    BY <2>1
<1>6. m \in Nat /\ m - 1 \in Nat /\ <<m - 1, m>> \in R
  BY <1>5
<1>7. \E f : Rounds(f, m - 1, x, tuple)
  BY <1>4, <1>6
<1>8. PICK f : Rounds(f, m - 1, x, tuple)
  BY <1>7
<1> DEFINE v == Visit(f[m-1], locks[m], x, tuple)
           g == [i \in 0 .. m |-> IF i = m THEN v ELSE f[i]]
<1>9. \A i \in 0 .. m - 1 :
        f[i] = IF i = 0 THEN Conflicts ELSE Visit(f[i-1], locks[i], x, tuple)
  BY <1>8 DEF Rounds
<1>10. ASSUME NEW i \in 0 .. m
       PROVE  g[i] = IF i = 0 THEN Conflicts ELSE Visit(g[i-1], locks[i], x, tuple)
  <2> HIDE DEF v
  <2>1. CASE i = m
    <3>1. i - 1 \in 0 .. m /\ i - 1 # m /\ i # 0
      BY <1>5, <1>6, <2>1
    <3>2. g[i] = v /\ g[i-1] = f[i-1]
      BY <2>1, <3>1
    <3>3. QED
      BY <2>1, <3>1, <3>2 DEF v
  <2>2. CASE i # m
    <3>1. i \in 0 .. m - 1 /\ g[i] = f[i]
      BY <1>6, <2>2
    <3>2. CASE i = 0
      BY <1>9, <3>1, <3>2
    <3>3. CASE i # 0
      <4>1. i - 1 \in 0 .. m /\ i - 1 # m
        BY <1>6, <3>1, <3>3
      <4>2. g[i-1] = f[i-1]
        BY <4>1
      <4> HIDE DEF g
      <4>3. QED
        BY <1>9, <3>1, <3>3, <4>2
    <3>4. QED
      BY <3>2, <3>3
  <2>3. QED
    BY <2>1, <2>2
<1>11. Rounds(g, m, x, tuple)
  <2>1. g = [i \in 0 .. m |-> g[i]]
    OBVIOUS
  <2> HIDE DEF g
  <2>2. QED
    BY <1>10, <2>1, Zenon DEF Rounds
<1>12. QED
  BY <1>11

(* Whatever locks there are, the conflicts stay paired and only the        *)
(* writer's grow.                                                          *)
LEMMA LoopGrows ==
  ASSUME NEW x \in Xids, NEW tuple, Paired(in, out), Len(locks) \in Nat
  PROVE  Grown(Visited(x, tuple), x)
<1> DEFINE n == Len(locks)
           w == CHOOSE f : Rounds(f, n, x, tuple)
           T == {k \in 0 .. n : ~(IsConflicts(w[k]) /\ Grown(w[k], x))}
           R == {ss \in Nat \X Nat : ss[1] < ss[2]}
<1>1. Rounds(w, n, x, tuple)
  BY LoopExists
<1>2. Visited(x, tuple) = w[n]
  BY DEF Visited, Rounds
<1> HIDE DEF w
<1>3. \A i \in 0 .. n :
        w[i] = IF i = 0 THEN Conflicts ELSE Visit(w[i-1], locks[i], x, tuple)
  BY <1>1 DEF Rounds
<1>4. T = {}
  <2>1. SUFFICES ASSUME T # {} PROVE FALSE
    OBVIOUS
  <2>2. IsWellFoundedOn(R, Nat)
    BY NatLessThanWellFounded DEF OpToRel
  <2>3. \E m \in T : \A y \in T : ~(<<y, m>> \in R)
    <3>1. T \subseteq Nat
      OBVIOUS
    <3> HIDE DEF R, T
    <3> QED  BY <2>1, <2>2, <3>1, WFMin, Zenon
  <2>4. PICK m \in T : \A y \in T : <<y, m>> \notin R
    BY <2>3
  <2>5. CASE m = 0
    <3>1. w[0] = Conflicts
      BY <1>3, SMTT(20)
    <3>2. IsConflicts(Conflicts) /\ Grown(Conflicts, x)
      BY DEF Conflicts, IsConflicts, Grown
    <3>3. QED
      BY <2>4, <2>5, <3>1, <3>2
  <2>6. CASE m # 0
    <3>1. m \in 0 .. n /\ m - 1 \in 0 .. n /\ <<m - 1, m>> \in R
      BY <2>6
    <3>2. IsConflicts(w[m-1]) /\ Grown(w[m-1], x)
      BY <2>4, <3>1
    <3>3. w[m] = Visit(w[m-1], locks[m], x, tuple)
      BY <1>3, <2>6, <3>1
    <3>4. IsConflicts(w[m]) /\ Grown(w[m], x)
      BY <3>2, <3>3, VisitGrows
    <3>5. QED
      BY <2>4, <3>4
  <2>7. QED
    BY <2>5, <2>6
<1>5. QED
  BY <1>2, <1>4

-----------------------------------------------------------------------------
(***************************************************************************)
(* The theorems                                                            *)
(***************************************************************************)

LEMMA NonEmptySubset ==
  ASSUME NEW C, NEW S
  PROVE  S \in (SUBSET C) \ {{}} <=> S \subseteq C /\ S # {}
<1> DEFINE e == {}
<1>1. S \in (SUBSET C) \ {e} <=> S \subseteq C /\ S # e
  <2> HIDE DEF e
  <2> QED  OBVIOUS
<1>2. QED
  BY <1>1

(* A transaction that commits has no conflict of its own, or none from a   *)
(* finished transaction: it closes no cycle.                               *)
LEMMA CommitKeeps ==
  ASSUME SsiInv, NEW x \in Xids, Commit(x)
  PROVE  SsiInv'
<1> USE DEF SsiInv
<1> DEFINE c == Checked(Conflicts, x)
<1>1. /\ status[x] = "active" /\ UNCHANGED <<in, out>>
      /\ status' = [status EXCEPT ![x] = IF c.failed THEN "failed" ELSE "committed"]
  BY DEF Commit
<1> HIDE DEF c
<1>2. status' \in [Xids -> {"none", "active", "failed", "committed", "aborted"}]
  BY <1>1
<1>3. CommittedXids' = IF c.failed THEN CommittedXids ELSE CommittedXids \cup {x}
  BY <1>1 DEF CommittedXids
<1>4. CASE c.failed
  BY <1>1, <1>2, <1>3, <1>4 DEF CommittedAcyclic, Conflict
<1>5. CASE ~c.failed
  <2>1. x \notin PivotTriple(Conflicts, x)
    <3>1. IsConflicts(Conflicts)
      BY DEF IsConflicts, Conflicts
    <3>2. QED
      BY <1>5, <3>1, CheckedIs DEF c
  <2>2. out[x] = <<>> \/ \A a \in CommittedXids : a \notin Range(in[x])
    <3>1. SUFFICES ASSUME out[x] # <<>>, NEW a \in CommittedXids, a \in Range(in[x])
                   PROVE  FALSE
      OBVIOUS
    <3>2. Finished(a)
      BY DEF CommittedXids, Finished
    <3>3. FirstOf(in[x], Finished) # {}
      BY <3>1, <3>2, ZenonT(30) DEF FirstOf, Range
    <3>4. PivotTriple(Conflicts, x) = UNION {{t1, x, Head(out[x])} : t1 \in FirstOf(in[x], Finished)}
      BY <3>1, Zenon DEF PivotTriple, Conflicts
    <3>5. QED
      BY <2>1, <3>3, <3>4
  <2>3. ASSUME NEW S \in SUBSET (CommittedXids \cup {x}), S # {}
        PROVE  \E a \in S : \A b \in S : ~Conflict(a, b)
    <3>1. CASE x \notin S
      <4>0. S \subseteq CommittedXids
        BY <3>1
      <4>1. S \in (SUBSET CommittedXids) \ {{}}
        BY <2>3, <4>0, NonEmptySubset
      <4>2. QED
        BY <4>1 DEF CommittedAcyclic
    <3>2. CASE x \in S /\ out[x] = <<>>
      <4>1. \A b \in S : ~Conflict(x, b)
        BY <3>2 DEF Conflict, Range
      <4>2. QED
        BY <3>2, <4>1
    <3>3. CASE x \in S /\ S \ {x} = {} /\ out[x] # <<>>
      <4>1. ~Conflict(x, x)
        BY DEF Conflict, Paired
      <4>2. QED
        BY <3>3, <4>1
    <3>4. CASE x \in S /\ S \ {x} # {} /\ out[x] # <<>>
      <4>0. S \ {x} \subseteq CommittedXids
        OBVIOUS
      <4>1. S \ {x} \in (SUBSET CommittedXids) \ {{}}
        BY <3>4, <4>0, NonEmptySubset
      <4>2. PICK a \in S \ {x} : \A b \in S \ {x} : ~Conflict(a, b)
        BY <4>1, Zenon DEF CommittedAcyclic
      <4>3. a \in CommittedXids /\ a \in Xids
        BY <4>1 DEF CommittedXids
      <4>4. ~Conflict(a, x)
        BY <2>2, <3>4, <4>3 DEF Conflict, Paired
      <4>5. QED
        BY <4>2, <4>4
    <3>5. QED
      BY <3>1, <3>2, <3>3, <3>4
  <2>4. CommittedAcyclic'
    BY <1>1, <1>3, <1>5, <2>3 DEF CommittedAcyclic, Conflict
  <2>5. QED
    BY <1>1, <1>2, <2>4
<1>6. QED
  BY <1>4, <1>5

(* A write adds conflicts to a transaction that has not committed.         *)
LEMMA WriteKeeps ==
  ASSUME SsiInv, Len(locks) \in Nat, NEW x \in Xids, NEW tuple,
         CheckForSerializableConflict(x, tuple)
  PROVE  SsiInv'
<1> USE DEF SsiInv
<1> DEFINE c == Visited(x, tuple)
<1>1. /\ status[x] = "active" /\ in' = c.in /\ out' = c.out
      /\ status' = IF c.failed THEN [status EXCEPT ![x] = "failed"] ELSE status
  BY DEF CheckForSerializableConflict
<1>2. Grown(c, x)
  BY LoopGrows
<1> HIDE DEF c
<1>3. status' \in [Xids -> {"none", "active", "failed", "committed", "aborted"}]
  BY <1>1
<1>4. CommittedXids' = CommittedXids /\ x \notin CommittedXids
  BY <1>1 DEF CommittedXids
<1>5. \A a, b \in CommittedXids : Conflict(a, b)' => Conflict(a, b)
  <2>1. ASSUME NEW a \in CommittedXids, NEW b \in CommittedXids, b \in Range(c.out[a])
        PROVE  b \in Range(out[a])
    BY <1>2, <1>4, <2>1 DEF Grown, CommittedXids
  <2>2. QED
    BY <1>1, <2>1 DEF Conflict
<1>6. CommittedAcyclic'
  <2>1. ASSUME NEW S \in (SUBSET CommittedXids) \ {{}}
        PROVE  \E a \in S : \A b \in S : ~Conflict(a, b)'
    <3>1. PICK a \in S : \A b \in S : ~Conflict(a, b)
      BY DEF CommittedAcyclic
    <3>2. \A b \in S : ~Conflict(a, b)'
      BY <1>5, <3>1
    <3>3. QED
      BY <3>2
  <2>2. QED
    BY <1>4, <2>1 DEF CommittedAcyclic
<1>7. Paired(in, out)'
  BY <1>1, <1>2, Zenon DEF Grown, Paired
<1>8. QED
  BY <1>3, <1>6, <1>7

(* Every other step leaves the conflicts and the committed alone.          *)
LEMMA OtherKeeps ==
  ASSUME SsiInv, UNCHANGED <<in, out>>,
         status' \in [Xids -> {"none", "active", "failed", "committed", "aborted"}],
         CommittedXids' = CommittedXids
  PROVE  SsiInv'
BY DEF SsiInv, CommittedAcyclic, Conflict, Paired

(* SsiInv is an invariant: the lists of conflicts are paired and those     *)
(* among committed transactions have no cycle.                             *)
THEOREM SsiInvariant == SsiSpec => []SsiInv
<1>1. SsiInit => SsiInv
  <2> SUFFICES ASSUME SsiInit PROVE SsiInv
    OBVIOUS
  <2>1. Paired(in, out)
    <3>1. \A a \in Xids : out[a] = <<>> /\ in[a] = <<>>
      BY DEF SsiInit
    <3>2. in \in [Xids -> Seq(Xids)] /\ out \in [Xids -> Seq(Xids)]
      BY EmptySeq DEF SsiInit
    <3>3. \A a \in Xids : Range(out[a]) = {}
      BY <3>1 DEF Range
    <3>4. QED
      BY <3>2, <3>3 DEF Paired
  <2>2. CommittedXids = {}
    BY DEF SsiInit, CommittedXids
  <2>3. \A S : S \notin (SUBSET CommittedXids) \ {{}}
    BY <2>2, NonEmptySubset
  <2>4. CommittedAcyclic
    BY <2>3 DEF CommittedAcyclic
  <2>5. QED
    BY <2>1, <2>4 DEF SsiInit, SsiInv
<1>2. SsiInv /\ [SsiNext]_ssiVars => SsiInv'
  <2> SUFFICES ASSUME SsiInv, [SsiNext]_ssiVars PROVE SsiInv'
    OBVIOUS
  <2> DEFINE States == {"none", "active", "failed", "committed", "aborted"}
  <2>1. CASE UNCHANGED ssiVars
    BY <2>1, OtherKeeps DEF ssiVars, SsiInv, CommittedXids
  <2>2. ASSUME NEW x \in Xids, NEW ro \in BOOLEAN, RegisterSerializableTransaction(x, ro)
        PROVE  SsiInv'
    <3>1. status[x] = "none" /\ status' = [status EXCEPT ![x] = "active"] /\ UNCHANGED <<in, out>>
      BY <2>2 DEF RegisterSerializableTransaction
    <3>2. status' \in [Xids -> States] /\ CommittedXids' = CommittedXids
      BY <3>1 DEF SsiInv, CommittedXids
    <3>3. QED
      BY <3>1, <3>2, OtherKeeps
  <2>3. ASSUME NEW x \in Xids, NEW tag \in Tags, Acquire(x, tag)
        PROVE  SsiInv'
    BY <2>3, OtherKeeps DEF Acquire, SsiInv, CommittedXids
  <2>4. ASSUME NEW x \in Xids, NEW tuple \in Tuples, CheckForSerializableConflict(x, tuple)
        PROVE  SsiInv'
    BY <2>4, WriteKeeps
  <2>5. ASSUME NEW x \in Xids, Commit(x)
        PROVE  SsiInv'
    BY <2>5, CommitKeeps
  <2>6. ASSUME NEW x \in Xids, Abort(x)
        PROVE  SsiInv'
    <3>1. /\ status[x] \in {"active", "failed"} /\ status' = [status EXCEPT ![x] = "aborted"]
          /\ UNCHANGED <<in, out>>
      BY <2>6 DEF Abort
    <3>2. status' \in [Xids -> States] /\ CommittedXids' = CommittedXids
      BY <3>1 DEF SsiInv, CommittedXids
    <3>3. QED
      BY <3>1, <3>2, OtherKeeps
  <2>7. QED
    BY <2>1, <2>2, <2>3, <2>4, <2>5, <2>6 DEF SsiNext
<1>3. QED
  BY <1>1, <1>2, PTL DEF SsiSpec

(* The read-write conflicts among committed transactions have no cycle:    *)
(* CheckForDangerousStructure, called at every conflict and before every   *)
(* commit, refuses the one that would close it (ssi.cpp).                  *)
THEOREM SerializableIsAcyclic == SsiSpec => []CommittedAcyclic
<1>1. SsiInv => CommittedAcyclic
  BY DEF SsiInv
<1>2. QED
  BY <1>1, SsiInvariant, PTL
=============================================================================
