------------------------------- MODULE LWLock -------------------------------
(***************************************************************************)
(* One lightweight lock of src/storage/ipc/lwlock.cpp, as used by forked   *)
(* backends through shared memory.                                         *)
(*                                                                         *)
(* The lock is a single atomic word: the exclusive bit, or the number of   *)
(* shared holders.  Whether a backend holds the lock is known only to that *)
(* backend (its process-local HeldLocks list), so nothing in shared memory *)
(* says who holds it: every guarantee rests on the word and the private    *)
(* lists never disagreeing.  Each atomic operation on the word is a step   *)
(* of its own, and a backend may be overtaken between any two of them.     *)
(***************************************************************************)
EXTENDS Integers, FiniteSets, FiniteSetTheorems, TLAPS

CONSTANTS Procs,          \* the backends
          kExclusiveBit,  \* 2^31 in the code; the word is below twice this
          MaxCount        \* bound on recursive acquisition (int count)

ASSUME ProcsFinite   == IsFiniteSet(Procs)
ASSUME BitAssumption == kExclusiveBit \in Nat /\ Cardinality(Procs) < kExclusiveBit
ASSUME CountAssumption == MaxCount \in Nat \ {0}

kExclusive == "kExclusive"
kShared    == "kShared"
NotHeld    == "NotHeld"
LWLockMode == {kExclusive, kShared}

VARIABLES state,   \* the shared atomic word
          mode,    \* p's HeldLock.mode, NotHeld when its list has no entry
          count,   \* p's HeldLock.count
          pc,      \* where p is inside an acquire call
          old      \* p's local old_state in the shared loops

vars == <<state, mode, count, pc, old>>

(* Shape of the state: a HeldLocks entry has a positive recursion count,   *)
(* and a backend inside an acquire loop has no entry yet.                  *)
TypeOK ==
  /\ state \in 0 .. 2 * kExclusiveBit - 1
  /\ mode \in [Procs -> LWLockMode \cup {NotHeld}]
  /\ count \in [Procs -> 0 .. MaxCount]
  /\ pc \in [Procs -> {"idle", "exclusive", "shared", "tryShared"}]
  /\ old \in [Procs -> 0 .. 2 * kExclusiveBit - 1]
  /\ \A p \in Procs : /\ mode[p] # NotHeld <=> count[p] > 0
                      /\ pc[p] # "idle" => mode[p] = NotHeld

Init ==
  /\ state = 0
  /\ mode = [p \in Procs |-> NotHeld]
  /\ count = [p \in Procs |-> 0]
  /\ pc = [p \in Procs |-> "idle"]
  /\ old = [p \in Procs |-> 0]

ExclusiveBitSet(word) == word >= kExclusiveBit

(* Mutant: the entry is pushed with a recursion count of zero.             *)
PushHeldUncounted(p, m) ==
  /\ mode' = [mode EXCEPT ![p] = m]
  /\ count' = [count EXCEPT ![p] = 0]
  /\ pc' = [pc EXCEPT ![p] = "idle"]
  /\ old' = [old EXCEPT ![p] = 0]

(* HeldLocks().push_back({lock, mode, 1}); the call returns true.          *)
PushHeld(p, m) ==
  /\ mode' = [mode EXCEPT ![p] = m]
  /\ count' = [count EXCEPT ![p] = 1]
  /\ pc' = [pc EXCEPT ![p] = "idle"]
  /\ old' = [old EXCEPT ![p] = 0]

(* Recursive acquire in the mode already held, by either entry point.      *)
AcquireAgain(p, m) ==
  /\ pc[p] = "idle" /\ mode[p] = m
  /\ count[p] < MaxCount
  /\ count' = [count EXCEPT ![p] = @ + 1]
  /\ UNCHANGED <<state, mode, pc, old>>

(* Mutant: a shared holder that asks for kExclusive is upgraded in place.  *)
UpgradeInPlace(p, m) ==
  /\ pc[p] = "idle" /\ mode[p] \in LWLockMode \ {m}
  /\ mode' = [mode EXCEPT ![p] = m]
  /\ UNCHANGED <<state, count, pc, old>>

(* The lock is held by p in the other mode: false, and nothing changes.    *)
AcquireOtherMode(p, m) ==
  /\ pc[p] = "idle" /\ mode[p] \in LWLockMode \ {m}
  /\ UNCHANGED vars

(* First step of LWLockAcquire for a lock not held: the exclusive branch   *)
(* starts to spin, the shared branch loads the word into old_state.        *)
LWLockAcquire(p, m) ==
  /\ pc[p] = "idle" /\ mode[p] = NotHeld
  /\ \/ /\ m = kExclusive
        /\ pc' = [pc EXCEPT ![p] = "exclusive"]
        /\ UNCHANGED old
     \/ /\ m = kShared
        /\ pc' = [pc EXCEPT ![p] = "shared"]
        /\ old' = [old EXCEPT ![p] = state]
  /\ UNCHANGED <<state, mode, count>>

(* The compare-exchange of 0 by kExclusiveBit succeeds.  A failing one     *)
(* changes nothing and is a stuttering step.                               *)
CasExclusive(p) ==
  /\ pc[p] = "exclusive"
  /\ state = 0
  /\ state' = kExclusiveBit
  /\ PushHeld(p, kExclusive)

(* Mutant: the loop yields but does not load the word again.               *)
SharedSpinNoReload(p) ==
  /\ pc[p] = "shared"
  /\ ExclusiveBitSet(old[p])
  /\ UNCHANGED vars

(* An exclusive holder was seen: yield and load again.                     *)
SharedSpin(p) ==
  /\ pc[p] = "shared"
  /\ ExclusiveBitSet(old[p])
  /\ old' = [old EXCEPT ![p] = state]
  /\ UNCHANGED <<state, mode, count, pc>>

(* Mutant: a plain store of old_state + 1 instead of a compare-exchange.   *)
StoreShared(p) ==
  /\ pc[p] \in {"shared", "tryShared"}
  /\ ~ExclusiveBitSet(old[p])
  /\ state' = old[p] + 1
  /\ PushHeld(p, kShared)

(* The compare-exchange of old_state by old_state + 1 succeeds, in         *)
(* LWLockAcquire or in LWLockConditionalAcquire.                           *)
CasShared(p) ==
  /\ pc[p] \in {"shared", "tryShared"}
  /\ ~ExclusiveBitSet(old[p])
  /\ state = old[p]
  /\ state' = old[p] + 1
  /\ PushHeld(p, kShared)

(* It fails because the word moved: old_state is refreshed.                *)
CasSharedFails(p) ==
  /\ pc[p] \in {"shared", "tryShared"}
  /\ ~ExclusiveBitSet(old[p])
  /\ state # old[p]
  /\ old' = [old EXCEPT ![p] = state]
  /\ UNCHANGED <<state, mode, count, pc>>

(* LWLockConditionalAcquire, exclusive: one compare-exchange.              *)
TryExclusive(p) ==
  /\ pc[p] = "idle" /\ mode[p] = NotHeld
  /\ \/ state = 0 /\ state' = kExclusiveBit /\ PushHeld(p, kExclusive)
     \/ state # 0 /\ UNCHANGED vars

(* LWLockConditionalAcquire, shared: the load before the loop.             *)
TryShared(p) ==
  /\ pc[p] = "idle" /\ mode[p] = NotHeld
  /\ pc' = [pc EXCEPT ![p] = "tryShared"]
  /\ old' = [old EXCEPT ![p] = state]
  /\ UNCHANGED <<state, mode, count>>

(* The loop ends because the exclusive bit was seen: return false.         *)
TrySharedGivesUp(p) ==
  /\ pc[p] = "tryShared"
  /\ ExclusiveBitSet(old[p])
  /\ pc' = [pc EXCEPT ![p] = "idle"]
  /\ old' = [old EXCEPT ![p] = 0]
  /\ UNCHANGED <<state, mode, count>>

(* state.fetch_and(~kExclusiveBit), state.fetch_sub(1) on a 32-bit word.   *)
ReleasedWord(m) ==
  IF m = kExclusive
    THEN IF ExclusiveBitSet(state) THEN state - kExclusiveBit ELSE state
    ELSE IF state = 0 THEN 2 * kExclusiveBit - 1 ELSE state - 1

(* Mutant: every release, not only the outermost, touches the word.        *)
ReleaseEveryLevel(p) ==
  /\ pc[p] = "idle" /\ mode[p] # NotHeld
  /\ count' = [count EXCEPT ![p] = @ - 1]
  /\ state' = ReleasedWord(mode[p])
  /\ mode' = [mode EXCEPT ![p] = IF count[p] > 1 THEN @ ELSE NotHeld]
  /\ UNCHANGED <<pc, old>>

(* LWLockRelease: only the outermost release touches the shared word.      *)
LWLockRelease(p) ==
  /\ pc[p] = "idle" /\ mode[p] # NotHeld
  /\ count' = [count EXCEPT ![p] = @ - 1]
  /\ IF count[p] > 1
       THEN UNCHANGED <<state, mode>>
       ELSE /\ state' = ReleasedWord(mode[p])
            /\ mode' = [mode EXCEPT ![p] = NotHeld]
  /\ UNCHANGED <<pc, old>>

(* One step of p inside an acquire loop.                                   *)
Spin(p) ==
  \/ CasExclusive(p) \/ SharedSpin(p) \/ CasShared(p)
  \/ CasSharedFails(p) \/ TrySharedGivesUp(p)

Next ==
  \E p \in Procs :
    \/ \E m \in LWLockMode :
         AcquireAgain(p, m) \/ AcquireOtherMode(p, m) \/ LWLockAcquire(p, m)
    \/ TryExclusive(p) \/ TryShared(p)
    \/ Spin(p)
    \/ LWLockRelease(p)

Spec == Init /\ [][Next]_vars

(* A backend inside a loop keeps being scheduled, and one that holds the   *)
(* lock goes on to release it.                                             *)
FairSpec ==
  Spec /\ \A p \in Procs : WF_vars(Spin(p)) /\ WF_vars(LWLockRelease(p))

-----------------------------------------------------------------------------
Holds(p)         == mode[p] # NotHeld
Waiting(p)       == pc[p] \in {"exclusive", "shared"}
SharedHolders    == {p \in Procs : mode[p] = kShared}
ExclusiveHolders == {p \in Procs : mode[p] = kExclusive}

(* The lock is a readers-writer lock: a backend that LWLockAcquire let in  *)
(* exclusively is alone, whatever the other backends were doing between    *)
(* their load of the word and their compare-exchange.                      *)
MutualExclusion ==
  \A p, q \in Procs : p # q /\ mode[p] = kExclusive => mode[q] = NotHeld

(* The shared word and the private HeldLocks lists agree: the word is the  *)
(* exclusive bit alone or the exact number of shared holders, so neither   *)
(* the shared count nor the bit is ever lost, left behind or wrapped by    *)
(* fetch_and / fetch_sub, recursion included.                              *)
WordMatchesHolders ==
  /\ ExclusiveHolders # {} => state = kExclusiveBit
  /\ ExclusiveHolders = {} => state = Cardinality(SharedHolders)

(* What the proofs use: the facts above are inductive together.            *)
LockInv == TypeOK /\ WordMatchesHolders /\ MutualExclusion

(* LWLockAcquire cannot block everyone: while some backend is spinning,    *)
(* some backend gets the lock again and again (no lost release, no stale   *)
(* old_state that a reader keeps for ever).                                *)
SomeoneGetsIn == (\E p \in Procs : Waiting(p)) ~> (\E p \in Procs : Holds(p))

-----------------------------------------------------------------------------
(* The readers-writer lock the callers rely on.                            *)
RW == INSTANCE RWLock WITH holding <- mode

(* Every step of the atomic-word implementation is a step of RWLock, or    *)
(* changes nothing the callers can see.                                    *)
ImplementsRWLock == RW!Spec
-----------------------------------------------------------------------------
(* Proofs: for any finite number of backends below kExclusiveBit, the lock *)
(* excludes, keeps its word equal to its holders, and implements the       *)
(* readers-writer lock its callers rely on.                                *)
USE DEF kExclusive, kShared, NotHeld, LWLockMode

(* The shared holders are a finite set, smaller than the exclusive bit, so *)
(* incrementing the word by one more holder never reaches the bit.         *)
LEMMA SharedHoldersBounded ==
  /\ IsFiniteSet(SharedHolders)
  /\ Cardinality(SharedHolders) \in Nat
  /\ Cardinality(SharedHolders) < kExclusiveBit
  /\ (\E p \in Procs : mode[p] # kShared) =>
        Cardinality(SharedHolders) + 1 < kExclusiveBit
<1>1. SharedHolders \subseteq Procs  BY DEF SharedHolders
<1>2. /\ IsFiniteSet(SharedHolders)
      /\ Cardinality(SharedHolders) \in Nat
      /\ Cardinality(SharedHolders) <= Cardinality(Procs)
  BY <1>1, ProcsFinite, FS_Subset, FS_CardinalityType
<1>3. Cardinality(Procs) \in Nat  BY ProcsFinite, FS_CardinalityType
<1>4. ASSUME NEW p \in Procs, mode[p] # kShared
      PROVE  Cardinality(SharedHolders) < Cardinality(Procs)
  <2>1. SharedHolders # Procs  BY <1>4 DEF SharedHolders
  <2>2. Cardinality(Procs) # Cardinality(SharedHolders)
    BY <1>1, <2>1, ProcsFinite, FS_Subset
  <2>3. QED  BY <1>2, <1>3, <2>2
<1>5. QED  BY <1>2, <1>3, <1>4, BitAssumption

(* Granting a shared hold adds one member to the shared holders.           *)
LEMMA SharedGrant ==
  ASSUME NEW p \in Procs, mode \in [Procs -> LWLockMode \cup {NotHeld}],
         mode[p] = NotHeld, mode' = [mode EXCEPT ![p] = kShared]
  PROVE  /\ Cardinality(SharedHolders') = Cardinality(SharedHolders) + 1
         /\ ExclusiveHolders' = ExclusiveHolders
<1>1. SharedHolders' = SharedHolders \cup {p}  BY DEF SharedHolders
<1>2. p \notin SharedHolders  BY DEF SharedHolders
<1>3. IsFiniteSet(SharedHolders)  BY SharedHoldersBounded
<1>4. Cardinality(SharedHolders') = Cardinality(SharedHolders) + 1
  BY <1>1, <1>2, <1>3, FS_AddElement
<1>5. ExclusiveHolders' = ExclusiveHolders  BY DEF ExclusiveHolders
<1>6. QED  BY <1>4, <1>5

(* Giving up a shared hold removes one.                                    *)
LEMMA SharedRelease ==
  ASSUME NEW p \in Procs, mode \in [Procs -> LWLockMode \cup {NotHeld}],
         mode[p] = kShared, mode' = [mode EXCEPT ![p] = NotHeld]
  PROVE  /\ Cardinality(SharedHolders') = Cardinality(SharedHolders) - 1
         /\ Cardinality(SharedHolders) >= 1
         /\ ExclusiveHolders' = ExclusiveHolders
<1>1. SharedHolders' = SharedHolders \ {p}  BY DEF SharedHolders
<1>2. p \in SharedHolders  BY DEF SharedHolders
<1>3. IsFiniteSet(SharedHolders)  BY SharedHoldersBounded
<1>4. Cardinality(SharedHolders') = Cardinality(SharedHolders) - 1
  BY <1>1, <1>2, <1>3, FS_RemoveElement
<1>5. Cardinality(SharedHolders) >= 1
  <2>1. SharedHolders # {}  BY <1>2
  <2>2. Cardinality(SharedHolders) # 0  BY <2>1, <1>3, FS_EmptySet
  <2>3. QED  BY <2>2, SharedHoldersBounded
<1>6. ExclusiveHolders' = ExclusiveHolders  BY DEF ExclusiveHolders
<1>7. QED  BY <1>4, <1>5, <1>6

(* A word without holders is zero, and only then: what a successful        *)
(* exclusive compare-exchange learns from the word.                        *)
LEMMA ZeroMeansFree ==
  ASSUME LockInv
  PROVE  state = 0 <=> \A q \in Procs : mode[q] = NotHeld
<1>1. ASSUME state = 0, NEW q \in Procs  PROVE mode[q] = NotHeld
  <2>1. ExclusiveHolders = {}  BY <1>1, BitAssumption, SharedHoldersBounded DEF LockInv, WordMatchesHolders
  <2>2. Cardinality(SharedHolders) = 0  BY <2>1, <1>1 DEF LockInv, WordMatchesHolders
  <2>3. SharedHolders = {}  BY <2>2, SharedHoldersBounded, FS_EmptySet
  <2>4. QED  BY <2>1, <2>3 DEF SharedHolders, ExclusiveHolders, LockInv, TypeOK
<1>2. ASSUME \A q \in Procs : mode[q] = NotHeld  PROVE state = 0
  <2>1. ExclusiveHolders = {} /\ SharedHolders = {}  BY <1>2 DEF SharedHolders, ExclusiveHolders
  <2>2. QED  BY <2>1, FS_EmptySet DEF LockInv, WordMatchesHolders
<1>3. QED  BY <1>1, <1>2

(* The initial lock is free and its word is zero.                          *)
LEMMA InitLockInv == Init => LockInv
<1> SUFFICES ASSUME Init PROVE LockInv  OBVIOUS
<1>1. TypeOK  BY BitAssumption, CountAssumption, ProcsFinite, FS_CardinalityType DEF Init, TypeOK
<1>2. WordMatchesHolders
  <2>1. SharedHolders = {} /\ ExclusiveHolders = {}
    BY DEF Init, SharedHolders, ExclusiveHolders
  <2>2. QED  BY <2>1, FS_EmptySet DEF Init, WordMatchesHolders
<1>3. MutualExclusion  BY DEF Init, MutualExclusion
<1>4. QED  BY <1>1, <1>2, <1>3 DEF LockInv

(* An exclusive grant: the word was zero, so nobody else held the lock.    *)
LEMMA GrantExclusiveStep ==
  ASSUME LockInv, NEW p \in Procs, state = 0, state' = kExclusiveBit,
         PushHeld(p, kExclusive)
  PROVE  LockInv' /\ RW!GrantExclusive(p)
<1>1. \A q \in Procs : mode[q] = NotHeld  BY ZeroMeansFree
<1>2. TypeOK'
  BY BitAssumption, CountAssumption, ProcsFinite, FS_CardinalityType DEF LockInv, TypeOK, PushHeld
<1>3. p \in ExclusiveHolders'  BY DEF PushHeld, ExclusiveHolders, LockInv, TypeOK
<1>4. WordMatchesHolders'  BY <1>3 DEF WordMatchesHolders
<1>5. MutualExclusion'  BY <1>1 DEF MutualExclusion, PushHeld, LockInv, TypeOK
<1>6. RW!GrantExclusive(p)  BY <1>1 DEF RW!GrantExclusive, RW!Grant, PushHeld
<1>7. QED  BY <1>2, <1>4, <1>5, <1>6 DEF LockInv

(* A shared grant: the word had no exclusive bit and counts one more.      *)
LEMMA GrantSharedStep ==
  ASSUME LockInv, NEW p \in Procs, CasShared(p)
  PROVE  LockInv' /\ RW!GrantShared(p)
<1>1. mode[p] = NotHeld  BY DEF CasShared, LockInv, TypeOK
<1>2. ~ExclusiveBitSet(state)  BY DEF CasShared
<1>3. ExclusiveHolders = {}
  BY <1>2, BitAssumption DEF ExclusiveBitSet, LockInv, WordMatchesHolders
<1>4. state = Cardinality(SharedHolders)  BY <1>3 DEF LockInv, WordMatchesHolders
<1>5. Cardinality(SharedHolders') = Cardinality(SharedHolders) + 1 /\ ExclusiveHolders' = {}
  BY <1>1, <1>3, SharedGrant DEF CasShared, PushHeld, LockInv, TypeOK
<1>6. state' = state + 1  BY DEF CasShared
<1>7. TypeOK'
  <2>1. state' \in 0 .. 2 * kExclusiveBit - 1
    BY <1>1, <1>4, <1>6, SharedHoldersBounded, BitAssumption
  <2>2. QED  BY <1>1, <2>1, BitAssumption, CountAssumption DEF LockInv, TypeOK, CasShared, PushHeld
<1>8. WordMatchesHolders'  BY <1>4, <1>5, <1>6 DEF WordMatchesHolders
<1>9. MutualExclusion'  BY <1>5 DEF MutualExclusion, ExclusiveHolders
<1>10. RW!GrantShared(p)
  BY <1>1, <1>3 DEF RW!GrantShared, RW!Grant, CasShared, PushHeld, ExclusiveHolders
<1>11. QED  BY <1>7, <1>8, <1>9, <1>10 DEF LockInv

(* A release: a nested one leaves the word alone; an outermost one takes   *)
(* exactly this holder out of it, without wrapping.                        *)
LEMMA ReleaseStep ==
  ASSUME LockInv, NEW p \in Procs, LWLockRelease(p)
  PROVE  LockInv' /\ (RW!Release(p) \/ mode' = mode)
<1>1. CASE count[p] > 1
  <2>1. TypeOK'  BY <1>1, CountAssumption DEF LockInv, TypeOK, LWLockRelease
  <2>2. UNCHANGED <<state, mode>>  BY <1>1 DEF LWLockRelease
  <2>3. WordMatchesHolders' /\ MutualExclusion'
    BY <2>2 DEF LockInv, WordMatchesHolders, MutualExclusion, SharedHolders, ExclusiveHolders
  <2>4. QED  BY <2>1, <2>2, <2>3 DEF LockInv
<1>2. CASE ~(count[p] > 1)
  <2>0. count[p] = 1 /\ mode[p] # NotHeld
    BY <1>2, CountAssumption DEF LockInv, TypeOK, LWLockRelease
  <2>1. /\ count[p] = 1 /\ mode[p] # NotHeld /\ pc[p] = "idle"
        /\ state' = ReleasedWord(mode[p])
        /\ mode' = [mode EXCEPT ![p] = NotHeld]
        /\ count' = [count EXCEPT ![p] = 0]
        /\ UNCHANGED <<pc, old>>
    BY <1>2, <2>0 DEF LWLockRelease
  <2>2. mode \in [Procs -> LWLockMode \cup {NotHeld}]  BY DEF LockInv, TypeOK
  <2>3. MutualExclusion'  BY <2>1, <2>2 DEF LockInv, MutualExclusion
  <2>4. ASSUME mode[p] = kExclusive
        PROVE  WordMatchesHolders' /\ state' \in 0 .. 2 * kExclusiveBit - 1
    <3>1. state = kExclusiveBit
      BY <2>4 DEF LockInv, WordMatchesHolders, ExclusiveHolders
    <3>2. state' = 0  BY <2>1, <2>4, <3>1, BitAssumption DEF ReleasedWord, ExclusiveBitSet
    <3>3. \A q \in Procs : mode'[q] = NotHeld
      BY <2>1, <2>2, <2>4 DEF LockInv, MutualExclusion
    <3>4. SharedHolders' = {} /\ ExclusiveHolders' = {}
      BY <3>3 DEF SharedHolders, ExclusiveHolders
    <3>5. WordMatchesHolders'  BY <3>2, <3>4, FS_EmptySet DEF WordMatchesHolders
    <3>6. QED  BY <3>2, <3>5, BitAssumption, SharedHoldersBounded
  <2>5. ASSUME mode[p] = kShared
        PROVE  WordMatchesHolders' /\ state' \in 0 .. 2 * kExclusiveBit - 1
    <3>1. ExclusiveHolders = {}
      BY <2>1, <2>5 DEF LockInv, MutualExclusion, ExclusiveHolders
    <3>2. state = Cardinality(SharedHolders)  BY <3>1 DEF LockInv, WordMatchesHolders
    <3>3. /\ Cardinality(SharedHolders') = Cardinality(SharedHolders) - 1
          /\ Cardinality(SharedHolders) >= 1
          /\ ExclusiveHolders' = {}
      BY <2>1, <2>2, <2>5, <3>1, SharedRelease
    <3>4. state' = state - 1  BY <2>1, <2>5, <3>2, <3>3, SharedHoldersBounded DEF ReleasedWord
    <3>5. WordMatchesHolders'  BY <3>2, <3>3, <3>4 DEF WordMatchesHolders
    <3>6. state' \in 0 .. 2 * kExclusiveBit - 1
      BY <3>2, <3>3, <3>4, SharedHoldersBounded, BitAssumption
    <3>7. QED  BY <3>5, <3>6
  <2>6. WordMatchesHolders' /\ state' \in 0 .. 2 * kExclusiveBit - 1
    BY <2>1, <2>2, <2>4, <2>5
  <2>7. TypeOK'  BY <2>1, <2>6, CountAssumption DEF LockInv, TypeOK
  <2>8. RW!Release(p)  BY <2>1 DEF RW!Release
  <2>9. QED  BY <2>3, <2>6, <2>7, <2>8 DEF LockInv
<1>3. QED  BY <1>1, <1>2

(* No step of any backend breaks the invariant, and each is a step of the  *)
(* readers-writer lock or leaves the holders unchanged.                    *)
LEMMA NextStep ==
  ASSUME LockInv, [Next]_vars
  PROVE  LockInv' /\ [RW!Next]_mode
<1>1. CASE UNCHANGED vars
  BY <1>1 DEF vars, LockInv, TypeOK, WordMatchesHolders, MutualExclusion,
              SharedHolders, ExclusiveHolders
<1>2. ASSUME NEW p \in Procs, UNCHANGED <<state, mode>>, TypeOK'
      PROVE  LockInv' /\ [RW!Next]_mode
  BY <1>2 DEF LockInv, WordMatchesHolders, MutualExclusion, SharedHolders, ExclusiveHolders
<1>3. ASSUME NEW p \in Procs, NEW m \in LWLockMode, AcquireAgain(p, m)
      PROVE  LockInv' /\ [RW!Next]_mode
  <2>1. TypeOK'  BY <1>3, CountAssumption DEF AcquireAgain, LockInv, TypeOK
  <2>2. QED  BY <1>2, <1>3, <2>1 DEF AcquireAgain
<1>4. ASSUME NEW p \in Procs, NEW m \in LWLockMode, AcquireOtherMode(p, m)
      PROVE  LockInv' /\ [RW!Next]_mode
  BY <1>1, <1>4 DEF AcquireOtherMode
<1>5. ASSUME NEW p \in Procs, NEW m \in LWLockMode, LWLockAcquire(p, m)
      PROVE  LockInv' /\ [RW!Next]_mode
  <2>1. TypeOK'  BY <1>5, BitAssumption DEF LWLockAcquire, LockInv, TypeOK
  <2>2. QED  BY <1>2, <1>5, <2>1 DEF LWLockAcquire
<1>6. ASSUME NEW p \in Procs, TryExclusive(p)
      PROVE  LockInv' /\ [RW!Next]_mode
  BY <1>1, <1>6, GrantExclusiveStep DEF TryExclusive, RW!Next
<1>7. ASSUME NEW p \in Procs, TryShared(p)
      PROVE  LockInv' /\ [RW!Next]_mode
  <2>1. TypeOK'  BY <1>7, BitAssumption DEF TryShared, LockInv, TypeOK
  <2>2. QED  BY <1>2, <1>7, <2>1 DEF TryShared
<1>8. ASSUME NEW p \in Procs, Spin(p)
      PROVE  LockInv' /\ [RW!Next]_mode
  <2>1. CASE CasExclusive(p)  BY <2>1, GrantExclusiveStep DEF CasExclusive, RW!Next
  <2>2. CASE CasShared(p)  BY <2>2, GrantSharedStep DEF RW!Next
  <2>3. CASE SharedSpin(p) \/ CasSharedFails(p)
    <3>1. TypeOK'  BY <2>3 DEF SharedSpin, CasSharedFails, LockInv, TypeOK
    <3>2. QED  BY <1>2, <2>3, <3>1 DEF SharedSpin, CasSharedFails
  <2>4. CASE TrySharedGivesUp(p)
    <3>1. TypeOK'  BY <2>4, BitAssumption DEF TrySharedGivesUp, LockInv, TypeOK
    <3>2. QED  BY <1>2, <2>4, <3>1 DEF TrySharedGivesUp
  <2>5. QED  BY <1>8, <2>1, <2>2, <2>3, <2>4 DEF Spin
<1>9. ASSUME NEW p \in Procs, LWLockRelease(p)
      PROVE  LockInv' /\ [RW!Next]_mode
  BY <1>9, ReleaseStep DEF RW!Next
<1>10. QED  BY <1>1, <1>3, <1>4, <1>5, <1>6, <1>7, <1>8, <1>9 DEF Next

(* The inductive invariant holds in every reachable state.                 *)
THEOREM LockInvariant == Spec => []LockInv
<1>1. LockInv /\ [Next]_vars => LockInv'  BY NextStep
<1>2. QED  BY InitLockInv, <1>1, PTL DEF Spec

(* LWLockAcquire and LWLockConditionalAcquire never let a second backend   *)
(* in beside an exclusive holder, for any number of backends.              *)
THEOREM LockExcludes == Spec => []MutualExclusion
<1>1. LockInv => MutualExclusion  BY DEF LockInv
<1>2. QED  BY LockInvariant, <1>1, PTL

(* The word is always the exclusive bit or the number of shared holders:   *)
(* LWLockRelease never loses, leaks or wraps a hold.                       *)
THEOREM WordIsExact == Spec => []WordMatchesHolders
<1>1. LockInv => WordMatchesHolders  BY DEF LockInv
<1>2. QED  BY LockInvariant, <1>1, PTL

(* The compare-exchange loops implement the readers-writer lock.           *)
THEOREM LockRefinement == Spec => ImplementsRWLock
<1>1. Init => RW!Init  BY DEF Init, RW!Init
<1>2. LockInv /\ [Next]_vars => [RW!Next]_mode  BY NextStep
<1>3. QED  BY LockInvariant, <1>1, <1>2, PTL DEF Spec, ImplementsRWLock, RW!Spec
=============================================================================
