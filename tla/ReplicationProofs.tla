-------------------------- MODULE ReplicationProofs --------------------------
(***************************************************************************)
(* Replication for every number of slots, standbys and log records, and    *)
(* every list of synchronous standbys.                                     *)
(***************************************************************************)
EXTENDS Replication, FiniteSetTheorems, TLAPS

USE DEF LsnOf

-----------------------------------------------------------------------------
(***************************************************************************)
(* The inductive invariant                                                 *)
(***************************************************************************)
Kinds        == {"message", "xact", "other"}
Types        == {"physical", "logical"}
Persistences == {"persistent", "temporary"}

ReplicationSlot ==
  [type : Types, persistence : Persistences, restart_lsn : Nat,
   confirmed_flush_lsn : Nat, active_pid : Pids \cup {NoPid}, dirty : BOOLEAN]

SlotFiles ==
  [type : Types, persistence : Persistences, restart_lsn : Nat, confirmed_flush_lsn : Nat]

(* Every slot has a file and a history.                                    *)
LogicalTypes ==
  /\ wal \in Seq(Kinds)
  /\ slots \in [DOMAIN slots -> ReplicationSlot]
  /\ files \in [DOMAIN slots -> SlotFiles]
  /\ delivered \in [DOMAIN slots -> SUBSET Nat]
  /\ skipped \in [DOMAIN slots -> Nat]

(* A slot with position s, from which d was returned and which was moved   *)
(* to k by hand: nothing in between is missing, and only the hand moves it *)
(* past the end of the log.                                                *)
Kept(s, d, k) ==
  s.type = "logical" =>
    /\ \A i \in DOMAIN wal :
         Decodes(wal[i]) /\ LsnOf(i) >= s.restart_lsn /\ LsnOf(i) >= k
                         /\ LsnOf(i) < s.confirmed_flush_lsn => LsnOf(i) \in d
    /\ s.confirmed_flush_lsn <= GetXLogInsertRecPtr \/ s.confirmed_flush_lsn <= k

(* What a restart reads is where the slot is.                              *)
Saved(s, f) ==
  /\ f.type = s.type /\ f.restart_lsn = s.restart_lsn
  /\ f.confirmed_flush_lsn = s.confirmed_flush_lsn

LogicalInv ==
  /\ LogicalTypes
  /\ \A n \in DOMAIN slots : /\ Kept(slots[n], delivered[n], skipped[n])
                             /\ Saved(slots[n], files[n])

(* A sender knows, and a reply says, no more than the standby has on disk. *)
WalSnds == [pid : Standbys, write : Nat, flush : Nat]
WalRcvs == [state : {"stopped", "streaming"}, receive : Nat, write : Nat, flush : Nat]
Replies == [write : Nat, flush : Nat]

PhysicalTypes ==
  /\ senders \in Seq(WalSnds)
  /\ receivers \in [Standbys -> WalRcvs]
  /\ sent \in [Standbys -> Nat]
  /\ replies \in [Standbys -> SUBSET Replies]
  /\ config.num \in Nat /\ Len(config.names) \in Nat
  /\ DOMAIN config.names = 1 .. Len(config.names)

SendersBehind == \A i \in 1 .. Len(senders) : senders[i].flush <= receivers[senders[i].pid].flush
RepliesBehind == \A s \in Standbys : \A m \in replies[s] : m.flush <= receivers[s].flush

PhysicalInv == PhysicalTypes /\ SendersBehind /\ RepliesBehind

ReplicationInv == LogicalInv /\ PhysicalInv

-----------------------------------------------------------------------------
(***************************************************************************)
(* Numbers                                                                 *)
(***************************************************************************)
LEMMA MaxOfTwo ==
  ASSUME NEW a \in Int, NEW b \in Int
  PROVE  Max({a, b}) = IF a >= b THEN a ELSE b
<1> DEFINE m == IF a >= b THEN a ELSE b
<1>1. m \in {a, b} /\ \A y \in {a, b} : m >= y
  OBVIOUS
<1>2. \A x \in {a, b} : (\A y \in {a, b} : x >= y) => x = m
  OBVIOUS
<1> HIDE DEF m
<1>3. Max({a, b}) = m
  BY <1>1, <1>2 DEF Max
<1>4. QED
  BY <1>3 DEF m

LEMMA MinOfTwo ==
  ASSUME NEW a \in Int, NEW b \in Int
  PROVE  Min({a, b}) = IF a <= b THEN a ELSE b
<1> DEFINE m == IF a <= b THEN a ELSE b
<1>1. m \in {a, b} /\ \A y \in {a, b} : m <= y
  OBVIOUS
<1>2. \A x \in {a, b} : (\A y \in {a, b} : x <= y) => x = m
  OBVIOUS
<1> HIDE DEF m
<1>3. Min({a, b}) = m
  BY <1>1, <1>2 DEF Min
<1>4. QED
  BY <1>3 DEF m

LEMMA Lowest ==
  ASSUME NEW S, S \subseteq Nat, S # {}
  PROVE  Min(S) \in S /\ \A y \in S : Min(S) <= y
<1> DEFINE R == {ss \in Nat \X Nat : ss[1] < ss[2]}
<1>1. IsWellFoundedOn(R, Nat)
  BY NatLessThanWellFounded DEF OpToRel
<1>2. \E m \in S : \A y \in S : ~(<<y, m>> \in R)
  <2> HIDE DEF R
  <2> QED  BY <1>1, WFMin
<1>3. PICK m \in S : \A y \in S : <<y, m>> \notin R
  BY <1>2
<1>4. ASSUME NEW y \in S PROVE m <= y
  <2>1. y \in Nat /\ m \in Nat
    OBVIOUS
  <2>2. <<y, m>> \in R <=> y < m
    BY <2>1
  <2>3. QED
    BY <1>3, <2>1, <2>2
<1>5. QED
  BY <1>3, <1>4 DEF Min

LEMMA Highest ==
  ASSUME NEW n \in Nat, NEW S, S \subseteq 0 .. n, S # {}
  PROVE  Max(S) \in S /\ \A y \in S : Max(S) >= y
<1> DEFINE T == {k \in 0 .. n : n - k \in S}
           m == Min(T)
<1>1. T \subseteq Nat
  OBVIOUS
<1>2. \A x \in S : n - x \in T /\ n - (n - x) = x
  OBVIOUS
<1>3. T # {}
  BY <1>2
<1> HIDE DEF T
<1>4. m \in T /\ \A y \in T : m <= y
  BY <1>1, <1>3, Lowest
<1> HIDE DEF m
<1>5. n - m \in S /\ m \in Nat
  BY <1>4 DEF T
<1>6. \A y \in S : n - m >= y
  <2>1. ASSUME NEW y \in S PROVE n - m >= y
    <3>1. m <= n - y
      BY <1>2, <1>4
    <3>2. y \in Int
      OBVIOUS
    <3>3. QED
      BY <1>5, <3>1, <3>2
  <2>2. QED
    BY <2>1
<1>7. QED
  BY <1>5, <1>6 DEF Max

UpTo(W, i) == {j \in W : j <= i}

(* The first max members of a set of positions: all of it, or up to the    *)
(* highest one taken.                                                      *)
LEMMA TakenFirst ==
  ASSUME NEW N \in Nat, NEW W, W \subseteq 1 .. N, NEW max \in Nat, max # 0,
         NEW taken, taken \subseteq W,
         \A i \in W : i \in taken <=> Cardinality(UpTo(W, i)) <= max
  PROVE  /\ Cardinality(taken) # max => taken = W
         /\ Cardinality(taken) = max =>
              Max(taken) \in taken /\ \A i \in W : i <= Max(taken) => i \in taken
<1> DEFINE upTo(i) == UpTo(W, i)
<1>0. \A i \in W : i \in Int /\ i \in Nat /\ i \in 0 .. N
  OBVIOUS
<1>1. IsFiniteSet(W) /\ \A S \in SUBSET W : IsFiniteSet(S) /\ Cardinality(S) \in Nat
  <2>1. IsFiniteSet(1 .. N)
    BY FS_Interval
  <2>2. IsFiniteSet(W)
    BY <2>1, FS_Subset
  <2>3. ASSUME NEW S \in SUBSET W PROVE IsFiniteSet(S) /\ Cardinality(S) \in Nat
    <3>1. IsFiniteSet(S)
      BY <2>2, FS_Subset
    <3>2. QED
      BY <3>1, FS_CardinalityType
  <2>4. QED
    BY <2>2, <2>3
<1>2. ASSUME NEW i \in W, NEW j \in W, i <= j
      PROVE  Cardinality(upTo(i)) <= Cardinality(upTo(j))
  <2>1. upTo(i) \in SUBSET upTo(j)
    <3>1. ASSUME NEW h, h \in upTo(i) PROVE h \in upTo(j)
      <4>1. h \in W /\ h <= i
        BY <3>1 DEF UpTo
      <4>2. h \in Int /\ i \in Int /\ j \in Int
        BY <1>0, <4>1
      <4>3. h <= j
        BY <1>2, <4>1, <4>2
      <4>4. QED
        BY <4>1, <4>3 DEF UpTo
    <3>2. QED
      BY <3>1
  <2>2. upTo(j) \in SUBSET W
    BY DEF UpTo
  <2>3. QED
    BY <1>1, <2>1, <2>2, FS_Subset
<1>3. \A i \in W : Cardinality(upTo(i)) \in Nat
  <2>1. \A i \in W : upTo(i) \in SUBSET W
    BY DEF UpTo
  <2>2. QED
    BY <1>1, <2>1
<1>4. taken \subseteq W /\ \A i \in W : i \in taken <=> Cardinality(upTo(i)) <= max
  OBVIOUS
<1> HIDE DEF upTo
<1>5. ASSUME Cardinality(taken) = max
      PROVE  Max(taken) \in taken /\ \A i \in W : i <= Max(taken) => i \in taken
  <2>1. taken # {}
    BY <1>5, FS_EmptySet
  <2>2. taken \subseteq 0 .. N
    BY <1>0
  <2>3. Max(taken) \in taken
    BY <2>1, <2>2, Highest
  <2>4. ASSUME NEW i \in W, i <= Max(taken) PROVE i \in taken
    <3>1. Max(taken) \in W
      BY <1>4, <2>3
    <3>2. Cardinality(upTo(i)) <= Cardinality(upTo(Max(taken)))
      BY <1>2, <2>4, <3>1
    <3>3. Cardinality(upTo(Max(taken))) <= max
      BY <1>4, <2>3, <3>1
    <3>4. Cardinality(upTo(i)) \in Nat /\ Cardinality(upTo(Max(taken))) \in Nat
      BY <1>3, <3>1
    <3>5. Cardinality(upTo(i)) <= max
      BY <3>2, <3>3, <3>4
    <3>6. QED
      BY <1>4, <3>5
  <2>5. QED
    BY <2>3, <2>4
<1>6. ASSUME taken # W
      PROVE  Cardinality(taken) = max
  <2> DEFINE rest == W \ taken
             i == Min(rest)
  <2>1. rest \subseteq Nat /\ rest # {}
    BY <1>0, <1>6
  <2>2. i \in rest /\ \A y \in rest : i <= y
    <3> HIDE DEF rest
    <3> QED  BY <2>1, Lowest
  <2> HIDE DEF i
  <2>3. i \in W /\ i \notin taken /\ \A y \in W : y < i => y \in taken
    <3>1. i \in W /\ i \notin taken /\ i \in Int /\ \A y \in W : y \in Int
      BY <2>2
    <3>2. QED
      BY <2>2, <3>1
  <2> HIDE DEF rest
  <2>4. Cardinality(upTo(i)) > max
    BY <1>3, <1>4, <2>3
  <2>5. \A j \in taken : j < i
    <3>1. ASSUME NEW j \in taken, i <= j PROVE FALSE
      <4>1. j \in W /\ Cardinality(upTo(j)) <= max
        BY <1>4
      <4>2. Cardinality(upTo(i)) <= Cardinality(upTo(j))
        BY <1>2, <2>3, <3>1, <4>1
      <4>3. Cardinality(upTo(i)) \in Nat /\ Cardinality(upTo(j)) \in Nat
        BY <1>3, <2>3, <4>1
      <4>4. QED
        BY <2>4, <4>1, <4>2, <4>3
    <3>2. i \in Int /\ \A j \in taken : j \in Int
      BY <1>4, <2>3
    <3>3. QED
      BY <3>1, <3>2
  <2>6. upTo(i) = taken \cup {i}
    <3>1. i \in Int /\ \A j \in W : j \in Int
      BY <2>3
    <3>2. ASSUME NEW h PROVE h \in upTo(i) <=> h \in taken \cup {i}
      <4>1. h \in upTo(i) <=> h \in W /\ h <= i
        BY DEF upTo, UpTo
      <4>2. CASE h = i
        BY <2>3, <3>1, <4>1, <4>2
      <4>3. CASE h # i
        <5>1. h \in W => (h <= i <=> h < i)
          BY <3>1, <4>3
        <5>2. QED
          BY <2>3, <2>5, <4>1, <4>3, <5>1
      <4>4. QED
        BY <4>2, <4>3
    <3>3. QED
      BY <3>2
  <2>7. Cardinality(upTo(i)) = Cardinality(taken) + 1 /\ Cardinality(taken) \in Nat
    <3>1. IsFiniteSet(taken) /\ Cardinality(taken) \in Nat
      BY <1>1, <1>4
    <3>2. QED
      BY <2>3, <2>6, <3>1, FS_AddElement
  <2>8. Cardinality(taken) >= max
    BY <2>4, <2>7
  <2>9. taken # {}
    BY <2>8, FS_EmptySet
  <2>10. Max(taken) \in taken /\ \A y \in taken : Max(taken) >= y
    <3>1. taken \subseteq 0 .. N
      BY <1>0
    <3>2. QED
      BY <2>9, <3>1, Highest
  <2>11. upTo(Max(taken)) = taken
    <3> DEFINE m == Max(taken)
    <3>1. m \in W /\ m \in taken /\ \A y \in taken : m >= y
      BY <2>10
    <3> HIDE DEF m
    <3>2. m < i /\ i \in Int /\ m \in Int /\ \A j \in W : j \in Int
      BY <1>0, <2>3, <2>5, <3>1
    <3>3. ASSUME NEW h PROVE h \in upTo(m) <=> h \in taken
      <4>1. h \in upTo(m) <=> h \in W /\ h <= m
        BY DEF upTo, UpTo
      <4>2. h \in W /\ h <= m => h \in W /\ h < i
        BY <3>2
      <4>3. h \in taken => h \in W /\ m >= h /\ h \in Int
        BY <3>1, <3>2
      <4>4. QED
        BY <2>3, <3>2, <4>1, <4>2, <4>3
    <3>4. upTo(m) = taken
      BY <3>3
    <3>5. QED
      BY <3>4 DEF m
  <2>12. Cardinality(taken) <= max
    BY <1>4, <2>10, <2>11
  <2>13. QED
    BY <2>7, <2>8, <2>12
<1>7. QED
  BY <1>5, <1>6

(* LogicalShippingMain stops at start, or passes over nothing that it does *)
(* not return.                                                             *)
LEMMA Shipping ==
  ASSUME LogicalTypes, NEW start \in Nat, NEW max \in Nat,
         NEW r, r = LogicalShippingMain(start, max)
  PROVE  /\ r.end_lsn \in Nat /\ r.lsns \in SUBSET Nat
         /\ r.end_lsn = start \/ r.end_lsn <= GetXLogInsertRecPtr
         /\ \A i \in DOMAIN wal :
              Decodes(wal[i]) /\ LsnOf(i) >= start /\ LsnOf(i) < r.end_lsn
                => LsnOf(i) \in r.lsns
<1> DEFINE readable == IF start % 2 = 0 THEN {i \in DOMAIN wal : LsnOf(i) >= start} ELSE {}
           wanted == {i \in readable : Decodes(wal[i])}
           taken == {i \in wanted :
                       max = 0 \/ Cardinality({j \in wanted : j <= i}) <= max}
           last == IF max # 0 /\ Cardinality(taken) = max THEN Max(taken) ELSE Len(wal)
<1>1. r.lsns = {LsnOf(i) : i \in taken}
      /\ r.end_lsn = IF readable = {} THEN start ELSE LsnOf(last + 1)
  BY DEF LogicalShippingMain
<1>2. /\ Len(wal) \in Nat /\ readable \subseteq 1 .. Len(wal)
      /\ wanted \subseteq readable /\ taken \subseteq wanted
      /\ wanted \subseteq 1 .. Len(wal)
  BY DEF LogicalTypes
<1>3. max = 0 => taken = wanted
  OBVIOUS
<1>4. ASSUME max # 0
      PROVE  /\ Cardinality(taken) # max => taken = wanted
             /\ Cardinality(taken) = max =>
                  Max(taken) \in taken /\ \A i \in wanted : i <= Max(taken) => i \in taken
  <2>1. \A i \in wanted : i \in taken <=> Cardinality(UpTo(wanted, i)) <= max
    BY <1>4 DEF UpTo
  <2> HIDE DEF readable, wanted, taken
  <2>2. QED
    BY <1>2, <1>4, <2>1, TakenFirst
<1>5. \A i \in DOMAIN wal : Decodes(wal[i]) /\ LsnOf(i) >= start /\ readable # {} => i \in wanted
  OBVIOUS
<1>6. readable = {} => r.end_lsn = start /\ taken = {}
  BY <1>1, <1>2
<1>7. readable # {} => r.end_lsn = 2 * (last + 1)
  BY <1>1
<1> HIDE DEF readable, wanted, taken
<1>8. last \in 0 .. Len(wal) /\ \A i \in wanted : i <= last => i \in taken
  <2>1. CASE max # 0 /\ Cardinality(taken) = max
    <3>1. last = Max(taken)
      BY <2>1
    <3> HIDE DEF last
    <3>2. last \in taken
      BY <1>4, <2>1, <3>1
    <3>3. last \in 1 .. Len(wal)
      BY <1>2, <3>2
    <3>4. QED
      BY <1>2, <1>4, <2>1, <3>1, <3>3
  <2>2. CASE ~(max # 0 /\ Cardinality(taken) = max)
    BY <1>2, <1>3, <1>4, <2>2
  <2>3. QED
    BY <2>1, <2>2
<1> HIDE DEF last
<1>9. r.end_lsn \in Nat /\ (r.end_lsn = start \/ r.end_lsn <= GetXLogInsertRecPtr)
  BY <1>2, <1>6, <1>7, <1>8 DEF GetXLogInsertRecPtr
<1>10. r.lsns \in SUBSET Nat
  <2>1. \A i \in taken : 2 * i \in Nat
    BY <1>2
  <2>2. QED
    BY <1>1, <2>1
<1>11. ASSUME NEW i \in DOMAIN wal, Decodes(wal[i]), LsnOf(i) >= start, LsnOf(i) < r.end_lsn
       PROVE  LsnOf(i) \in r.lsns
  <2>1. i \in 1 .. Len(wal)
    BY DEF LogicalTypes
  <2>2. readable # {}
    BY <1>2, <1>6, <1>11, <2>1
  <2>3. i \in wanted
    BY <1>5, <1>11, <2>2
  <2>4. i <= last
    BY <1>2, <1>7, <1>8, <1>11, <2>1, <2>2
  <2>5. QED
    BY <1>1, <1>8, <2>3, <2>4
<1>12. QED
  BY <1>9, <1>10, <1>11

(* ReplicationSlotAdvance moves one of the two positions, and forward.     *)
LEMMA AdvancedIs ==
  ASSUME NEW s \in ReplicationSlot, NEW upto \in Nat, NEW a, a = Advanced(s, upto)
  PROVE  /\ a \in ReplicationSlot /\ a.type = s.type /\ a.persistence = s.persistence
         /\ s.type = "logical" =>
              /\ a.restart_lsn = s.restart_lsn
              /\ a.confirmed_flush_lsn =
                   IF s.confirmed_flush_lsn >= upto THEN s.confirmed_flush_lsn ELSE upto
<1>1. /\ s.restart_lsn \in Nat /\ s.confirmed_flush_lsn \in Nat
      /\ s.type \in Types /\ s.persistence \in Persistences
      /\ s.active_pid \in Pids \cup {NoPid}
  BY DEF ReplicationSlot
<1>2. Max({s.restart_lsn, upto}) = IF s.restart_lsn >= upto THEN s.restart_lsn ELSE upto
  BY <1>1, MaxOfTwo
<1>3. Max({s.confirmed_flush_lsn, upto}) =
        IF s.confirmed_flush_lsn >= upto THEN s.confirmed_flush_lsn ELSE upto
  BY <1>1, MaxOfTwo
<1>4. CASE s.type = "physical"
  <2>1. a = [s EXCEPT !.restart_lsn = Max({s.restart_lsn, upto}), !.dirty = TRUE]
    BY <1>4 DEF Advanced
  <2>2. Max({s.restart_lsn, upto}) \in Nat
    BY <1>1, <1>2
  <2>3. a \in ReplicationSlot /\ a.type = s.type /\ a.persistence = s.persistence
    BY <2>1, <2>2 DEF ReplicationSlot
  <2>4. QED
    BY <1>4, <2>3
<1>5. CASE s.type # "physical"
  <2>1. a = [s EXCEPT !.confirmed_flush_lsn = Max({s.confirmed_flush_lsn, upto}), !.dirty = TRUE]
    BY <1>5 DEF Advanced
  <2>2. QED
    BY <1>1, <1>3, <1>5, <2>1 DEF ReplicationSlot
<1>6. QED
  BY <1>4, <1>5

LEMMA LogicalAdvanced ==
  ASSUME NEW s \in ReplicationSlot, s.type = "logical", NEW upto \in Nat
  PROVE  /\ Advanced(s, upto).type = "logical"
         /\ Advanced(s, upto).restart_lsn = s.restart_lsn
         /\ Advanced(s, upto).confirmed_flush_lsn =
              IF s.confirmed_flush_lsn >= upto THEN s.confirmed_flush_lsn ELSE upto
<1> DEFINE a == Advanced(s, upto)
<1>1. /\ a.type = s.type /\ a.restart_lsn = s.restart_lsn
      /\ a.confirmed_flush_lsn =
           IF s.confirmed_flush_lsn >= upto THEN s.confirmed_flush_lsn ELSE upto
  <2>1. a = Advanced(s, upto)
    OBVIOUS
  <2> HIDE DEF a
  <2>2. QED
    BY <2>1, AdvancedIs, Zenon
<1>2. QED
  BY <1>1

-----------------------------------------------------------------------------
(***************************************************************************)
(* Slots                                                                   *)
(***************************************************************************)

(* What LogicalInv says of one slot does not change when another part of   *)
(* it does.                                                                *)
LEMMA SlotsOnly ==
  ASSUME LogicalInv, UNCHANGED <<wal, files, delivered, skipped>>,
         NEW n \in DOMAIN slots, NEW v \in ReplicationSlot,
         slots' = [slots EXCEPT ![n] = v],
         v.type = slots[n].type, v.restart_lsn = slots[n].restart_lsn,
         v.confirmed_flush_lsn = slots[n].confirmed_flush_lsn
  PROVE  LogicalInv'
<1>1. LogicalTypes'
  BY DEF LogicalInv, LogicalTypes
<1>2. ASSUME NEW m \in DOMAIN slots'
      PROVE  /\ Kept(slots[m], delivered[m], skipped[m])'
             /\ Saved(slots[m], files[m])'
  <2>1. m \in DOMAIN slots /\ Kept(slots[m], delivered[m], skipped[m]) /\ Saved(slots[m], files[m])
    BY DEF LogicalInv
  <2>2. /\ slots'[m].type = slots[m].type /\ slots'[m].restart_lsn = slots[m].restart_lsn
        /\ slots'[m].confirmed_flush_lsn = slots[m].confirmed_flush_lsn
    BY <2>1 DEF LogicalInv, LogicalTypes
  <2>3. QED
    BY <2>1, <2>2 DEF Kept, Saved, GetXLogInsertRecPtr
<1>3. QED
  BY <1>1, <1>2 DEF LogicalInv

(* One slot, its file and its history change together.                     *)
LEMMA SlotWritten ==
  ASSUME LogicalInv, UNCHANGED wal, NEW n, NEW v \in ReplicationSlot,
         NEW d \in SUBSET Nat, NEW k \in Nat,
         slots' = With(slots, n, v), files' = With(files, n, SlotFile(v)),
         delivered' = With(delivered, n, d), skipped' = With(skipped, n, k),
         Kept(v, d, k)
  PROVE  LogicalInv'
<1>1. SlotFile(v) \in SlotFiles /\ Saved(v, SlotFile(v))
  BY DEF SlotFile, SlotFiles, ReplicationSlot, Saved
<1>2. DOMAIN slots' = DOMAIN slots \cup {n}
  BY DEF With
<1>3. LogicalTypes'
  BY <1>1, <1>2 DEF LogicalInv, LogicalTypes, With
<1>4. ASSUME NEW m \in DOMAIN slots'
      PROVE  /\ Kept(slots[m], delivered[m], skipped[m])'
             /\ Saved(slots[m], files[m])'
  <2>1. CASE m = n
    <3>1. slots'[m] = v /\ files'[m] = SlotFile(v) /\ delivered'[m] = d /\ skipped'[m] = k
      BY <2>1, <1>3 DEF With
    <3>2. QED
      BY <1>1, <3>1 DEF Kept, GetXLogInsertRecPtr, Saved
  <2>2. CASE m # n
    <3>1. m \in DOMAIN slots
      BY <1>2, <2>2
    <3>2. /\ slots'[m] = slots[m] /\ files'[m] = files[m]
          /\ delivered'[m] = delivered[m] /\ skipped'[m] = skipped[m]
      BY <2>2, <3>1 DEF With, LogicalInv, LogicalTypes
    <3>3. Kept(slots[m], delivered[m], skipped[m]) /\ Saved(slots[m], files[m])
      BY <3>1 DEF LogicalInv
    <3>4. QED
      BY <3>2, <3>3 DEF Kept, GetXLogInsertRecPtr, Saved
  <2>3. QED
    BY <2>1, <2>2
<1>5. QED
  BY <1>3, <1>4 DEF LogicalInv

(* A record is added beyond every position that was not moved by hand.     *)
LEMMA XLogInsertKeeps ==
  ASSUME LogicalInv, NEW kind \in Kinds, XLogInsert(kind)
  PROVE  LogicalInv'
<1>1. /\ wal' = Append(wal, kind) /\ wal \in Seq(Kinds)
      /\ UNCHANGED <<slots, files, delivered, skipped>>
  BY DEF XLogInsert, LogicalInv, LogicalTypes, logicalVars
<1>2. /\ wal' \in Seq(Kinds) /\ Len(wal) \in Nat /\ Len(wal') = Len(wal) + 1
      /\ DOMAIN wal = 1 .. Len(wal) /\ DOMAIN wal' = 1 .. Len(wal) + 1
      /\ \A i \in 1 .. Len(wal) : wal'[i] = wal[i]
  BY <1>1
<1>3. LogicalTypes'
  BY <1>1, <1>2 DEF LogicalInv, LogicalTypes
<1>4. ASSUME NEW n \in DOMAIN slots'
      PROVE  /\ Kept(slots[n], delivered[n], skipped[n])'
             /\ Saved(slots[n], files[n])'
  <2>1. Kept(slots[n], delivered[n], skipped[n]) /\ Saved(slots[n], files[n])
    BY <1>1 DEF LogicalInv
  <2>2. slots[n] \in ReplicationSlot /\ skipped[n] \in Nat
    BY <1>1 DEF LogicalInv, LogicalTypes
  <2>3. slots[n].confirmed_flush_lsn \in Nat /\ slots[n].restart_lsn \in Nat
    BY <2>2 DEF ReplicationSlot
  <2>4. ASSUME slots[n].type = "logical", NEW i \in DOMAIN wal', Decodes(wal'[i]),
               LsnOf(i) >= slots[n].restart_lsn, LsnOf(i) >= skipped[n],
               LsnOf(i) < slots[n].confirmed_flush_lsn
        PROVE  LsnOf(i) \in delivered[n]
    <3>1. CASE i \in 1 .. Len(wal)
      BY <1>2, <2>1, <2>4, <3>1 DEF Kept
    <3>2. CASE i = Len(wal) + 1
      BY <1>2, <2>1, <2>2, <2>3, <2>4, <3>2 DEF Kept, GetXLogInsertRecPtr
    <3>3. QED
      BY <1>2, <3>1, <3>2
  <2>5. slots[n].type = "logical" =>
          \/ slots[n].confirmed_flush_lsn <= GetXLogInsertRecPtr'
          \/ slots[n].confirmed_flush_lsn <= skipped[n]
    BY <1>2, <2>1, <2>2, <2>3 DEF Kept, GetXLogInsertRecPtr
  <2>6. QED
    BY <1>1, <2>1, <2>4, <2>5 DEF Kept, Saved
<1>5. QED
  BY <1>3, <1>4 DEF LogicalInv

LEMMA CreateKeeps ==
  ASSUME LogicalInv, NEW n, NEW type \in Types, NEW persistence \in Persistences,
         ReplicationSlotCreate(n, type, persistence)
  PROVE  LogicalInv'
<1> DEFINE s == [type |-> type, persistence |-> persistence,
                 restart_lsn |-> GetXLogInsertRecPtr,
                 confirmed_flush_lsn |-> GetXLogInsertRecPtr,
                 active_pid |-> NoPid, dirty |-> TRUE]
<1>1. /\ slots' = With(slots, n, s) /\ files' = With(files, n, SlotFile(s))
      /\ delivered' = With(delivered, n, {}) /\ skipped' = With(skipped, n, 0)
      /\ UNCHANGED wal
  BY DEF ReplicationSlotCreate, WriteSlotFile
<1>2. GetXLogInsertRecPtr \in Nat
  BY DEF GetXLogInsertRecPtr, LogicalInv, LogicalTypes
<1>3. s \in ReplicationSlot
  BY <1>2 DEF ReplicationSlot
<1>4. s.restart_lsn = GetXLogInsertRecPtr /\ s.confirmed_flush_lsn = GetXLogInsertRecPtr
  OBVIOUS
<1> HIDE DEF s
<1>5. \A i \in DOMAIN wal : LsnOf(i) \in Nat
  BY DEF LogicalInv, LogicalTypes
<1>6. Kept(s, {}, 0)
  BY <1>2, <1>4, <1>5 DEF Kept
<1>7. QED
  BY <1>1, <1>3, <1>6, SlotWritten

LEMMA AcquireKeeps ==
  ASSUME LogicalInv, NEW n, NEW pid \in Pids, ReplicationSlotAcquire(n, pid)
  PROVE  LogicalInv'
<1>1. /\ n \in DOMAIN slots /\ UNCHANGED <<wal, files, delivered, skipped>>
      /\ slots' = [slots EXCEPT ![n] = [slots[n] EXCEPT !.active_pid = pid, !.dirty = TRUE]]
  BY DEF ReplicationSlotAcquire, LogicalInv, LogicalTypes
<1>2. slots[n] \in ReplicationSlot
  BY <1>1 DEF LogicalInv, LogicalTypes
<1>3. [slots[n] EXCEPT !.active_pid = pid, !.dirty = TRUE] \in ReplicationSlot
  BY <1>2 DEF ReplicationSlot
<1>4. QED
  BY <1>1, <1>2, <1>3, SlotsOnly DEF ReplicationSlot

LEMMA ReleaseKeeps ==
  ASSUME LogicalInv, NEW pid \in Pids, ReplicationSlotRelease(pid)
  PROVE  LogicalInv'
<1>1. PICK n \in DOMAIN slots :
        slots' = [slots EXCEPT ![n].active_pid = NoPid, ![n].dirty = TRUE]
  BY DEF ReplicationSlotRelease
<1>2. /\ UNCHANGED <<wal, files, delivered, skipped>>
      /\ slots' = [slots EXCEPT ![n] = [slots[n] EXCEPT !.active_pid = NoPid, !.dirty = TRUE]]
  BY <1>1 DEF ReplicationSlotRelease, LogicalInv, LogicalTypes
<1>3. slots[n] \in ReplicationSlot
  BY DEF LogicalInv, LogicalTypes
<1>4. [slots[n] EXCEPT !.active_pid = NoPid, !.dirty = TRUE] \in ReplicationSlot
  BY <1>3 DEF ReplicationSlot
<1>5. QED
  BY <1>2, <1>3, <1>4, SlotsOnly DEF ReplicationSlot

LEMMA PersistKeeps ==
  ASSUME LogicalInv, NEW n, ReplicationSlotPersist(n)
  PROVE  LogicalInv'
<1>1. /\ n \in DOMAIN slots /\ UNCHANGED <<wal, files, delivered, skipped>>
      /\ slots' = [slots EXCEPT ![n] =
           [slots[n] EXCEPT !.persistence = "persistent", !.dirty = TRUE]]
  BY DEF ReplicationSlotPersist, LogicalInv, LogicalTypes
<1>2. slots[n] \in ReplicationSlot
  BY <1>1 DEF LogicalInv, LogicalTypes
<1>3. [slots[n] EXCEPT !.persistence = "persistent", !.dirty = TRUE] \in ReplicationSlot
  BY <1>2 DEF ReplicationSlot, Persistences
<1>4. QED
  BY <1>1, <1>2, <1>3, SlotsOnly DEF ReplicationSlot

LEMMA DropKeeps ==
  ASSUME LogicalInv, NEW n, ReplicationSlotDrop(n)
  PROVE  LogicalInv'
<1>1. /\ slots' = Without(slots, n) /\ files' = Without(files, n)
      /\ delivered' = Without(delivered, n) /\ skipped' = Without(skipped, n)
      /\ UNCHANGED wal /\ DOMAIN slots' = DOMAIN slots \ {n}
  BY DEF ReplicationSlotDrop, Without
<1>2. LogicalTypes'
  BY <1>1 DEF LogicalInv, LogicalTypes, Without
<1>3. ASSUME NEW m \in DOMAIN slots'
      PROVE  /\ Kept(slots[m], delivered[m], skipped[m])'
             /\ Saved(slots[m], files[m])'
  <2>1. m \in DOMAIN slots /\ Kept(slots[m], delivered[m], skipped[m]) /\ Saved(slots[m], files[m])
    BY <1>1 DEF LogicalInv
  <2>2. /\ slots'[m] = slots[m] /\ files'[m] = files[m]
        /\ delivered'[m] = delivered[m] /\ skipped'[m] = skipped[m]
    BY <1>1, <2>1 DEF Without, LogicalInv, LogicalTypes
  <2>3. QED
    BY <1>1, <2>1, <2>2 DEF Kept, GetXLogInsertRecPtr, Saved
<1>4. QED
  BY <1>2, <1>3 DEF LogicalInv

(* MoveTo writes the slot with its file.                                   *)
LEMMA MoveToKeeps ==
  ASSUME LogicalInv, UNCHANGED wal, NEW n \in DOMAIN slots, NEW upto \in Nat,
         MoveTo(n, upto), NEW d \in SUBSET Nat, NEW k \in Nat,
         delivered' = [delivered EXCEPT ![n] = d], skipped' = [skipped EXCEPT ![n] = k],
         Kept(Advanced(slots[n], upto), d, k)
  PROVE  LogicalInv'
<1> DEFINE v == Advanced(slots[n], upto)
<1>1. slots[n] \in ReplicationSlot
  BY DEF LogicalInv, LogicalTypes
<1>2. v \in ReplicationSlot /\ Kept(v, d, k)
  BY <1>1, AdvancedIs
<1>3. slots' = [slots EXCEPT ![n] = v] /\ files' = With(files, n, SlotFile(v))
  BY DEF MoveTo, WriteSlotFile
<1> HIDE DEF v
<1>4. slots' = With(slots, n, v)
  BY <1>3 DEF With, LogicalInv, LogicalTypes
<1>5. delivered' = With(delivered, n, d) /\ skipped' = With(skipped, n, k)
  BY DEF With, LogicalInv, LogicalTypes
<1>6. QED
  BY <1>2, <1>3, <1>4, <1>5, SlotWritten

LEMMA AdvanceKeeps ==
  ASSUME LogicalInv, NEW n, NEW upto \in Nat, ReplicationSlotAdvance(n, upto)
  PROVE  LogicalInv'
<1> DEFINE v == Advanced(slots[n], upto)
           k == Max({skipped[n], upto})
           c == slots[n].confirmed_flush_lsn
<1>1. /\ n \in DOMAIN slots /\ MoveTo(n, upto) /\ UNCHANGED <<wal, delivered>>
      /\ skipped' = [skipped EXCEPT ![n] = k]
  BY DEF ReplicationSlotAdvance
<1>2. slots[n] \in ReplicationSlot /\ skipped[n] \in Nat /\ delivered[n] \in SUBSET Nat
  BY <1>1 DEF LogicalInv, LogicalTypes
<1>3. c \in Nat /\ slots[n].restart_lsn \in Nat
  BY <1>2 DEF ReplicationSlot
<1>4. k \in Nat /\ k >= skipped[n] /\ k >= upto
  BY <1>2, MaxOfTwo
<1>5. delivered' = [delivered EXCEPT ![n] = delivered[n]]
  BY <1>1 DEF LogicalInv, LogicalTypes
<1>6. /\ v.type = slots[n].type
      /\ v.type = "logical" => /\ v.restart_lsn = slots[n].restart_lsn
                               /\ v.confirmed_flush_lsn = IF c >= upto THEN c ELSE upto
  BY <1>2, AdvancedIs, SMTT(20)
<1> HIDE DEF v, k
<1>7. Kept(v, delivered[n], k)
  <2>1. Kept(slots[n], delivered[n], skipped[n])
    BY <1>1 DEF LogicalInv
  <2>2. \A i \in DOMAIN wal : LsnOf(i) \in Nat
    BY DEF LogicalInv, LogicalTypes
  <2>3. GetXLogInsertRecPtr \in Nat
    BY DEF GetXLogInsertRecPtr, LogicalInv, LogicalTypes
  <2>4. QED
    BY <1>2, <1>3, <1>4, <1>6, <2>1, <2>2, <2>3 DEF Kept
<1>8. QED
  BY <1>1, <1>2, <1>4, <1>5, <1>7, MoveToKeeps DEF v

LEMMA GetChangesKeeps ==
  ASSUME LogicalInv, NEW n, NEW upto \in Nat, NEW max \in Nat,
         PgLogicalSlotGetChanges(n, upto, max)
  PROVE  LogicalInv'
<1> DEFINE c == slots[n].confirmed_flush_lsn
           r == LogicalShippingMain(c, max)
           end == IF upto # 0 THEN Min({r.end_lsn, upto}) ELSE r.end_lsn
           d == delivered[n] \cup r.lsns
           v == Advanced(slots[n], end)
<1>1. /\ n \in DOMAIN slots /\ slots[n].type = "logical" /\ UNCHANGED <<wal, skipped>>
      /\ delivered' = [delivered EXCEPT ![n] = d]
      /\ IF end > c THEN MoveTo(n, end) ELSE UNCHANGED <<slots, files>>
  BY DEF PgLogicalSlotGetChanges
<1>2. slots[n] \in ReplicationSlot /\ skipped[n] \in Nat /\ delivered[n] \in SUBSET Nat
  BY <1>1 DEF LogicalInv, LogicalTypes
<1>3. c \in Nat /\ slots[n].restart_lsn \in Nat
  BY <1>2 DEF ReplicationSlot
<1> HIDE DEF c
<1>4. LogicalTypes
  BY DEF LogicalInv
<1>5. /\ r.end_lsn \in Nat /\ r.lsns \in SUBSET Nat
      /\ r.end_lsn = c \/ r.end_lsn <= GetXLogInsertRecPtr
      /\ \A i \in DOMAIN wal :
           Decodes(wal[i]) /\ LsnOf(i) >= c /\ LsnOf(i) < r.end_lsn => LsnOf(i) \in r.lsns
  BY <1>3, <1>4, Shipping
<1> HIDE DEF r
<1>6. end \in Nat /\ end <= r.end_lsn
  BY <1>5, MinOfTwo
<1> HIDE DEF end
<1>7. d \in SUBSET Nat /\ delivered[n] \subseteq d /\ r.lsns \subseteq d
  BY <1>2, <1>5
<1> HIDE DEF d
<1>8. Kept(slots[n], delivered[n], skipped[n]) /\ Saved(slots[n], files[n])
  BY <1>1 DEF LogicalInv
<1>9. CASE end > c
  <2>1. MoveTo(n, end) /\ skipped' = [skipped EXCEPT ![n] = skipped[n]]
    BY <1>1, <1>9 DEF LogicalInv, LogicalTypes
  <2>2. /\ v.type = slots[n].type /\ v.restart_lsn = slots[n].restart_lsn
        /\ v.confirmed_flush_lsn = end
    <3>1. /\ v.type = slots[n].type /\ v.restart_lsn = slots[n].restart_lsn
          /\ v.confirmed_flush_lsn = IF c >= end THEN c ELSE end
      <4>1. slots[n] \in ReplicationSlot /\ slots[n].type = "logical" /\ end \in Nat
        BY <1>1, <1>2, <1>6
      <4>2. /\ Advanced(slots[n], end).type = "logical"
            /\ Advanced(slots[n], end).restart_lsn = slots[n].restart_lsn
            /\ Advanced(slots[n], end).confirmed_flush_lsn =
                 IF slots[n].confirmed_flush_lsn >= end
                 THEN slots[n].confirmed_flush_lsn ELSE end
        BY <4>1, LogicalAdvanced, Zenon
      <4>3. QED
        BY <4>1, <4>2 DEF c
    <3> HIDE DEF v
    <3>2. QED
      BY <1>3, <1>6, <1>9, <3>1
  <2> HIDE DEF v
  <2>3. \A i \in DOMAIN wal : LsnOf(i) \in Nat
    BY DEF LogicalInv, LogicalTypes
  <2>4. GetXLogInsertRecPtr \in Nat
    BY DEF GetXLogInsertRecPtr, LogicalInv, LogicalTypes
  <2>5. \A i \in DOMAIN wal :
          Decodes(wal[i]) /\ LsnOf(i) >= v.restart_lsn /\ LsnOf(i) >= skipped[n]
                          /\ LsnOf(i) < v.confirmed_flush_lsn => LsnOf(i) \in d
    BY <1>1, <1>3, <1>5, <1>6, <1>7, <1>8, <2>2, <2>3 DEF Kept, c
  <2>6. v.confirmed_flush_lsn <= GetXLogInsertRecPtr
    BY <1>3, <1>5, <1>6, <1>9, <2>2, <2>4
  <2>7. Kept(v, d, skipped[n])
    BY <2>5, <2>6 DEF Kept
  <2>8. QED
    BY <1>1, <1>2, <1>6, <1>7, <2>1, <2>7, MoveToKeeps DEF v
<1>10. CASE ~(end > c)
  <2>1. UNCHANGED <<slots, files, skipped, wal>>
    BY <1>1, <1>10
  <2>2. LogicalTypes'
    BY <1>1, <1>7, <2>1 DEF LogicalInv, LogicalTypes
  <2>3. ASSUME NEW m \in DOMAIN slots
        PROVE  Kept(slots[m], delivered'[m], skipped[m]) /\ Saved(slots[m], files[m])
    <3>1. Kept(slots[m], delivered[m], skipped[m]) /\ Saved(slots[m], files[m])
      BY DEF LogicalInv
    <3>2. delivered[m] \subseteq delivered'[m]
      BY <1>1, <1>7 DEF LogicalInv, LogicalTypes
    <3>3. QED
      BY <3>1, <3>2 DEF Kept
  <2>4. QED
    BY <2>1, <2>2, <2>3 DEF LogicalInv, Kept, Saved, GetXLogInsertRecPtr
<1>11. QED
  BY <1>9, <1>10

LEMMA FlushSlotsKeeps ==
  ASSUME LogicalInv, ReplicationSlotFlushSlots
  PROVE  LogicalInv'
<1>1. DOMAIN files = DOMAIN slots /\ UNCHANGED <<wal, delivered, skipped>>
  BY DEF ReplicationSlotFlushSlots, LogicalInv, LogicalTypes
<1>2. /\ DOMAIN slots' = DOMAIN slots /\ DOMAIN files' = DOMAIN slots
      /\ \A n \in DOMAIN slots :
           /\ slots'[n] = [slots[n] EXCEPT !.dirty = FALSE]
           /\ files'[n] = IF slots[n].dirty THEN SlotFile(slots[n]) ELSE files[n]
  BY <1>1 DEF ReplicationSlotFlushSlots
<1>3. ASSUME NEW n \in DOMAIN slots
      PROVE  /\ slots'[n] \in ReplicationSlot /\ files'[n] \in SlotFiles
             /\ Kept(slots'[n], delivered[n], skipped[n]) /\ Saved(slots'[n], files'[n])
  <2>1. /\ slots[n] \in ReplicationSlot /\ files[n] \in SlotFiles
        /\ Kept(slots[n], delivered[n], skipped[n]) /\ Saved(slots[n], files[n])
    BY DEF LogicalInv, LogicalTypes
  <2>2. /\ slots'[n] \in ReplicationSlot /\ slots'[n].type = slots[n].type
        /\ slots'[n].restart_lsn = slots[n].restart_lsn
        /\ slots'[n].confirmed_flush_lsn = slots[n].confirmed_flush_lsn
    BY <1>2, <2>1 DEF ReplicationSlot
  <2>3. SlotFile(slots[n]) \in SlotFiles /\ Saved(slots[n], SlotFile(slots[n]))
    BY <2>1 DEF SlotFile, SlotFiles, ReplicationSlot, Saved
  <2>4. files'[n] \in SlotFiles /\ Saved(slots[n], files'[n])
    BY <1>2, <2>1, <2>3
  <2>5. QED
    BY <2>1, <2>2, <2>4 DEF Kept, Saved
<1>4. slots' \in [DOMAIN slots -> ReplicationSlot] /\ files' \in [DOMAIN slots -> SlotFiles]
  BY <1>1, <1>3 DEF ReplicationSlotFlushSlots
<1>5. LogicalTypes'
  BY <1>1, <1>2, <1>4 DEF LogicalInv, LogicalTypes
<1>6. QED
  BY <1>1, <1>2, <1>3, <1>5 DEF LogicalInv, Kept, Saved, GetXLogInsertRecPtr

LEMMA LoadSlotsKeeps ==
  ASSUME LogicalInv, ReplicationSlotLoadSlots
  PROVE  LogicalInv'
<1>1. DOMAIN files = DOMAIN slots /\ UNCHANGED <<wal, files, delivered, skipped>>
  BY DEF ReplicationSlotLoadSlots, LogicalInv, LogicalTypes
<1>2. /\ DOMAIN slots' = DOMAIN slots
      /\ \A n \in DOMAIN slots : slots'[n] =
           [type |-> files[n].type, persistence |-> files[n].persistence,
            restart_lsn |-> files[n].restart_lsn,
            confirmed_flush_lsn |-> files[n].confirmed_flush_lsn,
            active_pid |-> NoPid, dirty |-> FALSE]
  BY <1>1 DEF ReplicationSlotLoadSlots
<1>3. ASSUME NEW n \in DOMAIN slots
      PROVE  /\ slots'[n] \in ReplicationSlot
             /\ Kept(slots'[n], delivered[n], skipped[n]) /\ Saved(slots'[n], files[n])
  <2>1. /\ files[n] \in SlotFiles
        /\ Kept(slots[n], delivered[n], skipped[n]) /\ Saved(slots[n], files[n])
    BY DEF LogicalInv, LogicalTypes
  <2>2. /\ slots'[n] \in ReplicationSlot /\ slots'[n].type = files[n].type
        /\ slots'[n].restart_lsn = files[n].restart_lsn
        /\ slots'[n].confirmed_flush_lsn = files[n].confirmed_flush_lsn
    <3>1. /\ files[n].type \in Types /\ files[n].persistence \in Persistences
          /\ files[n].restart_lsn \in Nat /\ files[n].confirmed_flush_lsn \in Nat
      BY <2>1 DEF SlotFiles
    <3>2. NoPid \in Pids \cup {NoPid}
      OBVIOUS
    <3>3. [type |-> files[n].type, persistence |-> files[n].persistence,
           restart_lsn |-> files[n].restart_lsn,
           confirmed_flush_lsn |-> files[n].confirmed_flush_lsn,
           active_pid |-> NoPid, dirty |-> FALSE] \in ReplicationSlot
      BY <3>1, <3>2 DEF ReplicationSlot
    <3>4. slots'[n] \in ReplicationSlot
      BY <1>2, <3>3, Zenon
    <3>5. /\ slots'[n].type = files[n].type /\ slots'[n].restart_lsn = files[n].restart_lsn
          /\ slots'[n].confirmed_flush_lsn = files[n].confirmed_flush_lsn
      BY <1>2
    <3>6. QED
      BY <3>4, <3>5
  <2>3. QED
    BY <2>1, <2>2 DEF Kept, Saved
<1>4. slots' \in [DOMAIN slots -> ReplicationSlot]
  BY <1>1, <1>3 DEF ReplicationSlotLoadSlots
<1>5. LogicalTypes'
  BY <1>1, <1>2, <1>4 DEF LogicalInv, LogicalTypes
<1>6. QED
  BY <1>1, <1>2, <1>3, <1>5 DEF LogicalInv, Kept, Saved, GetXLogInsertRecPtr

LEMMA LogicalKeeps ==
  ASSUME LogicalInv, Logical
  PROVE  LogicalInv'
<1>1. Lsns \subseteq Nat /\ 0 .. 1 \subseteq Nat
  BY MaxRecordsAssumption DEF Lsns
<1>2. ASSUME NEW kind \in Kinds, XLogInsert(kind) PROVE LogicalInv'
  BY <1>2, XLogInsertKeeps
<1>3. ASSUME NEW n \in Slots, NEW type \in Types, NEW p \in Persistences,
             ReplicationSlotCreate(n, type, p)
      PROVE  LogicalInv'
  BY <1>3, CreateKeeps
<1>4. ASSUME NEW n \in Slots, NEW pid \in Pids, ReplicationSlotAcquire(n, pid) PROVE LogicalInv'
  BY <1>4, AcquireKeeps
<1>5. ASSUME NEW n \in Slots, ReplicationSlotDrop(n) PROVE LogicalInv'
  BY <1>5, DropKeeps
<1>6. ASSUME NEW n \in Slots, ReplicationSlotPersist(n) PROVE LogicalInv'
  BY <1>6, PersistKeeps
<1>7. ASSUME NEW n \in Slots, NEW upto \in Lsns, ReplicationSlotAdvance(n, upto) PROVE LogicalInv'
  BY <1>1, <1>7, AdvanceKeeps
<1>8. ASSUME NEW n \in Slots, NEW upto \in Lsns, NEW max \in 0 .. 1,
             PgLogicalSlotGetChanges(n, upto, max)
      PROVE  LogicalInv'
  BY <1>1, <1>8, GetChangesKeeps
<1>9. ASSUME NEW pid \in Pids, ReplicationSlotRelease(pid) PROVE LogicalInv'
  BY <1>9, ReleaseKeeps
<1>10. QED
  BY <1>2, <1>3, <1>4, <1>5, <1>6, <1>7, <1>8, <1>9, FlushSlotsKeeps, LoadSlotsKeeps
     DEF Logical, Kinds, Types, Persistences

-----------------------------------------------------------------------------
(***************************************************************************)
(* Streaming                                                               *)
(***************************************************************************)
LEMMA SenderIs ==
  ASSUME PhysicalInv, NEW s, NEW i, i = WalSndGetByPid(s), i # 0
  PROVE  i \in 1 .. Len(senders) /\ senders[i].pid = s
<1> DEFINE I == {j \in DOMAIN senders : senders[j].pid = s}
<1>1. DOMAIN senders = 1 .. Len(senders) /\ Len(senders) \in Nat
  BY DEF PhysicalInv, PhysicalTypes
<1>2. I # {} /\ i = Min(I)
  BY DEF WalSndGetByPid
<1>3. I \subseteq Nat
  BY <1>1
<1>4. i \in I
  <2> HIDE DEF I
  <2> QED  BY <1>2, <1>3, Lowest
<1>5. QED
  BY <1>1, <1>4

(* Standbys that keep what they have flushed, with no new sender or reply. *)
LEMMA FlushGrows ==
  ASSUME PhysicalInv, UNCHANGED <<senders, replies, sent, config>>,
         NEW s \in Standbys, NEW r \in WalRcvs, r.flush >= receivers[s].flush,
         receivers' = [receivers EXCEPT ![s] = r]
  PROVE  PhysicalInv'
<1>1. PhysicalTypes'
  BY DEF PhysicalInv, PhysicalTypes
<1>2. \A t \in Standbys : /\ receivers[t].flush \in Nat /\ receivers'[t].flush \in Nat
                          /\ receivers[t].flush <= receivers'[t].flush
  BY DEF PhysicalInv, PhysicalTypes, WalRcvs
<1>3. ASSUME NEW i \in 1 .. Len(senders')
      PROVE  senders'[i].flush <= receivers'[senders'[i].pid].flush
  <2>1. senders[i] \in WalSnds /\ senders[i].flush <= receivers[senders[i].pid].flush
    BY DEF PhysicalInv, PhysicalTypes, SendersBehind
  <2>2. senders[i].pid \in Standbys /\ senders[i].flush \in Nat
    BY <2>1 DEF WalSnds
  <2>3. QED
    BY <1>2, <2>1, <2>2
<1>4. ASSUME NEW t \in Standbys, NEW m \in replies'[t] PROVE m.flush <= receivers'[t].flush
  <2>1. m \in Replies /\ m.flush <= receivers[t].flush
    BY DEF PhysicalInv, PhysicalTypes, RepliesBehind
  <2>2. m.flush \in Nat
    BY <2>1 DEF Replies
  <2>3. QED
    BY <1>2, <2>1, <2>2
<1>5. QED
  BY <1>1, <1>3, <1>4 DEF PhysicalInv, SendersBehind, RepliesBehind

LEMMA ReportKeeps ==
  ASSUME PhysicalInv, NEW s \in Standbys, NEW kind \in {"receive", "write", "flush"},
         WalRcvReportLsn(s, kind)
  PROVE  PhysicalInv'
<1>1. /\ UNCHANGED <<senders, replies, sent, config>>
      /\ receivers[s] \in WalRcvs /\ sent[s] \in Nat
  BY DEF WalRcvReportLsn, PhysicalInv, PhysicalTypes
<1>2. /\ receivers[s].receive \in Nat /\ receivers[s].write \in Nat /\ receivers[s].flush \in Nat
  BY <1>1 DEF WalRcvs
<1>3. CASE kind = "receive"
  <2> DEFINE r == [receivers[s] EXCEPT !.receive = sent[s]]
  <2>1. receivers' = [receivers EXCEPT ![s] = r]
    BY <1>3 DEF WalRcvReportLsn, PhysicalInv, PhysicalTypes
  <2>2. r \in WalRcvs /\ r.flush >= receivers[s].flush
    BY <1>1, <1>2 DEF WalRcvs
  <2> HIDE DEF r
  <2>3. QED
    BY <1>1, <2>1, <2>2, FlushGrows
<1>4. CASE kind = "write"
  <2> DEFINE r == [receivers[s] EXCEPT !.write = receivers[s].receive]
  <2>1. receivers' = [receivers EXCEPT ![s] = r]
    BY <1>4 DEF WalRcvReportLsn, PhysicalInv, PhysicalTypes
  <2>2. r \in WalRcvs /\ r.flush >= receivers[s].flush
    BY <1>1, <1>2 DEF WalRcvs
  <2> HIDE DEF r
  <2>3. QED
    BY <1>1, <2>1, <2>2, FlushGrows
<1>5. CASE kind = "flush"
  <2> DEFINE r == [receivers[s] EXCEPT !.flush = receivers[s].write]
  <2>1. receivers' = [receivers EXCEPT ![s] = r] /\ receivers[s].flush < receivers[s].write
    BY <1>5 DEF WalRcvReportLsn, PhysicalInv, PhysicalTypes
  <2>2. r \in WalRcvs /\ r.flush >= receivers[s].flush
    BY <1>1, <1>2, <2>1 DEF WalRcvs
  <2> HIDE DEF r
  <2>3. QED
    BY <1>1, <2>1, <2>2, FlushGrows
<1>6. QED
  BY <1>3, <1>4, <1>5

(* A new sender knows nothing of its standby yet.                          *)
LEMMA StartKeeps ==
  ASSUME PhysicalInv, NEW s \in Standbys, WalRcvStart(s)
  PROVE  PhysicalInv'
<1> DEFINE f == receivers[s].flush
           r == [state |-> "streaming", receive |-> f, write |-> f, flush |-> f]
           w == [pid |-> s, write |-> 0, flush |-> 0]
<1>1. /\ receivers' = [receivers EXCEPT ![s] = r] /\ sent' = [sent EXCEPT ![s] = f]
      /\ senders' = Append(senders, w) /\ UNCHANGED <<replies, config>>
  BY DEF WalRcvStart
<1>2. f \in Nat /\ senders \in Seq(WalSnds)
  BY DEF PhysicalInv, PhysicalTypes, WalRcvs
<1>3. r \in WalRcvs /\ r.flush = f /\ w \in WalSnds /\ w.flush = 0 /\ w.pid = s
  BY <1>2 DEF WalRcvs, WalSnds
<1> HIDE DEF r, w
<1>4. \A t \in Standbys : receivers'[t].flush = receivers[t].flush
  BY <1>1, <1>3 DEF PhysicalInv, PhysicalTypes
<1> HIDE DEF f
<1>5. /\ senders' \in Seq(WalSnds) /\ Len(senders') = Len(senders) + 1 /\ Len(senders) \in Nat
      /\ senders'[Len(senders) + 1] = w
      /\ \A i \in 1 .. Len(senders) : senders'[i] = senders[i]
  BY <1>1, <1>2, <1>3
<1>6. PhysicalTypes'
  BY <1>1, <1>2, <1>3, <1>5 DEF PhysicalInv, PhysicalTypes
<1>7. SendersBehind'
  <2>1. ASSUME NEW i \in 1 .. Len(senders) + 1
        PROVE  senders'[i].flush <= receivers'[senders'[i].pid].flush
    <3>1. CASE i \in 1 .. Len(senders)
      <4>1. senders[i] \in WalSnds
        BY <1>2, <3>1
      <4>2. senders[i].pid \in Standbys
        BY <4>1 DEF WalSnds
      <4>3. senders[i].flush <= receivers[senders[i].pid].flush
        BY <3>1 DEF PhysicalInv, SendersBehind
      <4>4. QED
        BY <1>4, <1>5, <3>1, <4>2, <4>3
    <3>2. CASE i = Len(senders) + 1
      BY <1>2, <1>3, <1>4, <1>5, <3>2 DEF f
    <3>3. QED
      BY <1>5, <3>1, <3>2
  <2>2. QED
    BY <1>5, <2>1 DEF SendersBehind
<1>8. RepliesBehind'
  BY <1>1, <1>4 DEF PhysicalInv, RepliesBehind
<1>9. QED
  BY <1>6, <1>7, <1>8 DEF PhysicalInv

LEMMA StreamKeeps ==
  ASSUME PhysicalInv, wal \in Seq(Kinds), NEW s \in Standbys, WalSndStreamWal(s)
  PROVE  PhysicalInv'
<1>1. GetXLogInsertRecPtr \in Nat
  BY DEF GetXLogInsertRecPtr
<1>2. PhysicalTypes'
  BY <1>1 DEF WalSndStreamWal, PhysicalInv, PhysicalTypes
<1>3. QED
  BY <1>2 DEF WalSndStreamWal, PhysicalInv, SendersBehind, RepliesBehind

(* A reply says what was on disk when it was sent.                         *)
LEMMA ReplyKeeps ==
  ASSUME PhysicalInv, NEW s \in Standbys, SendReply(s)
  PROVE  PhysicalInv'
<1> DEFINE m == [write |-> receivers[s].write, flush |-> receivers[s].flush]
<1>1. /\ replies' = [replies EXCEPT ![s] = replies[s] \cup {m}]
      /\ UNCHANGED <<senders, receivers, sent, config>>
  BY DEF SendReply
<1>2. receivers[s] \in WalRcvs /\ replies \in [Standbys -> SUBSET Replies]
  BY DEF PhysicalInv, PhysicalTypes
<1>3. m \in Replies /\ m.flush = receivers[s].flush /\ receivers[s].flush \in Nat
  BY <1>2 DEF Replies, WalRcvs
<1> HIDE DEF m
<1>4. replies' \in [Standbys -> SUBSET Replies]
  BY <1>1, <1>2, <1>3
<1>5. PhysicalTypes'
  BY <1>1, <1>4 DEF PhysicalInv, PhysicalTypes
<1>6. ASSUME NEW t \in Standbys, NEW q \in replies'[t] PROVE q.flush <= receivers[t].flush
  <2>1. q \in replies[t] \/ (t = s /\ q = m)
    BY <1>1, <1>2
  <2>2. QED
    BY <1>3, <2>1 DEF PhysicalInv, RepliesBehind
<1>7. QED
  BY <1>1, <1>5, <1>6 DEF PhysicalInv, SendersBehind, RepliesBehind

(* However late it arrives, it is no more than what is on disk now.        *)
LEMMA ApplyKeeps ==
  ASSUME PhysicalInv, NEW s \in Standbys, NEW m \in replies[s], ApplyStandbyReply(s, m)
  PROVE  PhysicalInv'
<1> DEFINE i == WalSndGetByPid(s)
           w == [senders[i] EXCEPT !.write = Max({senders[i].write, m.write}),
                                   !.flush = Max({senders[i].flush, m.flush})]
<1>1. /\ i # 0 /\ senders' = [senders EXCEPT ![i] = w]
      /\ replies' = [replies EXCEPT ![s] = replies[s] \ {m}]
      /\ UNCHANGED <<receivers, sent, config>>
  BY DEF ApplyStandbyReply
<1>2. i \in 1 .. Len(senders) /\ senders[i].pid = s
  BY <1>1, SenderIs
<1> HIDE DEF i
<1>3. /\ senders \in Seq(WalSnds) /\ m \in Replies /\ receivers[s] \in WalRcvs
      /\ m.flush <= receivers[s].flush /\ senders[i].flush <= receivers[s].flush
  BY <1>2 DEF PhysicalInv, PhysicalTypes, SendersBehind, RepliesBehind
<1>4. /\ m.write \in Nat /\ m.flush \in Nat /\ receivers[s].flush \in Nat
      /\ senders[i] \in WalSnds /\ senders[i].write \in Nat /\ senders[i].flush \in Nat
  <2>1. senders[i] \in WalSnds
    BY <1>2, <1>3
  <2>2. QED
    BY <1>3, <2>1 DEF WalSnds, WalRcvs, Replies
<1>5. /\ Max({senders[i].write, m.write}) \in Nat /\ Max({senders[i].flush, m.flush}) \in Nat
      /\ Max({senders[i].flush, m.flush}) <= receivers[s].flush
  BY <1>3, <1>4, MaxOfTwo, SMTT(20)
<1>6. w \in WalSnds /\ w.pid = s /\ w.flush <= receivers[s].flush
  BY <1>2, <1>4, <1>5 DEF WalSnds
<1> HIDE DEF w
<1>7. /\ senders' \in Seq(WalSnds) /\ Len(senders') = Len(senders)
      /\ \A j \in 1 .. Len(senders) : senders'[j] = IF j = i THEN w ELSE senders[j]
  BY <1>1, <1>2, <1>3, <1>6
<1>8. replies' \in [Standbys -> SUBSET Replies] /\ \A t \in Standbys : replies'[t] \subseteq replies[t]
  BY <1>1 DEF PhysicalInv, PhysicalTypes
<1>9. PhysicalTypes'
  BY <1>1, <1>7, <1>8 DEF PhysicalInv, PhysicalTypes
<1>10. SendersBehind'
  BY <1>1, <1>6, <1>7 DEF PhysicalInv, SendersBehind
<1>11. RepliesBehind'
  BY <1>1, <1>8 DEF PhysicalInv, RepliesBehind
<1>12. QED
  BY <1>9, <1>10, <1>11 DEF PhysicalInv

(* The standby loses what it had not flushed.                              *)
LEMMA RemoveKeeps ==
  ASSUME PhysicalInv, NEW s \in Standbys, WalSndRemove(s)
  PROVE  PhysicalInv'
<1> DEFINE i == WalSndGetByPid(s)
           n == Len(senders)
           f == receivers[s].flush
           r == [receivers[s] EXCEPT !.state = "stopped", !.receive = f, !.write = f]
<1>1. /\ i # 0 /\ senders' = [j \in 1 .. n - 1 |-> senders[IF j < i THEN j ELSE j + 1]]
      /\ replies' = [replies EXCEPT ![s] = {}] /\ UNCHANGED <<sent, config>>
  BY DEF WalSndRemove
<1>2. receivers' = [receivers EXCEPT ![s] = r]
  BY DEF WalSndRemove, PhysicalInv, PhysicalTypes
<1>3. i \in 1 .. n
  BY <1>1, SenderIs
<1> HIDE DEF i
<1>4. senders \in Seq(WalSnds) /\ n \in Nat /\ receivers[s] \in WalRcvs
  BY DEF PhysicalInv, PhysicalTypes
<1>5. r \in WalRcvs /\ r.flush = f
  BY <1>4 DEF WalRcvs
<1> HIDE DEF r, f
<1>6. \A t \in Standbys : receivers'[t].flush = receivers[t].flush
  BY <1>2, <1>5 DEF PhysicalInv, PhysicalTypes, f
<1>7. ASSUME NEW j \in 1 .. n - 1
      PROVE  \E k \in 1 .. n : senders'[j] = senders[k]
  <2>1. (IF j < i THEN j ELSE j + 1) \in 1 .. n
    BY <1>4
  <2>2. QED
    BY <1>1, <2>1
<1>8. senders' \in Seq(WalSnds) /\ Len(senders') = n - 1
  <2>1. \A k \in 1 .. n : senders[k] \in WalSnds
    BY <1>4
  <2>2. \A j \in 1 .. n - 1 : senders'[j] \in WalSnds
    BY <1>7, <2>1
  <2>3. n - 1 \in Nat
    BY <1>3, <1>4
  <2>4. senders' \in [1 .. n - 1 -> WalSnds]
    BY <1>1, <2>2
  <2> HIDE DEF n
  <2>5. QED
    BY <2>3, <2>4
<1>9. PhysicalTypes'
  BY <1>1, <1>2, <1>5, <1>8 DEF PhysicalInv, PhysicalTypes
<1>10. SendersBehind'
  <2>1. ASSUME NEW j \in 1 .. n - 1
        PROVE  senders'[j].flush <= receivers'[senders'[j].pid].flush
    <3>1. PICK k \in 1 .. n : senders'[j] = senders[k]
      BY <1>7
    <3>2. senders[k] \in WalSnds /\ senders[k].flush <= receivers[senders[k].pid].flush
      BY <1>4 DEF PhysicalInv, SendersBehind
    <3>3. senders[k].pid \in Standbys
      BY <3>2 DEF WalSnds
    <3>4. QED
      BY <1>6, <3>1, <3>2, <3>3
  <2>2. QED
    BY <1>8, <2>1 DEF SendersBehind
<1>11. RepliesBehind'
  BY <1>1, <1>6 DEF PhysicalInv, PhysicalTypes, RepliesBehind
<1>12. QED
  BY <1>9, <1>10, <1>11 DEF PhysicalInv

LEMMA ConfigKeeps ==
  ASSUME PhysicalInv, NEW c \in Configs, SyncRepConfigUpdate(c)
  PROVE  PhysicalInv'
<1>1. PhysicalTypes'
  BY ConfigsAssumption DEF SyncRepConfigUpdate, PhysicalInv, PhysicalTypes
<1>2. QED
  BY <1>1 DEF SyncRepConfigUpdate, PhysicalInv, SendersBehind, RepliesBehind

LEMMA PhysicalUnchanged ==
  ASSUME PhysicalInv, UNCHANGED physicalVars
  PROVE  PhysicalInv'
<1>1. UNCHANGED <<senders, receivers, sent, replies, config>>
  BY DEF physicalVars
<1>2. QED
  BY <1>1 DEF PhysicalInv, PhysicalTypes, SendersBehind, RepliesBehind

LEMMA LogicalUnchanged ==
  ASSUME LogicalInv, UNCHANGED <<wal, logicalVars>>
  PROVE  LogicalInv'
<1>1. UNCHANGED <<wal, slots, files, delivered, skipped>>
  BY DEF logicalVars
<1>2. QED
  BY <1>1 DEF LogicalInv, LogicalTypes, Kept, Saved, GetXLogInsertRecPtr

LEMMA PhysicalKeeps ==
  ASSUME ReplicationInv, Physical
  PROVE  ReplicationInv'
<1>0. LogicalInv /\ PhysicalInv /\ wal \in Seq(Kinds)
  BY DEF ReplicationInv, LogicalInv, LogicalTypes
<1>1. ASSUME XLogInsert("other") PROVE ReplicationInv'
  <2>1. LogicalInv'
    BY <1>0, <1>1, XLogInsertKeeps DEF Kinds
  <2>2. UNCHANGED physicalVars
    BY <1>1 DEF XLogInsert
  <2>3. QED
    BY <1>0, <2>1, <2>2, PhysicalUnchanged DEF ReplicationInv
<1>2. ASSUME NEW s \in Standbys,
             \/ WalRcvStart(s) \/ WalSndStreamWal(s) \/ WalSndRemove(s)
             \/ \E kind \in {"receive", "write", "flush"} : WalRcvReportLsn(s, kind)
             \/ SendReply(s)
             \/ \E m \in replies[s] : ApplyStandbyReply(s, m)
      PROVE  ReplicationInv'
  <2>1. UNCHANGED <<wal, logicalVars>>
    BY <1>2 DEF WalRcvStart, WalSndStreamWal, WalSndRemove, WalRcvReportLsn, SendReply,
                ApplyStandbyReply
  <2>2. PhysicalInv'
    <3>1. CASE \E kind \in {"receive", "write", "flush"} : WalRcvReportLsn(s, kind)
      BY <1>0, <3>1, ReportKeeps
    <3>2. CASE \E m \in replies[s] : ApplyStandbyReply(s, m)
      BY <1>0, <3>2, ApplyKeeps
    <3>3. QED
      BY <1>0, <1>2, <3>1, <3>2, StartKeeps, StreamKeeps, RemoveKeeps, ReplyKeeps
  <2>3. LogicalInv'
    BY <1>0, <2>1, LogicalUnchanged
  <2>4. QED
    BY <2>2, <2>3 DEF ReplicationInv
<1>3. ASSUME NEW c \in Configs, SyncRepConfigUpdate(c) PROVE ReplicationInv'
  <2>1. UNCHANGED <<wal, logicalVars>>
    BY <1>3 DEF SyncRepConfigUpdate
  <2>2. PhysicalInv'
    BY <1>0, <1>3, ConfigKeeps, SMTT(20)
  <2>3. LogicalInv'
    BY <1>0, <2>1, LogicalUnchanged
  <2>4. QED
    BY <2>2, <2>3 DEF ReplicationInv
<1>4. QED
  BY <1>1, <1>2, <1>3 DEF Physical

LEMMA LogicalLeavesPhysical ==
  ASSUME Logical
  PROVE  UNCHANGED physicalVars
BY DEF Logical, XLogInsert, ReplicationSlotCreate, ReplicationSlotAcquire, ReplicationSlotDrop,
       ReplicationSlotPersist, ReplicationSlotAdvance, PgLogicalSlotGetChanges,
       ReplicationSlotRelease, ReplicationSlotFlushSlots, ReplicationSlotLoadSlots

-----------------------------------------------------------------------------
(***************************************************************************)
(* The theorems                                                            *)
(***************************************************************************)

(* Every behaviour keeps ReplicationInv: each logical slot has returned    *)
(* what lies behind it and is on disk where it is in memory, and no sender *)
(* and no reply in flight is ahead of its standby's disk.                  *)
THEOREM ReplicationInvariant == Spec => []ReplicationInv
<1>1. Init => ReplicationInv
  <2> SUFFICES ASSUME Init PROVE ReplicationInv
    OBVIOUS
  <2> USE DEF Init
  <2>1. LogicalTypes /\ DOMAIN slots = {}
    BY DEF LogicalTypes
  <2>2. LogicalInv
    BY <2>1 DEF LogicalInv
  <2>3. WalRcvInit \in WalRcvs
    BY DEF WalRcvInit, WalRcvs
  <2>4. config.num \in Nat /\ Len(config.names) \in Nat
        /\ DOMAIN config.names = 1 .. Len(config.names)
    OBVIOUS
  <2>5. PhysicalTypes
    BY <2>3, <2>4 DEF PhysicalTypes
  <2>6. SendersBehind /\ RepliesBehind
    BY DEF SendersBehind, RepliesBehind
  <2>7. QED
    BY <2>2, <2>5, <2>6 DEF ReplicationInv, PhysicalInv
<1>2. ReplicationInv /\ [Next]_vars => ReplicationInv'
  <2> SUFFICES ASSUME ReplicationInv, [Next]_vars PROVE ReplicationInv'
    OBVIOUS
  <2>1. CASE Logical
    BY <2>1, LogicalKeeps, LogicalLeavesPhysical, PhysicalUnchanged DEF ReplicationInv
  <2>2. CASE Physical
    BY <2>2, PhysicalKeeps
  <2>3. CASE UNCHANGED vars
    <3>1. UNCHANGED <<wal, logicalVars>> /\ UNCHANGED physicalVars
      BY <2>3 DEF vars, logicalVars, physicalVars
    <3>2. QED
      BY <3>1, LogicalUnchanged, PhysicalUnchanged DEF ReplicationInv
  <2>4. QED
    BY <2>1, <2>2, <2>3 DEF Next
<1>3. QED
  BY <1>1, <1>2, PTL DEF Spec

(* PgLogicalSlotGetChanges passes over no message and no commit, for any   *)
(* number of slots and any log.                                            *)
THEOREM ChangesAreDelivered == Spec => []NoChangeLost
<1>1. ReplicationInv => NoChangeLost
  <2> SUFFICES ASSUME ReplicationInv, NEW n \in DOMAIN slots, slots[n].type = "logical"
               PROVE  /\ \A i \in DOMAIN wal :
                           (/\ Decodes(wal[i])
                            /\ LsnOf(i) >= Max({slots[n].restart_lsn, skipped[n]})
                            /\ LsnOf(i) < slots[n].confirmed_flush_lsn)
                             => LsnOf(i) \in delivered[n]
                      /\ files[n].confirmed_flush_lsn = slots[n].confirmed_flush_lsn
    BY DEF NoChangeLost
  <2>1. /\ Kept(slots[n], delivered[n], skipped[n]) /\ Saved(slots[n], files[n])
        /\ slots[n] \in ReplicationSlot /\ skipped[n] \in Nat /\ wal \in Seq(Kinds)
    BY DEF ReplicationInv, LogicalInv, LogicalTypes
  <2>2. slots[n].restart_lsn \in Nat
    BY <2>1 DEF ReplicationSlot
  <2> DEFINE k == Max({slots[n].restart_lsn, skipped[n]})
  <2>3. k \in Nat /\ k >= slots[n].restart_lsn /\ k >= skipped[n]
    BY <2>1, <2>2, MaxOfTwo
  <2> HIDE DEF k
  <2>4. ASSUME NEW i \in DOMAIN wal, Decodes(wal[i]), LsnOf(i) >= k,
               LsnOf(i) < slots[n].confirmed_flush_lsn
        PROVE  LsnOf(i) \in delivered[n]
    <3>1. LsnOf(i) \in Nat
      BY <2>1
    <3>2. LsnOf(i) >= slots[n].restart_lsn /\ LsnOf(i) >= skipped[n]
      BY <2>1, <2>2, <2>3, <2>4, <3>1
    <3>3. QED
      BY <2>1, <2>4, <3>2 DEF Kept
  <2>5. QED
    BY <2>1, <2>4 DEF Saved, k
<1>2. QED
  BY <1>1, ReplicationInvariant, PTL

(* SyncRepIsSatisfied counts standbys that have the commit on disk, for    *)
(* any number of standbys and any list of distinct names.                  *)
THEOREM AcknowledgedIsDurable == Spec => []AckedIsFlushed
<1>1. ReplicationInv => AckedIsFlushed
  <2> SUFFICES ASSUME ReplicationInv, NEW lsn \in Lsns \ {0}, SyncRepIsSatisfied(lsn),
                      "*" \notin Range(config.names),
                      \A i, j \in DOMAIN config.names :
                        config.names[i] = config.names[j] => i = j
               PROVE  Cardinality({s \in Standbys : /\ AppName[s] \in Range(config.names)
                                                    /\ receivers[s].flush >= lsn}) >= config.num
    BY DEF AckedIsFlushed
  <2> DEFINE A == {s \in Standbys : /\ AppName[s] \in Range(config.names)
                                    /\ receivers[s].flush >= lsn}
             K == {k \in DOMAIN config.names :
                     \E i \in DOMAIN senders :
                       /\ config.names[k] \in {"*", AppName[senders[i].pid]}
                       /\ senders[i].flush >= lsn}
             Of(k) == CHOOSE s \in A : AppName[s] = config.names[k]
             f == [k \in K |-> Of(k)]
  <2>1. config.num = 0 \/ Cardinality(K) >= config.num
    BY DEF SyncRepIsSatisfied, SyncRepCountAcked
  <2>2. IsFiniteSet(A) /\ Cardinality(A) \in Nat
    <3>1. A \in SUBSET Standbys
      OBVIOUS
    <3> HIDE DEF A
    <3>2. IsFiniteSet(A)
      BY <3>1, StandbysAssumption, FS_Subset
    <3>3. QED
      BY <3>2, FS_CardinalityType
  <2>3. lsn \in Nat /\ config.num \in Nat /\ DOMAIN senders = 1 .. Len(senders)
    BY MaxRecordsAssumption DEF Lsns, ReplicationInv, PhysicalInv, PhysicalTypes
  <2>4. ASSUME NEW k \in K PROVE \E s \in A : AppName[s] = config.names[k]
    <3>1. PICK i \in DOMAIN senders : /\ config.names[k] \in {"*", AppName[senders[i].pid]}
                                      /\ senders[i].flush >= lsn
      OBVIOUS
    <3>2. k \in DOMAIN config.names /\ config.names[k] \in Range(config.names)
      BY DEF Range
    <3>3. config.names[k] = AppName[senders[i].pid]
      BY <3>1, <3>2
    <3>4. /\ senders[i] \in WalSnds /\ receivers \in [Standbys -> WalRcvs]
          /\ senders[i].flush <= receivers[senders[i].pid].flush
      BY <2>3 DEF ReplicationInv, PhysicalInv, PhysicalTypes, SendersBehind
    <3>5. /\ senders[i].pid \in Standbys /\ senders[i].flush \in Nat
          /\ receivers[senders[i].pid].flush \in Nat
      BY <3>4 DEF WalSnds, WalRcvs
    <3>6. receivers[senders[i].pid].flush >= lsn
      BY <2>3, <3>1, <3>4, <3>5
    <3>7. senders[i].pid \in A
      BY <3>2, <3>3, <3>5, <3>6
    <3>8. QED
      BY <3>3, <3>7
  <2>5. K \subseteq DOMAIN config.names
    OBVIOUS
  <2> HIDE DEF A, K
  <2>6. \A k \in K : Of(k) \in A /\ AppName[Of(k)] = config.names[k]
    BY <2>4
  <2> HIDE DEF Of
  <2>7. f \in [K -> A] /\ \A k \in K : AppName[f[k]] = config.names[k]
    BY <2>6
  <2>8. DOMAIN f = K
    OBVIOUS
  <2> HIDE DEF f
  <2>9. f \in Injection(K, A)
    BY <2>5, <2>7, <2>8 DEF Injection, IsInjective
  <2>10. Cardinality(K) <= Cardinality(A) /\ IsFiniteSet(K)
    BY <2>2, <2>9, FS_Injection
  <2>11. Cardinality(K) \in Nat
    BY <2>10, FS_CardinalityType
  <2>12. Cardinality(A) >= config.num
    BY <2>1, <2>2, <2>3, <2>10, <2>11
  <2>13. QED
    BY <2>12 DEF A
<1>2. QED
  BY <1>1, ReplicationInvariant, PTL
=============================================================================
