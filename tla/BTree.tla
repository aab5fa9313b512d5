------------------------------- MODULE BTree -------------------------------
(***************************************************************************)
(* The B-tree access method: src/access/nbtree/nbtree.cpp and nbtpage.cpp. *)
(*                                                                         *)
(* The tree has at most two levels: leaves, linked to the right, and one   *)
(* internal root.  A full leaf is split, a full root is not.  A scan keeps *)
(* its place between two calls of btgettuple as a block and an offset, and *)
(* the same backend may insert in between, so inserts and fetches are      *)
(* steps that interleave.                                                  *)
(*                                                                         *)
(* Block 0 is the meta page, whose only content that is read is the root.  *)
(* The left links are written and never read and are left out.             *)
(***************************************************************************)
EXTENDS Integers, Sequences, SequencesExt, FiniteSets

CONSTANTS Keys,       \* integers, in the order _bt_compare_keys gives them
          LeafItems,  \* entries a leaf page holds
          RootItems,  \* entries the internal root holds
          MaxInserts  \* bound: entries inserted

VARIABLES
  meta_root,  \* root in the meta page
  pages,      \* blocks 1, 2, ...: leaf flag, items, btpo_next (0: none)
  scan,       \* the BTScanDesc
  inserted,   \* history: the entries inserted, [key, tid]
  unsorted    \* history: the root may lead to the wrong leaf (SplitLeaf)

vars == <<meta_root, pages, scan, inserted, unsorted>>

Strategies == {"all", "eq", "lt", "le", "gt", "ge"}
NoScan == [state |-> "none"]
Leaf(items, next) == [leaf |-> TRUE, items |-> items, next |-> next]

(* btbuild: the meta page and an empty leaf as root.                       *)
Init ==
  /\ meta_root = 1
  /\ pages = <<Leaf(<<>>, 0)>>
  /\ scan = NoScan
  /\ inserted = {}
  /\ unsorted = FALSE

-----------------------------------------------------------------------------
(* Positions on a page.                                                    *)

(* The first item from offset `from` that satisfies P, or one past the     *)
(* last item.                                                              *)
FirstPos(items, from, P(_)) ==
  LET hits == {i \in from .. Len(items) : P(items[i])}
  IN  IF hits = {} THEN Len(items) + 1
      ELSE CHOOSE i \in hits : \A j \in hits : i <= j

(* Mutant: the first entry > key.                                          *)
FindPosAfter(items, key) == FirstPos(items, 1, LAMBDA e : key < e.key)

(* _bt_find_insert_pos and _bt_find_scan_pos: the first entry >= key.      *)
FindPos(items, key) == FirstPos(items, 1, LAMBDA e : key <= e.key)

(* The child to descend to.  The first entry of the root has no key.       *)
Child(items, key) == items[FirstPos(items, 2, LAMBDA e : key < e.key) - 1].child

IsLeaf(block) == pages[block].leaf

LeafFor(key) ==
  IF IsLeaf(meta_root) THEN meta_root ELSE Child(pages[meta_root].items, key)

-----------------------------------------------------------------------------
(* btinsert.                                                               *)

Entry(key) == [key |-> key, tid |-> Cardinality(inserted) + 1]

(* A full leaf with the new entry in its place, cut at the midpoint.       *)
Merged(leaf, e) == InsertAt(pages[leaf].items, FindPos(pages[leaf].items, e.key), e)

(* Mutant: the entry at the midpoint is in neither half.                   *)
LoseMiddle(leaf, e) ==
  LET all == Merged(leaf, e)  mid == Len(all) \div 2
  IN  [left |-> SubSeq(all, 1, mid), right |-> SubSeq(all, mid + 2, Len(all))]

Split(leaf, e) ==
  LET all == Merged(leaf, e)  mid == Len(all) \div 2
  IN  [left |-> SubSeq(all, 1, mid), right |-> SubSeq(all, mid + 1, Len(all))]

InsertIntoLeaf(leaf, e) ==
  /\ Len(pages[leaf].items) < LeafItems
  /\ pages' = [pages EXCEPT ![leaf].items = Merged(leaf, e)]
  /\ UNCHANGED <<meta_root, unsorted>>

(* The root is a full leaf: it becomes the left of two leaves below a new  *)
(* root.                                                                   *)
SplitRoot(leaf, e) ==
  LET halves == Split(leaf, e)  new == Len(pages) + 1 IN
  /\ Len(pages[leaf].items) = LeafItems /\ leaf = meta_root
  /\ pages' = [pages EXCEPT ![leaf] = Leaf(halves.left, new)]
              \o << Leaf(halves.right, 0),
                    [leaf |-> FALSE, next |-> 0,
                     items |-> << [child |-> leaf, key |-> 0],
                                  [child |-> new, key |-> halves.right[1].key] >>] >>
  /\ meta_root' = new + 1
  /\ UNCHANGED unsorted

(* A full leaf below the root is split, and an entry for the new leaf goes *)
(* before the first entry of the root with no smaller key.  If the root is *)
(* full the entry is left out with a warning; if another leaf has the same *)
(* key the two entries are in the wrong order.  Either way later inserts   *)
(* may go to a leaf too far to the left.                                   *)
SplitLeaf(leaf, e) ==
  LET halves == Split(leaf, e)  new == Len(pages) + 1
      sep    == [child |-> new, key |-> halves.right[1].key]
      items  == pages[meta_root].items
      pos    == FirstPos(items, 2, LAMBDA x : sep.key <= x.key)
      full   == Len(items) = RootItems
  IN
  /\ Len(pages[leaf].items) = LeafItems /\ leaf # meta_root
  /\ pages' = [pages EXCEPT
                 ![leaf] = Leaf(halves.left, new),
                 ![meta_root].items = IF full THEN @ ELSE InsertAt(@, pos, sep)]
              \o << Leaf(halves.right, pages[leaf].next) >>
  /\ unsorted' = (unsorted \/ full \/ \E i \in 2 .. Len(items) : items[i].key = sep.key)
  /\ UNCHANGED meta_root

btinsert(key) ==
  LET leaf == LeafFor(key)  e == Entry(key) IN
  /\ Cardinality(inserted) < MaxInserts
  /\ InsertIntoLeaf(leaf, e) \/ SplitRoot(leaf, e) \/ SplitLeaf(leaf, e)
  /\ inserted' = inserted \cup {e}
  /\ UNCHANGED scan

-----------------------------------------------------------------------------
(* Scans.                                                                  *)

Matches(e, key, strategy) ==
  CASE strategy = "all" -> TRUE
    [] strategy = "eq" -> e.key = key
    [] strategy = "lt" -> e.key < key
    [] strategy = "le" -> e.key <= key
    [] strategy = "gt" -> e.key > key
    [] strategy = "ge" -> e.key >= key

(* Beyond this entry no other can match: the entries are sorted.           *)
Past(e, key, strategy) ==
  \/ strategy \in {"eq", "le"} /\ e.key > key
  \/ strategy = "lt" /\ e.key >= key

(* btbeginscan, and btrescan of a scan that is running or has ended.       *)
btbeginscan(key, strategy) ==
  /\ scan' = [state |-> "begun", key |-> key, strategy |-> strategy,
              block |-> 0, off |-> 0, found |-> {}, start |-> inserted]
  /\ UNCHANGED <<meta_root, pages, inserted, unsorted>>

(* The first call positions the scan: at the leftmost leaf, or at the      *)
(* first entry >= key of the leaf for the key (_bt_search_leaf).           *)
Positioned ==
  IF scan.state # "begun" THEN scan
  ELSE IF scan.strategy \in {"all", "lt", "le"}
  THEN [scan EXCEPT
          !.block = IF IsLeaf(meta_root) THEN meta_root
                    ELSE pages[meta_root].items[1].child,
          !.off = 1]
  ELSE LET leaf == LeafFor(scan.key)
       IN  [scan EXCEPT !.block = leaf,
                        !.off = FindPos(pages[leaf].items, scan.key)]

(* Walk right from s to the next entry that matches, or to the end.        *)
RECURSIVE Advance(_)
Advance(s) ==
  LET items == pages[s.block].items IN
  IF s.off <= Len(items)
  THEN LET e == items[s.off] IN
       IF Matches(e, s.key, s.strategy)
       THEN [s EXCEPT !.state = "on", !.off = @ + 1, !.found = @ \cup {e}]
       ELSE IF Past(e, s.key, s.strategy) THEN [s EXCEPT !.state = "end"]
       ELSE Advance([s EXCEPT !.off = @ + 1])
  ELSE IF pages[s.block].next = 0 THEN [s EXCEPT !.state = "end"]
  ELSE Advance([s EXCEPT !.block = pages[s.block].next, !.off = 1])

btgettuple ==
  /\ scan.state \in {"begun", "on"}
  /\ scan' = Advance(Positioned)
  /\ UNCHANGED <<meta_root, pages, inserted, unsorted>>

btendscan ==
  /\ scan # NoScan
  /\ scan' = NoScan
  /\ UNCHANGED <<meta_root, pages, inserted, unsorted>>

Next ==
  \/ \E k \in Keys : btinsert(k)
  \/ \E k \in Keys, s \in Strategies \ {"all"} : btbeginscan(k, s)
  \/ btbeginscan(0, "all")
  \/ btgettuple \/ btendscan

Spec == Init /\ [][Next]_vars

-----------------------------------------------------------------------------
(* The leaves from the left, following the right links.                    *)
RECURSIVE Rightwards(_)
Rightwards(block) ==
  pages[block].items
  \o IF pages[block].next = 0 THEN <<>> ELSE Rightwards(pages[block].next)

Leftmost == IF IsLeaf(meta_root) THEN meta_root
            ELSE pages[meta_root].items[1].child

Sorted(items) == \A i, j \in 1 .. Len(items) : i < j => items[i].key <= items[j].key

(* No entry is lost or doubled by the splits of btinsert.  As long as the  *)
(* root has had room and no key was the first of two leaves, the leaves    *)
(* are sorted from left to right and each root entry's key separates its   *)
(* child from the leaves to the left.                                      *)
TreeOrdered ==
  LET all == Rightwards(Leftmost) IN
  /\ ToSet(all) = inserted /\ Len(all) = Cardinality(inserted)
  /\ unsorted \/
       /\ Sorted(all)
       /\ ~IsLeaf(meta_root) =>
            LET items == pages[meta_root].items IN
            \A i \in 2 .. Len(items), l \in 1 .. Len(items) :
              \A e \in ToSet(pages[items[l].child].items) :
                IF l < i THEN e.key <= items[i].key ELSE e.key >= items[i].key

(* Entries of equal keys may lie on both sides of a separator, and the     *)
(* descent then starts to the right of some of them.                       *)
Unique(key) == Cardinality({e \in inserted : e.key = key}) <= 1

(* A scan that has ended has returned every entry that was in the index    *)
(* when it began and matches, though inserts between two calls of          *)
(* btgettuple have shifted and split the page it stands on.  This holds    *)
(* for full scans; while the leaves are sorted, also for the others, but   *)
(* for "=" and ">=" only where the key is unique.                          *)
ScanFindsAll ==
  scan.state = "end" =>
    \A e \in scan.start :
      /\ Matches(e, scan.key, scan.strategy)
      /\ scan.strategy = "all" \/ ~unsorted
      /\ scan.strategy \in {"eq", "ge"} => Unique(scan.key)
      => e \in scan.found

(* _bt_search_leaf "sets *offset to the first entry >= key": an equality   *)
(* scan that has ended has returned every matching entry that was there    *)
(* when it began.                                                          *)
EqualFindsAll ==
  scan.state = "end" /\ scan.strategy = "eq" /\ ~unsorted =>
    \A e \in scan.start : e.key = scan.key => e \in scan.found
=============================================================================
