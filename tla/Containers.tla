----------------------------- MODULE Containers -----------------------------
(***************************************************************************)
(* The container library: the red-black tree, the pairing heap, the binary *)
(* heap, the bitmap set, and the doubly and singly linked lists, each next *)
(* to the set, bag or sequence it stands for.                              *)
(*                                                                         *)
(* kind is the container in use, store its representation and held what a  *)
(* caller expects it to hold. The tree and the lists keep their pointers,  *)
(* with Nil for nullptr. A pairing-heap tree is its value with the list of *)
(* its children: their prev pointers are written and never read. A bitmap  *)
(* word is the set of its bits.                                            *)
(***************************************************************************)
EXTENDS Integers, Sequences, FiniteSets, Bags, SequencesExt

CONSTANTS
  Keys,           \* the keys of the tree, positive numbers
  Values,         \* the values of the heaps
  MaxHeap,        \* bounds the number of values in a heap
  kBitsPerWord,
  Members,        \* the members of a bitmap set
  Nodes           \* the nodes of the lists, positive numbers

VARIABLES kind, store, held
vars == <<kind, store, held>>

Nil == 0

(***************************************************************************)
(* lib/rbtree.hpp. child["left"][n] is n->left; the halves of the fix-ups  *)
(* that mirror each other are one, with the side as a parameter.           *)
(***************************************************************************)
Other(side) == IF side = "left" THEN "right" ELSE "left"

EmptyTree ==
  LET none == [k \in Keys |-> Nil]
  IN [root |-> Nil, child |-> [left |-> none, right |-> none],
      parent |-> none, color |-> [k \in Keys |-> "red"]]

IsRed(t, n) == n # Nil /\ t.color[n] = "red"
SetColor(t, n, c) == IF n = Nil THEN t ELSE [t EXCEPT !.color[n] = c]
SetBlack(t, n) == SetColor(t, n, "black")
SetRed(t, n) == SetColor(t, n, "red")
SetParent(t, n, p) == IF n = Nil THEN t ELSE [t EXCEPT !.parent[n] = p]

Side(t, p, n) == IF n = t.child["left"][p] THEN "left" ELSE "right"

(* What hung from p as u is now v. *)
Relink(t, p, u, v) ==
  IF p = Nil THEN [t EXCEPT !.root = v]
             ELSE [t EXCEPT !.child[Side(t, p, u)][p] = v]

(* RotateLeft(x) for the side "left", RotateRight(x) for "right" *)
Rotate(t, x, side) ==
  LET y == t.child[Other(side)][x]
      inner == t.child[side][y]
      up == t.parent[x]
      moved == SetParent([t EXCEPT !.child[Other(side)][x] = inner], inner, x)
      linked == Relink([moved EXCEPT !.parent[y] = up], up, x, y)
  IN [linked EXCEPT !.child[side][y] = x, !.parent[x] = y]

RECURSIVE InsertFixup(_, _)
InsertFixup(t, z) ==
  IF ~IsRed(t, t.parent[z])
  THEN SetBlack(t, t.root)
  ELSE LET p == t.parent[z]
           g == t.parent[p]
           side == Side(t, g, p)
           uncle == t.child[Other(side)][g]
           inside == z = t.child[Other(side)][p]
           turned == IF inside THEN Rotate(t, p, side) ELSE t
           low == IF inside THEN p ELSE z
           top == turned.parent[low]
       IN IF IsRed(t, uncle)
          THEN InsertFixup(SetRed(SetBlack(SetBlack(t, p), uncle), g), g)
          ELSE InsertFixup(Rotate(SetRed(SetBlack(turned, top), g), g,
                                  Other(side)), low)

Toward(v, x) == IF v < x THEN "left" ELSE "right"
RECURSIVE Descend(_, _, _, _)
Descend(t, v, x, above) ==
  IF x = Nil \/ x = v
  THEN [found |-> x, above |-> above]
  ELSE Descend(t, v, t.child[Toward(v, x)][x], x)

Find(t, v) == Descend(t, v, t.root, Nil).found

Insert(t, v) ==
  LET at == Descend(t, v, t.root, Nil)
      y == at.above
      linked == IF y = Nil THEN [t EXCEPT !.root = v]
                ELSE [t EXCEPT !.child[Toward(v, y)][y] = v]
  IN IF at.found # Nil THEN t
     ELSE InsertFixup([linked EXCEPT !.parent[v] = y, !.color[v] = "red"], v)

Transplant(t, u, v) ==
  SetParent(Relink(t, t.parent[u], u, v), v, t.parent[u])

RECURSIVE TreeMin(_, _)
TreeMin(t, x) ==
  IF t.child["left"][x] = Nil THEN x ELSE TreeMin(t, t.child["left"][x])

(* Mutant: the sibling is not recoloured when both its children are black. *)
RECURSIVE FixupKeepsSibling(_, _, _)
FixupKeepsSibling(t, x, xp) ==
  IF x = t.root \/ IsRed(t, x) THEN SetBlack(t, x)
  ELSE FixupKeepsSibling(t, xp, t.parent[xp])

RECURSIVE DeleteFixup(_, _, _)
DeleteFixup(t, x, xp) ==
  IF x = t.root \/ IsRed(t, x)
  THEN SetBlack(t, x)
  ELSE LET side == Side(t, xp, x)
           far == Other(side)
           s == t.child[far][xp]
           t1 == IF IsRed(t, s)
                 THEN Rotate(SetRed(SetBlack(t, s), xp), xp, side) ELSE t
           w1 == t1.child[far][xp]
           near == w1 # Nil /\ ~IsRed(t1, t1.child[far][w1])
           t2 == IF near
                 THEN Rotate(SetRed(SetBlack(t1, t1.child[side][w1]), w1),
                             w1, far)
                 ELSE t1
           w2 == t2.child[far][xp]
           t3 == IF w2 = Nil THEN t2
                 ELSE SetBlack(SetBlack(SetColor(t2, w2, t2.color[xp]), xp),
                               t2.child[far][w2])
           t4 == Rotate(t3, xp, side)
       IN IF near /\ ~IsRed(t1, t1.child[side][w1])
          THEN DeleteFixup(SetRed(t1, w1), xp, t1.parent[xp])
          ELSE SetBlack(t4, t4.root)

Removed(t, z) ==
  [t EXCEPT !.child.left[z] = Nil, !.child.right[z] = Nil,
            !.parent[z] = Nil, !.color[z] = "red"]

Delete(t, v) ==
  LET z == Find(t, v)
      l == t.child["left"][z]
      r == t.child["right"][z]
      y == TreeMin(t, r)
      x == t.child["right"][y]
      two == l # Nil /\ r # Nil
      lifted ==
        IF t.parent[y] = z THEN t
        ELSE SetParent([Transplant(t, y, x) EXCEPT !.child["right"][y] = r],
                       r, y)
      replaced ==
        SetColor(SetParent([Transplant(lifted, z, y) EXCEPT
                              !.child["left"][y] = l], l, y),
                 y, t.color[z])
      only == IF l = Nil THEN r ELSE l
  IN CASE z = Nil -> t
       [] z # Nil /\ ~two ->
            LET rest == Removed(Transplant(t, z, only), z)
            IN IF t.color[z] = "black"
               THEN DeleteFixup(rest, only, t.parent[z]) ELSE rest
       [] z # Nil /\ two ->
            LET rest == Removed(replaced, z)
            IN IF t.color[y] = "black"
               THEN DeleteFixup(rest, x, IF t.parent[y] = z THEN y
                                         ELSE t.parent[y])
               ELSE rest

RECURSIVE ToSortedVector(_, _)
ToSortedVector(t, n) ==
  IF n = Nil THEN << >>
  ELSE ToSortedVector(t, t.child["left"][n]) \o <<n>>
       \o ToSortedVector(t, t.child["right"][n])

(***************************************************************************)
(* lib/pairingheap.hpp                                                     *)
(***************************************************************************)
NoTree == [value |-> 0, kids |-> << >>]
Tree(v) == [value |-> v, kids |-> << >>]

MeldTrees(a, b) ==
  CASE a = NoTree -> b
    [] a # NoTree /\ b = NoTree -> a
    [] a # NoTree /\ b # NoTree /\ b.value < a.value ->
         [b EXCEPT !.kids = <<a>> \o @]
    [] OTHER -> [a EXCEPT !.kids = <<b>> \o @]

TwoPassMeld(kids) ==
  IF kids = << >> THEN NoTree
  ELSE LET n == Len(kids)
           merged == [i \in 1 .. (n + 1) \div 2 |->
                       IF 2 * i > n THEN kids[2 * i - 1]
                       ELSE MeldTrees(kids[2 * i - 1], kids[2 * i])]
       IN FoldRight(MeldTrees, Front(merged), Last(merged))

Pop(heap) == TwoPassMeld(heap.kids)

RECURSIVE Contents(_)
Contents(tree) ==
  IF tree = NoTree THEN EmptyBag
  ELSE FoldLeft(LAMBDA bag, kid : bag (+) Contents(kid),
                SetToBag({tree.value}), tree.kids)

(***************************************************************************)
(* lib/binaryheap.hpp. Positions count from 1.                             *)
(***************************************************************************)
Parent(i) == i \div 2
Left(i) == 2 * i
Right(i) == 2 * i + 1
Swap(d, i, j) == [d EXCEPT ![i] = d[j], ![j] = d[i]]

RECURSIVE SiftUp(_, _)
SiftUp(d, i) ==
  IF i > 1 /\ d[i] < d[Parent(i)]
  THEN SiftUp(Swap(d, i, Parent(i)), Parent(i)) ELSE d

RECURSIVE SiftDown(_, _)
SiftDown(d, i) ==
  LET better(j, k) == IF k <= Len(d) /\ d[k] < d[j] THEN k ELSE j
      best == better(better(i, Left(i)), Right(i))
  IN IF best = i THEN d ELSE SiftDown(Swap(d, i, best), best)

AddToHeap(d, v) == SiftUp(Append(d, v), Len(d) + 1)
PopHeap(d) ==
  IF Len(d) = 1 THEN << >> ELSE SiftDown(<<Last(d)>> \o Tail(Front(d)), 1)
ReplaceTop(d, v) == SiftDown(<<v>> \o Tail(d), 1)
Heapify(d) == FoldRight(LAMBDA i, e : SiftDown(e, i),
                        [i \in 1 .. Len(d) \div 2 |-> i], d)
BagOf(d) == FoldLeft(LAMBDA bag, v : bag (+) SetToBag({v}), EmptyBag, d)

(***************************************************************************)
(* common/containers/bitmapset.cpp. A null pointer is a set of its own.    *)
(***************************************************************************)
NullSet == [null |-> TRUE, words |-> << >>]
Bitmap(words) == [null |-> FALSE, words |-> words]
WordIndex(x) == x \div kBitsPerWord
BitIndex(x) == x % kBitsPerWord
WordOf(w, i) == IF i <= Len(w) THEN w[i] ELSE {}
Word(a, i) == WordOf(a.words, i)
Longer(w, v) == IF Len(w) < Len(v) THEN Len(v) ELSE Len(w)
Shorter(w, v) == IF Len(w) < Len(v) THEN Len(w) ELSE Len(v)

RECURSIVE Trimmed(_)
Trimmed(w) == IF w # << >> /\ Last(w) = {} THEN Trimmed(Front(w)) ELSE w

Resized(w, n) == w \o [i \in 1 .. n - Len(w) |-> {}]
EnsureCapacity(w, x) ==
  IF Len(w) < WordIndex(x) + 1 THEN Resized(w, WordIndex(x) + 1) ELSE w

bms_add_member(a, x) ==
  LET w == EnsureCapacity(a.words, x)
  IN Bitmap(ReplaceAt(w, WordIndex(x) + 1,
                      w[WordIndex(x) + 1] \cup {BitIndex(x)}))
bms_del_member(a, x) ==
  IF a.null \/ WordIndex(x) >= Len(a.words) THEN a
  ELSE Bitmap(Trimmed(ReplaceAt(a.words, WordIndex(x) + 1,
                        a.words[WordIndex(x) + 1] \ {BitIndex(x)})))
bms_is_member(x, a) == BitIndex(x) \in Word(a, WordIndex(x) + 1)
bms_is_empty(a) == \A i \in DOMAIN a.words : a.words[i] = {}
bms_num_members(a) ==
  FoldLeft(LAMBDA n, w : n + Cardinality(w), 0, a.words)

bms_union(a, b) ==
  CASE a.null -> b
    [] ~a.null /\ b.null -> a
    [] OTHER -> Bitmap([i \in 1 .. Longer(a.words, b.words) |->
                          Word(a, i) \cup Word(b, i)])
bms_intersect(a, b) ==
  IF a.null \/ b.null THEN NullSet
  ELSE Bitmap(Trimmed([i \in 1 .. Shorter(a.words, b.words) |->
                         a.words[i] \cap b.words[i]]))
bms_difference(a, b) ==
  CASE a.null -> NullSet
    [] ~a.null /\ b.null -> a
    [] OTHER -> Bitmap(Trimmed([i \in DOMAIN a.words |->
                                  a.words[i] \ Word(b, i)]))
bms_equal(a, b) ==
  \A i \in 1 .. Longer(a.words, b.words) : Word(a, i) = Word(b, i)
bms_overlap(a, b) ==
  \E i \in 1 .. Shorter(a.words, b.words) : a.words[i] \cap b.words[i] # {}
bms_is_subset(a, b) ==
  \A i \in DOMAIN a.words : a.words[i] \subseteq Word(b, i)
bms_nonempty_difference(a, b) ==
  \E i \in DOMAIN a.words : a.words[i] \ Word(b, i) # {}

RECURSIVE NextFrom(_, _, _)
NextFrom(a, i, w) ==
  IF w # {} THEN (i - 1) * kBitsPerWord + Min(w)
  ELSE IF i >= Len(a.words) THEN -2 ELSE NextFrom(a, i + 1, a.words[i + 1])
bms_next_member(a, prevbit) ==
  LET i == WordIndex(prevbit + 1) + 1
  IN IF i > Len(a.words) THEN -2
     ELSE NextFrom(a, i, {b \in a.words[i] : b >= BitIndex(prevbit + 1)})
MinMember(a) ==
  LET full == {i \in DOMAIN a.words : a.words[i] # {}}
  IN IF full = {} THEN -1
     ELSE (Min(full) - 1) * kBitsPerWord + Min(a.words[Min(full)])
MaxMember(a) ==
  LET full == {i \in DOMAIN a.words : a.words[i] # {}}
  IN IF full = {} THEN -1
     ELSE (Max(full) - 1) * kBitsPerWord + Max(a.words[Max(full)])

(***************************************************************************)
(* lib/ilist.cpp. A list is a circle through its head, a node that carries *)
(* no value; the heads are numbers below the nodes.                        *)
(***************************************************************************)
Heads == {-1, -2}
Linked == Heads \cup Nodes
dlist_init(l, h) == [l EXCEPT !.next[h] = h, !.prev[h] = h]
dlist_is_empty(l, h) == l.next[h] = h

(* A node between two neighbours *)
Between(l, n, before, after) ==
  LET own == [l EXCEPT !.next[n] = after, !.prev[n] = before]
      right == [own EXCEPT !.prev[after] = n]
  IN [right EXCEPT !.next[before] = n]
dlist_push_head(l, h, n) == Between(l, n, h, l.next[h])
dlist_push_tail(l, h, n) == Between(l, n, l.prev[h], h)
dlist_delete_node(l, n) ==
  LET out == [l EXCEPT !.next[l.prev[n]] = l.next[n],
                       !.prev[l.next[n]] = l.prev[n]]
  IN [out EXCEPT !.next[n] = n, !.prev[n] = n]
dlist_pop_head(l, h) == dlist_delete_node(l, l.next[h])
dlist_pop_tail(l, h) == dlist_delete_node(l, l.prev[h])
dlist_move_tail(l, src, dst) ==
  IF dlist_is_empty(l, src) THEN dlist_init(l, dst)
  ELSE dlist_init([l EXCEPT !.next = [@ EXCEPT ![dst] = l.next[src],
                                               ![l.prev[src]] = dst],
                            !.prev = [@ EXCEPT ![dst] = l.prev[src],
                                               ![l.next[src]] = dst]], src)

slist_push_head(l, h, n) ==
  [l EXCEPT !.next = [@ EXCEPT ![n] = l.next[h], ![h] = n]]
slist_pop_head(l, h) ==
  [l EXCEPT !.next = [@ EXCEPT ![h] = l.next[l.next[h]], ![l.next[h]] = Nil]]

(* What a walk from n to the head h visits, given up after fuel steps *)
RECURSIVE Walk(_, _, _, _)
Walk(to, n, h, fuel) ==
  IF n = h \/ fuel = 0 THEN << >> ELSE <<n>> \o Walk(to, to[n], h, fuel - 1)
Foreach(to, h) == Walk(to, to[h], h, Cardinality(Nodes) + 1)

(***************************************************************************)
(* The operations                                                          *)
(***************************************************************************)
Self == [n \in Linked |-> n]

Init ==
  \/ kind = "tree" /\ store = EmptyTree /\ held = {}
  \/ /\ kind = "pairing"
     /\ store = <<NoTree, NoTree>>
     /\ held = <<EmptyBag, EmptyBag>>
  \/ kind = "binary" /\ store = << >> /\ held = EmptyBag
  \/ kind = "bitmap" /\ store = <<NullSet, NullSet>> /\ held = <<{}, {}>>
  \/ /\ kind \in {"dlist", "slist"}
     /\ store = [next |-> Self, prev |-> Self]
     /\ held = [h \in Heads |-> << >>]

TreeInsert ==
  /\ kind = "tree"
  /\ \E k \in Keys : store' = Insert(store, k) /\ held' = held \cup {k}
  /\ UNCHANGED kind
TreeDelete ==
  /\ kind = "tree"
  /\ \E k \in Keys : store' = Delete(store, k) /\ held' = held \ {k}
  /\ UNCHANGED kind

Least(bag) == Min(BagToSet(bag))
Without(bag, v) == bag (-) SetToBag({v})

PairingAdd ==
  /\ kind = "pairing"
  /\ \E i \in 1 .. 2, v \in Values :
       /\ BagCardinality(held[1] (+) held[2]) < MaxHeap
       /\ store' = [store EXCEPT ![i] = MeldTrees(@, Tree(v))]
       /\ held' = [held EXCEPT ![i] = @ (+) SetToBag({v})]
  /\ UNCHANGED kind
PairingPop ==
  /\ kind = "pairing"
  /\ \E i \in 1 .. 2 :
       /\ store[i] # NoTree
       /\ store' = [store EXCEPT ![i] = Pop(@)]
       /\ held' = [held EXCEPT ![i] = Without(@, Least(@))]
  /\ UNCHANGED kind
PairingMeld ==
  /\ kind = "pairing"
  /\ store' = <<MeldTrees(store[1], store[2]), NoTree>>
  /\ held' = <<held[1] (+) held[2], EmptyBag>>
  /\ UNCHANGED kind

BinaryAdd ==
  /\ kind = "binary" /\ Len(store) < MaxHeap
  /\ \E v \in Values :
       store' = AddToHeap(store, v) /\ held' = held (+) SetToBag({v})
  /\ UNCHANGED kind
BinaryPop ==
  /\ kind = "binary" /\ store # << >>
  /\ store' = PopHeap(store)
  /\ held' = Without(held, Least(held))
  /\ UNCHANGED kind
BinaryReplaceTop ==
  /\ kind = "binary" /\ store # << >>
  /\ \E v \in Values :
       /\ store' = ReplaceTop(store, v)
       /\ held' = Without(held, Least(held)) (+) SetToBag({v})
  /\ UNCHANGED kind
BinaryBuild ==
  /\ kind = "binary"
  /\ \E n \in 0 .. MaxHeap : \E d \in [1 .. n -> Values] :
       store' = Heapify(d) /\ held' = BagOf(d)
  /\ UNCHANGED kind

BitmapMember ==
  /\ kind = "bitmap"
  /\ \E i \in 1 .. 2, x \in Members :
       \/ /\ store' = [store EXCEPT ![i] = bms_add_member(@, x)]
          /\ held' = [held EXCEPT ![i] = @ \cup {x}]
       \/ /\ store' = [store EXCEPT ![i] = bms_del_member(@, x)]
          /\ held' = [held EXCEPT ![i] = @ \ {x}]
  /\ UNCHANGED kind
BitmapCombine ==
  /\ kind = "bitmap"
  /\ \/ /\ store' = [store EXCEPT ![1] = bms_union(@, store[2])]
        /\ held' = [held EXCEPT ![1] = @ \cup held[2]]
     \/ /\ store' = [store EXCEPT ![1] = bms_intersect(@, store[2])]
        /\ held' = [held EXCEPT ![1] = @ \cap held[2]]
     \/ /\ store' = [store EXCEPT ![1] = bms_difference(@, store[2])]
        /\ held' = [held EXCEPT ![1] = @ \ held[2]]
  /\ UNCHANGED kind

Loose == Nodes \ UNION {Range(held[h]) : h \in Heads}
ListPush ==
  /\ kind \in {"dlist", "slist"}
  /\ \E h \in Heads, n \in Loose :
       \/ /\ kind = "dlist"
          /\ store' = dlist_push_tail(store, h, n)
          /\ held' = [held EXCEPT ![h] = Append(@, n)]
       \/ /\ store' = IF kind = "dlist" THEN dlist_push_head(store, h, n)
                                        ELSE slist_push_head(store, h, n)
          /\ held' = [held EXCEPT ![h] = <<n>> \o @]
  /\ UNCHANGED kind
ListPop ==
  /\ kind \in {"dlist", "slist"}
  /\ \E h \in Heads :
       /\ ~dlist_is_empty(store, h)
       /\ \/ /\ kind = "dlist"
             /\ store' = dlist_pop_tail(store, h)
             /\ held' = [held EXCEPT ![h] = Front(@)]
          \/ /\ store' = IF kind = "dlist" THEN dlist_pop_head(store, h)
                                           ELSE slist_pop_head(store, h)
             /\ held' = [held EXCEPT ![h] = Tail(@)]
  /\ UNCHANGED kind
ListDelete ==
  /\ kind = "dlist"
  /\ \E h \in Heads : \E n \in Range(held[h]) :
       /\ store' = dlist_delete_node(store, n)
       /\ held' = [held EXCEPT ![h] = Remove(@, n)]
  /\ UNCHANGED kind
ListMove ==
  /\ kind = "dlist"
  /\ \E src, dst \in Heads :
       /\ src # dst
       /\ store' = dlist_move_tail(store, src, dst)
       /\ held' = [held EXCEPT ![dst] = held[src], ![src] = << >>]
  /\ UNCHANGED kind

Next ==
  \/ TreeInsert \/ TreeDelete
  \/ PairingAdd \/ PairingPop \/ PairingMeld
  \/ BinaryAdd \/ BinaryPop \/ BinaryReplaceTop \/ BinaryBuild
  \/ BitmapMember \/ BitmapCombine
  \/ ListPush \/ ListPop \/ ListDelete \/ ListMove
Spec == Init /\ [][Next]_vars

(***************************************************************************)
(* Correctness                                                             *)
(***************************************************************************)
RECURSIVE BlackHeights(_, _)
BlackHeights(t, n) ==
  IF n = Nil THEN {0}
  ELSE {b + (IF IsRed(t, n) THEN 0 ELSE 1) :
         b \in BlackHeights(t, t.child["left"][n])
               \cup BlackHeights(t, t.child["right"][n])}

TreeRight ==
  /\ ToSortedVector(store, store.root) = SetToSortSeq(held, <)
  /\ \A k \in Keys : Find(store, k) = IF k \in held THEN k ELSE Nil
  /\ ~IsRed(store, store.root)
  /\ \A n \in held, s \in {"left", "right"} :
       LET c == store.child[s][n]
       IN /\ IsRed(store, n) => ~IsRed(store, c)
          /\ c # Nil => store.parent[c] = n
  /\ Cardinality(BlackHeights(store, store.root)) = 1

BitmapRight(a, b, A, B) ==
  /\ \A x \in Members : bms_is_member(x, a) <=> x \in A
  /\ bms_is_empty(a) <=> A = {}
  /\ bms_num_members(a) = Cardinality(A)
  /\ MinMember(a) = IF A = {} THEN -1 ELSE Min(A)
  /\ MaxMember(a) = IF A = {} THEN -1 ELSE Max(A)
  /\ \A p \in Members \cup {-1} :
       LET later == {x \in A : x > p}
       IN bms_next_member(a, p) = IF later = {} THEN -2 ELSE Min(later)
  /\ bms_equal(a, b) <=> A = B
  /\ bms_overlap(a, b) <=> A \cap B # {}
  /\ bms_is_subset(a, b) <=> A \subseteq B
  /\ bms_nonempty_difference(a, b) <=> A \ B # {}

(* Every container holds what was put into it and not taken out, and       *)
(* answers accordingly. The tree stays sorted and a red-black tree: its    *)
(* root is black, a red node has no red child, every path has as many      *)
(* black nodes, and parents are who they should be. Both heaps have their  *)
(* least value on top, so that Pop returns it. The bitmap sets agree with  *)
(* sets in every query, null pointers and trailing empty words included.   *)
(* The lists are the same forwards and backwards.                          *)
ContainersRight ==
  /\ kind = "tree" => TreeRight
  /\ kind = "pairing" =>
       \A i \in 1 .. 2 :
         /\ Contents(store[i]) = held[i]
         /\ store[i] # NoTree => store[i].value = Least(held[i])
  /\ kind = "binary" =>
       /\ BagOf(store) = held
       /\ store # << >> => store[1] = Least(held)
  /\ kind = "bitmap" =>
       /\ BitmapRight(store[1], store[2], held[1], held[2])
       /\ BitmapRight(store[2], store[1], held[2], held[1])
  /\ kind \in {"dlist", "slist"} =>
       \A h \in Heads :
         /\ Foreach(store.next, h) = held[h]
         /\ kind = "dlist" => Foreach(store.prev, h) = Reverse(held[h])
=============================================================================
