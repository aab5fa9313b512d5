------------------------------ MODULE IndexAM ------------------------------
(***************************************************************************)
(* The other index access methods: hash (src/access/hash/hash.cpp), GIN    *)
(* (gin.cpp), GiST (gist.cpp), SP-GiST (spgist.cpp) and BRIN (brin.cpp).   *)
(*                                                                         *)
(* An index is a sequence of pages, block 1 first (block 0 is the meta     *)
(* page).  One of the five methods is built, entries are inserted one      *)
(* after the other, and what a scan returns (the getbitmap functions: all  *)
(* fetches in a row) is an operator on the pages.                          *)
(***************************************************************************)
EXTENDS Integers, Sequences, SequencesExt, FiniteSets, Folds

CONSTANTS Methods,          \* the access methods built
          Keys,             \* int32 keys, here naturals
          KeyBits,          \* bits in a key
          PageItems,        \* items a page holds
          NBuckets,         \* kHashDefaultBuckets
          Blocks,           \* heap blocks a tid may point to (BRIN)
          pages_per_range,  \* heap blocks per BRIN range
          MaxInserts        \* bound: calls of the insert functions

VARIABLES
  am,        \* the access method
  pages,     \* its pages
  nblocks,   \* BRIN: nblocks in the meta page
  inserted,  \* history: entries whose insert returned true
  calls,     \* number of inserts so far
  spoilt     \* BRIN: a range page was put over an overflow page

vars == <<am, pages, nblocks, inserted, calls, spoilt>>

Strategies == {"all", "eq", "lt", "le", "gt", "ge"}

Page(kind, items) == [kind |-> kind, items |-> items, next |-> 0, level |-> 0]
Full(page) == Len(page.items) >= PageItems
NewBlock(pp) == Len(pp) + 1

Matches(e, key, strategy) ==
  CASE strategy = "all" -> TRUE
    [] strategy = "eq" -> e.key = key
    [] strategy = "lt" -> e.key < key
    [] strategy = "le" -> e.key <= key
    [] strategy = "gt" -> e.key > key
    [] strategy = "ge" -> e.key >= key

-----------------------------------------------------------------------------
(* A chain of pages linked by btpo_next: a hash bucket with its overflow   *)
(* pages, a GIN posting list, a BRIN range.                                *)

RECURSIVE Chain(_, _)
Chain(pp, block) ==
  pp[block].items
  \o IF pp[block].next = 0 THEN <<>> ELSE Chain(pp, pp[block].next)

(* Mutant: a new overflow page is not linked to the chain.                 *)
RECURSIVE AppendUnlinked(_, _, _, _)
AppendUnlinked(pp, block, item, kind) ==
  IF ~Full(pp[block]) THEN [pp EXCEPT ![block].items = Append(@, item)]
  ELSE IF pp[block].next # 0 THEN AppendUnlinked(pp, pp[block].next, item, kind)
  ELSE Append(pp, Page(kind, <<item>>))

(* The loop that looks for a page of the chain with room, and links a new  *)
(* one to its end if there is none.                                        *)
RECURSIVE AppendToChain(_, _, _, _)
AppendToChain(pp, block, item, kind) ==
  IF ~Full(pp[block]) THEN [pp EXCEPT ![block].items = Append(@, item)]
  ELSE IF pp[block].next # 0 THEN AppendToChain(pp, pp[block].next, item, kind)
  ELSE Append([pp EXCEPT ![block].next = NewBlock(pp)], Page(kind, <<item>>))

-----------------------------------------------------------------------------
(* Hash: a fixed number of buckets, bucket b at block b + 1.               *)

hashcalc(key) == key % NBuckets

hashbuild == [b \in 1 .. NBuckets |-> Page("bucket", <<>>)]

hashinsert(e) ==
  /\ pages' = AppendToChain(pages, hashcalc(e.key) + 1, e, "overflow")
  /\ inserted' = inserted \cup {e}
  /\ UNCHANGED <<nblocks, spoilt>>

(* An equality scan reads one bucket, any other scan returns all entries.  *)
hashgetbitmap(key, strategy) ==
  IF strategy = "eq"
  THEN {e \in ToSet(Chain(pages, hashcalc(key) + 1)) : e.key = key}
  ELSE UNION {ToSet(Chain(pages, b)) : b \in 1 .. NBuckets}

-----------------------------------------------------------------------------
(* GIN: block 1 maps a key to the first page of its posting list.          *)

ginbuild == <<Page("entry", <<>>)>>

gin_find_entry(key) ==
  {i \in 1 .. Len(pages[1].items) : pages[1].items[i].key = key}

(* A key without an entry gets a posting page; when the entry page is full *)
(* the new page stays behind unused and the entry is dropped.              *)
gininsert(e) ==
  /\ \/ \E i \in gin_find_entry(e.key) :
          /\ pages' = AppendToChain(pages, pages[1].items[i].posting, e, "posting")
          /\ inserted' = inserted \cup {e}
     \/ /\ gin_find_entry(e.key) = {}
        /\ LET new == [key |-> e.key, posting |-> NewBlock(pages)]
               pp  == Append(pages, Page("posting", <<e>>))
           IN  IF Full(pages[1])
               THEN pages' = pp /\ UNCHANGED inserted
               ELSE /\ pages' = [pp EXCEPT ![1].items = Append(@, new)]
                    /\ inserted' = inserted \cup {e}
  /\ UNCHANGED <<nblocks, spoilt>>

gingetbitmap(key, strategy) ==
  UNION {ToSet(Chain(pages, pages[1].items[i].posting)) :
           i \in IF strategy = "eq" THEN gin_find_entry(key)
                 ELSE 1 .. Len(pages[1].items)}

-----------------------------------------------------------------------------
(* GiST: a leaf at block 1 that is split once, below an internal root at   *)
(* block 3 with the key range of each half.                                *)

gistbuild == <<Page("leaf", <<>>)>>

gist_root == IF Len(pages) = 1 THEN 1 ELSE 3

(* Mutant: the last child whose range holds the key.                       *)
gist_last_child(key) ==
  LET items == pages[gist_root].items
      hits  == {i \in 1 .. Len(items) : items[i].min <= key /\ key <= items[i].max}
  IN  IF gist_root = 1 THEN 1
      ELSE items[IF hits = {} THEN Len(items)
                 ELSE CHOOSE i \in hits : \A j \in hits : i >= j].child

(* The first child whose range holds the key, else the last one.  The      *)
(* ranges are not widened by later inserts.                                *)
gist_child(key) ==
  LET items == pages[gist_root].items
      hits  == {i \in 1 .. Len(items) : items[i].min <= key /\ key <= items[i].max}
  IN  IF gist_root = 1 THEN 1
      ELSE items[IF hits = {} THEN Len(items)
                 ELSE CHOOSE i \in hits : \A j \in hits : i <= j].child

KeyRange(items, child) ==
  [child |-> child, min |-> items[1].key, max |-> items[Len(items)].key]

(* The full root leaf is sorted and cut at the midpoint.                   *)
gist_split(e) ==
  LET all   == SortSeq(Append(pages[1].items, e), LAMBDA a, b : a.key < b.key)
      mid   == Len(all) \div 2
      left  == SubSeq(all, 1, mid)
      right == SubSeq(all, mid + 1, Len(all))
  IN  << [Page("leaf", left) EXCEPT !.next = 2], Page("leaf", right),
         Page("internal", <<KeyRange(left, 1), KeyRange(right, 2)>>) >>

(* A full leaf below the root is not split: the entry is dropped.          *)
gistinsert(e) ==
  LET leaf == gist_child(e.key) IN
  /\ IF ~Full(pages[leaf])
     THEN /\ pages' = [pages EXCEPT ![leaf].items = Append(@, e)]
          /\ inserted' = inserted \cup {e}
     ELSE IF gist_root = 1
     THEN pages' = gist_split(e) /\ inserted' = inserted \cup {e}
     ELSE UNCHANGED <<pages, inserted>>
  /\ UNCHANGED <<nblocks, spoilt>>

(* Any scan but a full one starts at the leaf for its key and goes right.  *)
gistgetbitmap(key, strategy) ==
  {e \in ToSet(Chain(pages, IF strategy = "all" THEN 1 ELSE gist_child(key))) :
     Matches(e, key, strategy)}

-----------------------------------------------------------------------------
(* SP-GiST: a binary trie.  An internal page tests the bit in its level    *)
(* and has at most one child for each value.                               *)

extract_bit(key, pos) == (key \div (2 ^ pos)) % 2

spgistbuild == <<Page("leaf", <<>>)>>

Children(block, key) ==
  {x \in ToSet(pages[block].items) : x.bit = extract_bit(key, pages[block].level)}

(* The page where the descent for key ends: a leaf, or an internal page    *)
(* without a child for the key's bit.                                      *)
RECURSIVE spgist_descend(_, _)
spgist_descend(block, key) ==
  IF pages[block].kind = "leaf" \/ Children(block, key) = {} THEN block
  ELSE spgist_descend((CHOOSE x \in Children(block, key) : TRUE).child, key)

DifferingBits(all) ==
  {p \in 0 .. KeyBits - 1 :
     \E x, y \in ToSet(all) : extract_bit(x.key, p) # extract_bit(y.key, p)}

highest_differing_bit(all) ==
  CHOOSE p \in DifferingBits(all) : \A q \in DifferingBits(all) : q <= p

(* The leaf becomes an internal page over two new leaves.                  *)
spgist_split(block, all) ==
  LET bit == highest_differing_bit(all)
      Half(v) == SelectSeq(all, LAMBDA x : extract_bit(x.key, bit) = v)
      new == NewBlock(pages)
  IN  [pages EXCEPT ![block] =
         [Page("internal", << [bit |-> 0, child |-> new],
                              [bit |-> 1, child |-> new + 1] >>)
            EXCEPT !.level = bit]]
      \o << Page("leaf", Half(0)), Page("leaf", Half(1)) >>

(* A full leaf whose keys are all the same cannot be split: the entry is   *)
(* dropped.                                                                *)
spgistinsert(e) ==
  LET block == spgist_descend(1, e.key)
      page  == pages[block]
      all   == Append(page.items, e)
      child == [bit |-> extract_bit(e.key, page.level), child |-> NewBlock(pages)]
      keep  == page.kind = "leaf" /\ Full(page) /\ DifferingBits(all) = {}
  IN
  /\ pages' = IF page.kind = "internal"
              THEN Append([pages EXCEPT ![block].items = Append(@, child)],
                          Page("leaf", <<e>>))
              ELSE IF ~Full(page) THEN [pages EXCEPT ![block].items = all]
              ELSE IF keep THEN pages
              ELSE spgist_split(block, all)
  /\ inserted' = IF keep THEN inserted ELSE inserted \cup {e}
  /\ UNCHANGED <<nblocks, spoilt>>

(* An equality scan reads one leaf, any other scan all leaves in order of  *)
(* their blocks.                                                           *)
spgistgetbitmap(key, strategy) ==
  LET last   == spgist_descend(1, key)
      blocks == IF strategy = "eq" THEN {last} ELSE 1 .. Len(pages)
  IN  {e \in UNION {ToSet(pages[b].items) :
                      b \in {c \in blocks : pages[c].kind = "leaf"}} :
         Matches(e, key, strategy)}

-----------------------------------------------------------------------------
(* BRIN: range r of the heap has its page at block r + 1, with the minimum *)
(* and maximum key as first item, followed by tids and overflow pages.     *)

brinbuild == <<>>

Summary(page) == page.items[1]
HasData(page) == Len(page.items) > 0

Widen(s, key) ==
  [min |-> IF key < s.min THEN key ELSE s.min,
   max |-> IF key > s.max THEN key ELSE s.max]

(* brin_ensure_range_page creates the pages up to the range's block.  It   *)
(* trusts nblocks in the meta page, which overflow pages do not count in:  *)
(* a new range page may be put where an overflow page is.                  *)
brin_ensure_range_page(block) ==
  [pp |-> IF nblocks > block \/ Len(pages) >= block THEN pages
          ELSE pages \o [b \in 1 .. block - Len(pages) |-> Page("range", <<>>)],
   over |-> nblocks <= block /\ nblocks <= Len(pages)]

brininsert(e) ==
  LET block == (e.block \div pages_per_range) + 1
      made  == brin_ensure_range_page(block)
      page  == made.pp[block]
      sum   == IF HasData(page) THEN Widen(Summary(page), e.key)
               ELSE [min |-> e.key, max |-> e.key]
      pp    == [made.pp EXCEPT ![block].items =
                  IF HasData(page) THEN [@ EXCEPT ![1] = sum] ELSE <<sum>>]
  IN
  /\ ~spoilt
  /\ spoilt' = made.over
  /\ nblocks' = IF nblocks > block THEN nblocks ELSE block + 1
  /\ pages' = IF made.over THEN pages ELSE AppendToChain(pp, block, e, "overflow")
  /\ inserted' = inserted \cup {e}

brin_range_matches(s, key, strategy) ==
  CASE strategy = "all" -> TRUE
    [] strategy = "eq" -> s.min <= key /\ key <= s.max
    [] strategy = "lt" -> s.min < key
    [] strategy = "le" -> s.min <= key
    [] strategy = "gt" -> s.max > key
    [] strategy = "ge" -> s.max >= key

(* The scan skips the first item of every page it reads, on a range page   *)
(* the summary, on an overflow page a tid.                                 *)
RECURSIVE TidsFrom(_)
TidsFrom(block) ==
  ToSet(Tail(pages[block].items))
  \cup IF pages[block].next = 0 THEN {} ELSE TidsFrom(pages[block].next)

bringetbitmap(key, strategy) ==
  UNION {TidsFrom(b) :
           b \in {c \in 1 .. nblocks - 1 :
                    /\ HasData(pages[c])
                    /\ brin_range_matches(Summary(pages[c]), key, strategy)}}

-----------------------------------------------------------------------------
Init ==
  /\ am \in Methods
  /\ pages = CASE am = "hash" -> hashbuild [] am = "gin" -> ginbuild
               [] am = "gist" -> gistbuild [] am = "spgist" -> spgistbuild
               [] am = "brin" -> brinbuild
  /\ nblocks = 1
  /\ inserted = {} /\ calls = 0 /\ spoilt = FALSE

(* index_insert of a new row.                                              *)
Insert(key, block) ==
  LET e == [key |-> key, tid |-> calls, block |-> block] IN
  /\ calls < MaxInserts
  /\ calls' = calls + 1
  /\ \/ am = "hash" /\ hashinsert(e)
     \/ am = "gin" /\ gininsert(e)
     \/ am = "gist" /\ gistinsert(e)
     \/ am = "spgist" /\ spgistinsert(e)
     \/ am = "brin" /\ brininsert(e)
  /\ UNCHANGED am

(* Only BRIN looks at the block of a tid.                                  *)
Next ==
  \E k \in Keys, b \in IF am = "brin" THEN Blocks ELSE {0} : Insert(k, b)

Spec == Init /\ [][Next]_vars

-----------------------------------------------------------------------------
getbitmap(key, strategy) ==
  CASE am = "hash" -> hashgetbitmap(key, strategy)
    [] am = "gin" -> gingetbitmap(key, strategy)
    [] am = "gist" -> gistgetbitmap(key, strategy)
    [] am = "spgist" -> spgistgetbitmap(key, strategy)
    [] am = "brin" -> bringetbitmap(key, strategy)

(* What is known to be lost: the first tid of a BRIN overflow page.        *)
Skipped ==
  {pages[b].items[1] :
     b \in {c \in 1 .. Len(pages) : am = "brin" /\ pages[c].kind = "overflow"}}

(* Scans miss nothing: a scan returns every entry whose insert returned    *)
(* true and which matches, after any inserts, splits and overflows         *)
(* (hashgettuple, gingettuple, gistgettuple, spgistgettuple,               *)
(* bringettuple).  The exceptions are a GiST scan for an inequality, which *)
(* starts at the leaf for its key, the first tids of BRIN overflow pages,  *)
(* and BRIN once a range page has been put over an overflow page.          *)
IndexMissesNothing ==
  \A k \in Keys, s \in Strategies :
    \/ am = "gist" /\ s \notin {"all", "eq"}
    \/ spoilt
    \/ {e \in inserted : Matches(e, k, s)} \subseteq getbitmap(k, s) \cup Skipped

(* An equality scan of an index that is not lossy returns exactly the      *)
(* entries with its key: none from another key's bucket, posting list,     *)
(* leaf or half of a split.                                                *)
EqualIsExact ==
  am # "brin" =>
    \A k \in Keys : getbitmap(k, "eq") = {e \in inserted : e.key = k}

(* BRIN returns every tid of a range whose summary satisfies the scan key  *)
(* (brin.cpp: "returns candidate tids from the remaining ranges").  The    *)
(* code does not: bringettuple skips item 1 of overflow pages too.         *)
BrinFindsAll ==
  am = "brin" =>
    \A k \in Keys : spoilt \/ {e \in inserted : e.key = k} \subseteq getbitmap(k, "eq")
=============================================================================
