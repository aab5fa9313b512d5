-------------------------------- MODULE Page --------------------------------
(* The slotted page of src/storage/buffer/bufpage.cpp: an array of line       *)
(* pointers that grows up from the header, items that grow down from the end, *)
(* and the functions that move items when space is reclaimed.                 *)
(*                                                                            *)
(* A page is a record: `lp` the line pointers, `upper` pd_upper, `bytes` the  *)
(* content.  pd_lower is the length of lp, and pd_special the size of the     *)
(* page.  An item is a sequence of cells; what a cell holds is the caller's   *)
(* business.  Units are bytes scaled down: line pointers take kItemAlign.     *)

EXTENDS Integers, Sequences, FiniteSets, SequencesExt

CONSTANTS PageSize,     \* what PageInit is given, less the header
          kItemAlign    \* sizeof(ItemIdData), also the alignment of items

Free == "free"

LPUnused == [flags |-> "unused", off |-> 0, len |-> 0]

PageInit ==
    [lp |-> <<>>, upper |-> PageSize, bytes |-> [i \in 0..(PageSize - 1) |-> Free]]

Lower(p) == Len(p.lp) * kItemAlign

MaxAlignUp(size) == ((size + kItemAlign - 1) \div kItemAlign) * kItemAlign

MaxAlignDown(size) == (size \div kItemAlign) * kItemAlign

PageGetHeapFreeSpace(p) ==
    LET space == MaxAlignDown(p.upper - Lower(p) - kItemAlign)
    IN IF space < 0 THEN 0 ELSE space

\* memcpy of an item to an offset.
Store(bytes, off, item) ==
    [i \in DOMAIN bytes |-> IF i \in off..(off + Len(item) - 1) THEN item[i - off + 1]
                                                               ELSE bytes[i]]

PageGetItem(p, i) ==
    [k \in 1..p.lp[i].len |-> p.bytes[p.lp[i].off + k - 1]]

Normal(p) == {i \in DOMAIN p.lp : p.lp[i].flags = "normal"}

\* PageAddItem's test for space, for a line pointer appended to the array.
PageFits(p, size) ==
    /\ Lower(p) + MaxAlignUp(size) <= p.upper
    /\ Lower(p) + kItemAlign <= p.upper - MaxAlignUp(size)

PageAddItem(p, item) ==
    LET off == p.upper - MaxAlignUp(Len(item))
    IN [lp    |-> Append(p.lp, [flags |-> "normal", off |-> off, len |-> Len(item)]),
        upper |-> off,
        bytes |-> Store(p.bytes, off, item)]

\* memmove of item i, and its line pointer with it.
MoveItem(p, i, off) ==
    [p EXCEPT !.bytes = Store(p.bytes, off, PageGetItem(p, i)),
              !.lp = ReplaceAt(p.lp, i, [p.lp[i] EXCEPT !.off = off])]

\* Mutant: lowest offset first, so that a move overwrites items still to come.
Ascending(p, items) ==
    SetToSortSeq(items, LAMBDA i, j : p.lp[i].off < p.lp[j].off)

\* The order in which items are moved: the highest offset first.
MoveOrder(p, items) ==
    SetToSortSeq(items, LAMBDA i, j : p.lp[i].off > p.lp[j].off)

compactify_tuples(p) ==
    FoldLeft(LAMBDA q, i :
                 LET off == q.upper - MaxAlignUp(q.lp[i].len)
                 IN [MoveItem(q, i, off) EXCEPT !.upper = off],
             [p EXCEPT !.upper = PageSize],
             MoveOrder(p, Normal(p)))

\* Items below offset `off` go up by `gap`, and so does pd_upper.
CloseGap(p, off, gap) ==
    [FoldLeft(LAMBDA q, i : MoveItem(q, i, q.lp[i].off + gap), p,
              MoveOrder(p, {i \in Normal(p) : p.lp[i].off < off}))
        EXCEPT !.upper = @ + gap]

\* The line pointers without the unused ones at the end.
TrimTail(lp) ==
    SubSeq(lp, 1, SelectLastInSeq(lp, LAMBDA l : l.flags # "unused"))

MarkUnused(p, items) ==
    [p EXCEPT !.lp = FoldSet(LAMBDA i, lp : ReplaceAt(lp, i, LPUnused), @, items)]

TrimIfLast(p, i) ==
    IF i = Len(p.lp) THEN [p EXCEPT !.lp = TrimTail(p.lp)] ELSE p

PageIndexTupleDelete(p, i) ==
    CloseGap(TrimIfLast(MarkUnused(p, {i}), i), p.lp[i].off, MaxAlignUp(p.lp[i].len))

PageIndexMultiDelete(p, items) ==
    compactify_tuples([p EXCEPT !.lp = TrimTail(MarkUnused(p, items).lp)])

PageIndexTupleDeleteNoCompact(p, i) ==
    TrimIfLast(MarkUnused(p, {i}), i)

\* The gap is closed from below, over the overwritten item, which stays.
PageIndexTupleOverwrite(p, i, item) ==
    LET gap == MaxAlignUp(p.lp[i].len) - MaxAlignUp(Len(item))
        q   == [p EXCEPT !.bytes = Store(p.bytes, p.lp[i].off, item),
                         !.lp = ReplaceAt(p.lp, i, [p.lp[i] EXCEPT !.len = Len(item)])]
    IN IF gap > 0 THEN CloseGap(q, p.lp[i].off, gap) ELSE q

\* Renumbers the line pointers: those in use move to the front of the array.
PageRepairFragmentation(p) ==
    LET q == compactify_tuples(p)
    IN [q EXCEPT !.lp = SelectSeq(q.lp, LAMBDA l : l.flags = "normal")]

=============================================================================
