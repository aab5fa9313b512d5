-------------------------------- MODULE Table --------------------------------
(* One table under the statements of one session: heap_insert, heap_update    *)
(* and heap_delete of src/access/heap/heapam.cpp as ModifyTable calls them    *)
(* for the rows a sequential scan returns, and VACUUM.  Rows lie on pages     *)
(* byte by byte (module Page).                                                *)
(*                                                                            *)
(* A statement runs in a transaction of its own that commits at its end, and  *)
(* one row of it is a step.  The first cell of an item is the row header:     *)
(* the row, the number of the version, t_cid, and whether t_xmax is set.      *)
(* Cells after it name the version they belong to.  "copy" is an INSERT ...   *)
(* SELECT from the table itself.                                              *)

EXTENDS Page

CONSTANTS Sizes,                    \* lengths of rows, in cells
          MaxRows, MaxStatements

VARIABLES heap,       \* the pages of the relation
          stmt,       \* the statement that runs: "none", "update", "delete", "copy"
          scan,       \* HeapScanDesc
          curcid,     \* the active snapshot's curcid = the transaction's command counter
          rows,       \* rows ever inserted
          statements, \* statements so far
          live,       \* history: the versions that are current
          target,     \* history: the versions that were current when stmt began
          touched     \* history: the versions stmt has acted on

vars == <<heap, stmt, scan, curcid, rows, statements, live, target, touched>>

NoScan == [nblocks |-> 0, cblock |-> 0, vis |-> <<>>]

Init ==
    /\ heap = <<>> /\ stmt = "none" /\ scan = NoScan /\ curcid = 0
    /\ rows = 0 /\ statements = 0
    /\ live = {} /\ target = {} /\ touched = {}

-----------------------------------------------------------------------------
(* Rows on pages *)

Header(p, i) == p.bytes[p.lp[i].off]

Version(h) == [row |-> h.row, n |-> h.n]

heap_form_tuple(v, size, cid) ==
    <<[row |-> v.row, n |-> v.n, cid |-> cid, xmax |-> FALSE]>> \o [k \in 1..(size - 1) |-> v]

\* HeapTupleSatisfiesMVCC for a row of this transaction or of a committed one:
\* an insertion or deletion shows when its command is not after curcid.
HeapTupleSatisfiesMVCC(h) ==
    /\ h.cid <= curcid
    /\ ~h.xmax

\* Tries the last block, else extends the relation.
heap_insert_internal(h, item) ==
    IF h # <<>> /\ PageGetHeapFreeSpace(Last(h)) >= Len(item)
    THEN [h EXCEPT ![Len(h)] = PageAddItem(@, item)]
    ELSE Append(h, PageAddItem(PageInit, item))

\* Sets t_xmax and t_cid of the row at a TID.
MarkDeleted(h, blk, i) ==
    [h EXCEPT ![blk].bytes[h[blk].lp[i].off].xmax = TRUE,
              ![blk].bytes[h[blk].lp[i].off].cid = curcid]

-----------------------------------------------------------------------------
(* Statements *)

Start ==
    /\ stmt = "none" /\ statements < MaxStatements
    /\ statements' = statements + 1

\* INSERT ... VALUES of one row; the transaction commits at once.
Insert ==
    /\ Start /\ rows < MaxRows
    /\ rows' = rows + 1
    /\ \E size \in Sizes :
         heap' = heap_insert_internal(heap, heap_form_tuple([row |-> rows + 1, n |-> 0], size, 0))
    /\ live' = live \union {[row |-> rows + 1, n |-> 0]}
    /\ UNCHANGED <<stmt, scan, curcid, target, touched>>

\* heap_beginscan: the number of blocks is read once.
heap_beginscan(s) ==
    /\ Start
    /\ stmt' = s
    /\ scan' = [NoScan EXCEPT !.nblocks = Len(heap)]
    /\ target' = live
    /\ UNCHANGED <<heap, curcid, rows, live, touched>>

\* The offsets of the visible rows are noted when a page is entered, with the
\* curcid of that moment.
heap_scan_page ==
    LET p == heap[scan.cblock + 1]
    IN /\ stmt # "none" /\ scan.vis = <<>> /\ scan.cblock < scan.nblocks
       /\ scan' = [scan EXCEPT
                     !.cblock = @ + 1,
                     !.vis = SetToSortSeq({i \in Normal(p) : HeapTupleSatisfiesMVCC(Header(p, i))}, <)]
       /\ UNCHANGED <<heap, stmt, curcid, rows, statements, live, target, touched>>

\* heap_getnext returned the row at Head(scan.vis): ModifyTable acts on it, and
\* CommandCounterIncrement moves curcid of the very snapshot the scan uses.
Returned == Version(Header(heap[scan.cblock], Head(scan.vis)))

RowDone ==
    /\ touched' = touched \union {Returned}
    /\ curcid' = curcid + 1
    /\ scan' = [scan EXCEPT !.vis = Tail(@)]
    /\ UNCHANGED <<stmt, statements, target>>

InsertCopy(v) ==
    heap_insert_internal(heap, heap_form_tuple(v, heap[scan.cblock].lp[Head(scan.vis)].len, curcid))

heap_delete ==
    /\ stmt = "delete" /\ scan.vis # <<>>
    /\ heap' = MarkDeleted(heap, scan.cblock, Head(scan.vis))
    /\ live' = live \ {Returned}
    /\ RowDone /\ UNCHANGED rows

\* The new version is inserted before the old one is marked.
heap_update ==
    /\ stmt = "update" /\ scan.vis # <<>>
    /\ LET new == [Returned EXCEPT !.n = @ + 1]
       IN /\ heap' = MarkDeleted(InsertCopy(new), scan.cblock, Head(scan.vis))
          /\ live' = (live \ {Returned}) \union {new}
    /\ RowDone /\ UNCHANGED rows

heap_insert ==
    /\ stmt = "copy" /\ scan.vis # <<>>
    /\ rows' = rows + 1
    /\ heap' = InsertCopy([row |-> rows + 1, n |-> 0])
    /\ live' = live \union {[row |-> rows + 1, n |-> 0]}
    /\ RowDone

OnEachPage(Op(_)) == FoldLeft(LAMBDA pages, p : Append(pages, Op(p)), <<>>, heap)

ScanComplete == stmt # "none" /\ scan.vis = <<>> /\ scan.cblock = scan.nblocks

\* The transaction commits, and command ids no longer count.
heap_endscan ==
    /\ ScanComplete
    /\ heap' = OnEachPage(LAMBDA p :
                  LET headers == {p.lp[i].off : i \in Normal(p)}
                  IN [p EXCEPT !.bytes = [k \in DOMAIN @ |->
                        IF k \in headers THEN [@[k] EXCEPT !.cid = 0] ELSE @[k]]])
    /\ stmt' = "none" /\ scan' = NoScan /\ curcid' = 0
    /\ target' = {} /\ touched' = {}
    /\ UNCHANGED <<rows, statements, live>>

\* One page of ExecVacuum; nothing else runs, so every deleted row is dead to all.
VacuumPage(p) ==
    LET dead == {i \in Normal(p) : Header(p, i).xmax}
        q    == [p EXCEPT !.lp = FoldSet(LAMBDA i, lp :
                                           ReplaceAt(lp, i, [lp[i] EXCEPT !.flags = "dead"]),
                                         @, dead)]
    IN IF dead = {} THEN p ELSE PageRepairFragmentation(q)

ExecVacuum ==
    /\ Start
    /\ heap' = OnEachPage(VacuumPage)
    /\ UNCHANGED <<stmt, scan, curcid, rows, live, target, touched>>

Next ==
    \/ Insert \/ ExecVacuum
    \/ \E s \in {"update", "delete", "copy"} : heap_beginscan(s)
    \/ heap_scan_page \/ heap_delete \/ heap_update \/ heap_insert \/ heap_endscan

Spec == Init /\ [][Next]_vars

-----------------------------------------------------------------------------
(* Properties *)

\* The rows a scan would see now.
Seen == {<<b, i>> \in (DOMAIN heap) \X (1..PageSize) :
            i \in Normal(heap[b]) /\ HeapTupleSatisfiesMVCC(Header(heap[b], i))}

\* A scan sees every current version once, no other, and none of its bytes is
\* another row's: heap_insert_internal finds room, and VACUUM's compaction of a
\* page moves items without overwriting any (bufpage.cpp, compactify_tuples).
RowsIntact ==
    /\ live = {Version(Header(heap[s[1]], s[2])) : s \in Seen}
    /\ Cardinality(Seen) = Cardinality(live)
    /\ \A s \in Seen :
         LET item == PageGetItem(heap[s[1]], s[2])
         IN \A k \in 2..Len(item) : item[k] = Version(item[1])

\* A statement acts on every row that was current when it began, though each
\* row it writes moves the command counter and may extend the table.
StatementReachesAll == ScanComplete => target \subseteq touched

\* A statement acts on no row version it has written itself.
StatementSeesStart == touched \subseteq target

=============================================================================
