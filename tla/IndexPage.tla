------------------------------ MODULE IndexPage ------------------------------
(* The functions of src/storage/buffer/bufpage.cpp that delete and overwrite  *)
(* items of an index page, in any order.                                      *)

EXTENDS Page

CONSTANTS EntrySizes,      \* lengths of entries
          OverwriteSizes   \* [old length -> lengths it is overwritten with]

VARIABLES index,      \* the page
          entries     \* history: the entry each line pointer was made for, or 0

vars == <<index, entries>>

Init == index = PageInit /\ entries = <<>>

\* An entry is a number; its cells all hold it.
Cells(e, size) == [k \in 1..size |-> e]

\* Two entries for each line pointer, so that old contents are not taken for new.
EntriesAt(i) == {2 * i, 2 * i + 1}

Add(e, size) ==
    /\ PageFits(index, size)
    /\ index' = PageAddItem(index, Cells(e, size))
    /\ entries' = Append(entries, e)

\* The entries that should be left once `gone` are deleted.
Leaves(gone) ==
    entries' = FoldSet(LAMBDA i, es : ReplaceAt(es, i, 0),
                       SubSeq(entries, 1, Len(index'.lp)), gone \intersect (DOMAIN index'.lp))

Delete(i) == index' = PageIndexTupleDelete(index, i) /\ Leaves({i})

DeleteNoCompact(i) == index' = PageIndexTupleDeleteNoCompact(index, i) /\ Leaves({i})

MultiDelete(items) == index' = PageIndexMultiDelete(index, items) /\ Leaves(items)

Overwrite(i, e, size) ==
    /\ index' = PageIndexTupleOverwrite(index, i, Cells(e, size))
    /\ entries' = [entries EXCEPT ![i] = e]

Next ==
    \/ \E e \in EntriesAt(Len(index.lp) + 1), size \in EntrySizes : Add(e, size)
    \/ \E i \in Normal(index) : Delete(i)
    \/ \E i \in DOMAIN index.lp : DeleteNoCompact(i)
    \/ \E items \in (SUBSET (DOMAIN index.lp)) \ {{}} : MultiDelete(items)
    \/ \E i \in Normal(index) :
         \E e \in EntriesAt(i), size \in OverwriteSizes[index.lp[i].len] : Overwrite(i, e, size)

Spec == Init /\ [][Next]_vars

-----------------------------------------------------------------------------

\* Every line pointer leads to the entry it was made for, and to nothing when
\* that entry was deleted, whatever the page has been through: gaps closed by
\* PageIndexTupleDelete, gaps left by PageIndexTupleDeleteNoCompact, and the
\* compaction of PageIndexMultiDelete that runs into them.
EntriesIntact ==
    /\ DOMAIN entries = DOMAIN index.lp
    /\ \A i \in DOMAIN entries :
         IF entries[i] = 0 THEN index.lp[i].flags = "unused"
         ELSE i \in Normal(index) /\ PageGetItem(index, i) = Cells(entries[i], index.lp[i].len)

=============================================================================
