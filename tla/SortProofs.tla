----------------------------- MODULE SortProofs -----------------------------
(***************************************************************************)
(* TupleSort for every number of sorters, keys, rows, runs and rescans:    *)
(* what a sort that nothing disturbed has returned, and still holds, is    *)
(* what was put into it, in order.                                         *)
(*                                                                         *)
(* The lemmas go from sequences and the comparison of two rows, over what  *)
(* one call makes of one sorter's rows (the lemmas named Sound...), to the *)
(* invariant, action by action (the lemmas that end in Keeps).             *)
(***************************************************************************)
EXTENDS TupleSort, SequenceTheorems, WellFoundedInduction, TLAPS

LEMMA RangeOfAppend ==
  ASSUME NEW S, NEW s \in Seq(S), NEW e \in S
  PROVE  Append(s, e) \in Seq(S) /\ Range(Append(s, e)) = Range(s) \cup {e}
<1>1. /\ Append(s, e) \in Seq(S) /\ Len(Append(s, e)) = Len(s) + 1
      /\ \A i \in 1 .. Len(s) : Append(s, e)[i] = s[i]
      /\ Append(s, e)[Len(s) + 1] = e
  BY AppendProperties
<1>2. /\ Len(s) \in Nat /\ DOMAIN s = 1 .. Len(s)
      /\ DOMAIN Append(s, e) = 1 .. Len(s) + 1
  BY <1>1, LenProperties
<1>3. \A i \in 1 .. Len(s) + 1 : i = Len(s) + 1 \/ i \in 1 .. Len(s)
  BY <1>2
<1>4. Len(s) + 1 \in 1 .. Len(s) + 1 /\ \A i \in 1 .. Len(s) : i \in 1 .. Len(s) + 1
  BY <1>2
<1>5. QED
  BY <1>1, <1>2, <1>3, <1>4 DEF Range

-----------------------------------------------------------------------------
(***************************************************************************)
(* The order of the rows                                                   *)
(***************************************************************************)
LEMMA BeforeIs ==
  ASSUME order \in [reverse : BOOLEAN, nulls_first : BOOLEAN],
         NEW a \in Rows, NEW b \in Rows
  PROVE  Before(a, b) <=>
           \/ a.k = 0 /\ b.k # 0 /\ order.nulls_first
           \/ a.k # 0 /\ b.k = 0 /\ ~order.nulls_first
           \/ a.k # 0 /\ b.k # 0 /\ order.reverse /\ b.k < a.k
           \/ a.k # 0 /\ b.k # 0 /\ ~order.reverse /\ a.k < b.k
<1>1. order.reverse \in BOOLEAN /\ order.nulls_first \in BOOLEAN
  OBVIOUS
<1>2. QED
  BY <1>1 DEF Before, Null

(* Compare is a strict weak order, which is what std::sort and the merge   *)
(* need: a row is not before itself, and "not before" is transitive.       *)
LEMMA CompareIsOrder ==
  ASSUME order \in [reverse : BOOLEAN, nulls_first : BOOLEAN]
  PROVE  /\ \A a \in Rows : ~Before(a, a)
         /\ \A a, b, c \in Rows : ~Before(b, a) /\ ~Before(c, b) => ~Before(c, a)
<1>1. ASSUME NEW a \in Rows  PROVE ~Before(a, a)
  <2>1. a.k \in Nat
    BY DEF Rows
  <2>2. QED
    BY <2>1, BeforeIs
<1>2. ASSUME NEW a \in Rows, NEW b \in Rows, NEW c \in Rows, ~Before(b, a), ~Before(c, b)
      PROVE  ~Before(c, a)
  <2>1. a.k \in Nat /\ b.k \in Nat /\ c.k \in Nat
    BY DEF Rows
  <2>2. /\ ~(b.k = 0 /\ a.k # 0 /\ order.nulls_first)
        /\ ~(b.k # 0 /\ a.k = 0 /\ ~order.nulls_first)
        /\ ~(b.k # 0 /\ a.k # 0 /\ order.reverse /\ a.k < b.k)
        /\ ~(b.k # 0 /\ a.k # 0 /\ ~order.reverse /\ b.k < a.k)
    BY <1>2, BeforeIs
  <2>3. /\ ~(c.k = 0 /\ b.k # 0 /\ order.nulls_first)
        /\ ~(c.k # 0 /\ b.k = 0 /\ ~order.nulls_first)
        /\ ~(c.k # 0 /\ b.k # 0 /\ order.reverse /\ b.k < c.k)
        /\ ~(c.k # 0 /\ b.k # 0 /\ ~order.reverse /\ c.k < b.k)
    BY <1>2, BeforeIs
  <2>4. /\ ~(c.k = 0 /\ a.k # 0 /\ order.nulls_first)
        /\ ~(c.k # 0 /\ a.k = 0 /\ ~order.nulls_first)
        /\ ~(c.k # 0 /\ a.k # 0 /\ order.reverse /\ a.k < c.k)
        /\ ~(c.k # 0 /\ a.k # 0 /\ ~order.reverse /\ c.k < a.k)
    BY <2>1, <2>2, <2>3
  <2>5. QED
    BY <2>4, BeforeIs
<1>3. QED
  BY <1>1, <1>2

LEMMA BeforeOneWay ==
  ASSUME order \in [reverse : BOOLEAN, nulls_first : BOOLEAN],
         NEW a \in Rows, NEW b \in Rows, Before(a, b)
  PROVE  ~Before(b, a)
<1>1. a.k \in Nat /\ b.k \in Nat
  BY DEF Rows
<1>2. \/ a.k = 0 /\ b.k # 0 /\ order.nulls_first
      \/ a.k # 0 /\ b.k = 0 /\ ~order.nulls_first
      \/ a.k # 0 /\ b.k # 0 /\ order.reverse /\ b.k < a.k
      \/ a.k # 0 /\ b.k # 0 /\ ~order.reverse /\ a.k < b.k
  BY BeforeIs
<1>3. ~(\/ b.k = 0 /\ a.k # 0 /\ order.nulls_first
        \/ b.k # 0 /\ a.k = 0 /\ ~order.nulls_first
        \/ b.k # 0 /\ a.k # 0 /\ order.reverse /\ a.k < b.k
        \/ b.k # 0 /\ a.k # 0 /\ ~order.reverse /\ b.k < a.k)
  BY <1>1, <1>2
<1>4. QED
  BY <1>3, BeforeIs

LEMMA FcnIsSeq ==
  ASSUME NEW S, NEW n \in Nat, NEW f \in [1 .. n -> S]
  PROVE  f \in Seq(S) /\ Len(f) = n
<1>1. f \in Seq(S)
  BY SeqDef
<1>2. DOMAIN f = 1 .. Len(f) /\ Len(f) \in Nat /\ DOMAIN f = 1 .. n
  BY <1>1, LenProperties
<1>3. QED
  BY <1>1, <1>2

(* What std::sort makes of rows is as many rows, and of distinct rows a    *)
(* run of the same.                                                        *)
LEMMA ArrangedRows ==
  ASSUME NEW rows \in Seq(Rows), NEW run \in SortInMemory(rows)
  PROVE  run \in Seq(Rows) /\ Len(run) = Len(rows)
<1>1. DOMAIN rows = 1 .. Len(rows) /\ Len(rows) \in Nat
  BY LenProperties
<1>2. PICK p \in Bijection(DOMAIN rows, DOMAIN rows) :
        run = [i \in DOMAIN rows |-> rows[p[i]]]
  BY DEF SortInMemory
<1>3. p \in [DOMAIN rows -> DOMAIN rows]
  BY <1>2 DEF Bijection, Injection
<1>4. run \in [1 .. Len(rows) -> Rows]
  BY <1>1, <1>2, <1>3, ElementOfSeq
<1>5. QED
  BY <1>1, <1>4, FcnIsSeq

LEMMA Arranged ==
  ASSUME NEW rows \in Seq(Rows), IsInjective(rows), NEW run \in SortInMemory(rows)
  PROVE  IsRun(run) /\ Range(run) = Range(rows) /\ Len(run) = Len(rows)
<1>1. DOMAIN rows = 1 .. Len(rows) /\ Len(rows) \in Nat
  BY LenProperties
<1>2. PICK p \in Bijection(DOMAIN rows, DOMAIN rows) :
        run = [i \in DOMAIN rows |-> rows[p[i]]]
  BY DEF SortInMemory
<1>3. /\ Ordered(run) /\ p \in [DOMAIN rows -> DOMAIN rows]
      /\ \A i, j \in DOMAIN rows : p[i] = p[j] => i = j
      /\ \A j \in DOMAIN rows : \E i \in DOMAIN rows : p[i] = j
  BY <1>2 DEF SortInMemory, Bijection, Injection, Surjection, IsInjective
<1>4. DOMAIN run = DOMAIN rows /\ \A i \in DOMAIN rows : run[i] = rows[p[i]]
  BY <1>2
<1>5. IsInjective(run)
  BY <1>3, <1>4 DEF IsInjective
<1>6. Range(run) = Range(rows)
  BY <1>3, <1>4 DEF Range
<1>7. QED
  BY <1>3, <1>5, <1>6, ArrangedRows DEF IsRun

-----------------------------------------------------------------------------
(***************************************************************************)
(* A sorter's operations on its own rows                                   *)
(***************************************************************************)
LEMMA InjectiveAppend ==
  ASSUME NEW S, NEW q \in Seq(S), NEW e \in S, IsInjective(q), e \notin Range(q)
  PROVE  IsInjective(Append(q, e))
<1>1. /\ Append(q, e) \in Seq(S) /\ Len(Append(q, e)) = Len(q) + 1
      /\ \A i \in 1 .. Len(q) : Append(q, e)[i] = q[i]
      /\ Append(q, e)[Len(q) + 1] = e
  BY AppendProperties
<1>2. Len(q) \in Nat /\ DOMAIN q = 1 .. Len(q) /\ DOMAIN Append(q, e) = 1 .. Len(q) + 1
  BY <1>1, LenProperties
<1>3. \A i \in 1 .. Len(q) + 1 : i = Len(q) + 1 \/ i \in 1 .. Len(q)
  BY <1>2
<1>4. \A i \in 1 .. Len(q) : q[i] # e
  BY <1>2 DEF Range
<1>5. QED
  BY <1>1, <1>2, <1>3, <1>4 DEF IsInjective

LEMMA NoRows ==
  /\ Range(<<>>) = {} /\ IsInjective(<<>>) /\ InRuns(<<>>) = {} /\ SortedRuns(<<>>)
  /\ <<>> \in Seq(Rows) /\ Ordered(<<>>) /\ IsRun(<<>>)
<1>1. DOMAIN <<>> = {}
  OBVIOUS
<1>2. <<>> \in Seq(Rows)
  BY EmptySeq
<1>3. Range(<<>>) = {} /\ IsInjective(<<>>) /\ InRuns(<<>>) = {}
  BY <1>1 DEF Range, IsInjective, InRuns
<1>4. SortedRuns(<<>>) /\ Ordered(<<>>)
  BY <1>1 DEF SortedRuns, Ordered
<1>5. QED
  BY <1>2, <1>3, <1>4 DEF IsRun

(* PutTuple keeps the row in memory.                                       *)
LEMMA SoundPut ==
  ASSUME NEW m \in Seq(Rows), NEW h, NEW runs, NEW put \in Seq(Rows), NEW got, NEW end,
         NEW row \in Rows, row.id = Len(put) + 1,
         Sound(m, FALSE, h, runs, put, got, end)
  PROVE  Sound(Append(m, row), FALSE, h, runs, Append(put, row), got, end)
<1>1. /\ Append(put, row) \in Seq(Rows) /\ Len(Append(put, row)) = Len(put) + 1
      /\ \A i \in 1 .. Len(put) : Append(put, row)[i] = put[i]
      /\ Append(put, row)[Len(put) + 1] = row
  BY AppendProperties
<1>2. /\ Len(put) \in Nat /\ DOMAIN put = 1 .. Len(put)
      /\ DOMAIN Append(put, row) = 1 .. Len(put) + 1
  BY <1>1, LenProperties
<1>3. \A i \in 1 .. Len(put) + 1 : i = Len(put) + 1 \/ i \in 1 .. Len(put)
  BY <1>2
<1>4. \A i \in DOMAIN put : put[i].id = i
  BY DEF Sound
<1>5. \A i \in DOMAIN Append(put, row) : Append(put, row)[i].id = i
  BY <1>1, <1>2, <1>3, <1>4
<1>6. row \notin Range(put)
  <2>1. \A i \in 1 .. Len(put) : i # Len(put) + 1
    BY <1>2
  <2>2. QED
    BY <1>2, <1>4, <2>1 DEF Range
<1>7. /\ Collecting(m, runs, put, got, end) /\ SortedRuns(runs)
  BY DEF Sound
<1>8. row \notin Range(m) /\ row \notin InRuns(runs)
  BY <1>6, <1>7 DEF Collecting
<1>9. /\ Range(Append(m, row)) = Range(m) \cup {row}
      /\ Range(Append(put, row)) = Range(put) \cup {row}
  BY RangeOfAppend
<1>10. IsInjective(Append(m, row))
  BY <1>7, <1>8, InjectiveAppend DEF Collecting
<1>11. Collecting(Append(m, row), runs, Append(put, row), got, end)
  BY <1>7, <1>8, <1>9, <1>10 DEF Collecting
<1>12. QED
  BY <1>5, <1>7, <1>11 DEF Sound

(* DumpRun moves the rows from memory to a run.                            *)
LEMMA SoundDump ==
  ASSUME NEW m \in Seq(Rows), m # <<>>, NEW h, NEW runs \in Seq(Seq(Rows)), NEW put,
         NEW got, NEW end, Sound(m, FALSE, h, runs, put, got, end),
         NEW run \in SortInMemory(m)
  PROVE  Sound(<<>>, FALSE, h, Append(runs, run), put, got, end)
<1> DEFINE more == Append(runs, run)
<1>1. /\ Collecting(m, runs, put, got, end) /\ SortedRuns(runs)
      /\ \A i \in DOMAIN put : put[i].id = i
  BY DEF Sound
<1>2. IsRun(run) /\ Range(run) = Range(m) /\ Len(run) = Len(m)
  BY <1>1, Arranged DEF Collecting
<1>3. run \in Seq(Rows) /\ run # <<>>
  BY <1>2, EmptySeq DEF IsRun
<1>4. /\ more \in Seq(Seq(Rows)) /\ Len(more) = Len(runs) + 1
      /\ \A i \in 1 .. Len(runs) : more[i] = runs[i]
      /\ more[Len(runs) + 1] = run
  BY <1>3, AppendProperties
<1>5. /\ Len(runs) \in Nat /\ DOMAIN runs = 1 .. Len(runs)
      /\ DOMAIN more = 1 .. Len(runs) + 1
  BY <1>4, LenProperties
<1>6. /\ \A i \in 1 .. Len(runs) + 1 : i = Len(runs) + 1 \/ i \in 1 .. Len(runs)
      /\ Len(runs) + 1 \in 1 .. Len(runs) + 1
      /\ \A i \in 1 .. Len(runs) : i \in 1 .. Len(runs) + 1
  BY <1>5
<1> HIDE DEF more
<1>7. InRuns(more) = InRuns(runs) \cup Range(m)
  <2>1. \A x : x \in InRuns(more) <=> \E i \in DOMAIN more : x \in Range(more[i])
    BY DEF InRuns
  <2>2. \A x : x \in InRuns(runs) <=> \E i \in DOMAIN runs : x \in Range(runs[i])
    BY DEF InRuns
  <2>3. ASSUME NEW x \in InRuns(more)  PROVE x \in InRuns(runs) \/ x \in Range(m)
    BY <1>2, <1>4, <1>5, <1>6, <2>1, <2>2
  <2>4. ASSUME NEW x, x \in InRuns(runs) \/ x \in Range(m)  PROVE x \in InRuns(more)
    BY <1>2, <1>4, <1>5, <1>6, <2>1, <2>2, <2>4, Zenon
  <2>5. QED
    BY <2>3, <2>4
<1>8. \A i \in DOMAIN runs : Range(runs[i]) \cap Range(run) = {}
  BY <1>1, <1>2 DEF Collecting, InRuns
<1>9. SortedRuns(more)
  <2>1. \A i \in DOMAIN more : IsRun(more[i]) /\ more[i] # <<>>
    BY <1>1, <1>2, <1>3, <1>4, <1>5, <1>6, ZenonT(30) DEF SortedRuns
  <2>2. ASSUME NEW i \in DOMAIN more, NEW j \in DOMAIN more, i # j
        PROVE  Range(more[i]) \cap Range(more[j]) = {}
    <3>1. CASE i \in 1 .. Len(runs) /\ j \in 1 .. Len(runs)
      BY <1>1, <1>4, <1>5, <2>2, <3>1 DEF SortedRuns
    <3>2. CASE i \in 1 .. Len(runs) /\ j = Len(runs) + 1
      BY <1>4, <1>5, <1>8, <3>2
    <3>3. CASE i = Len(runs) + 1 /\ j \in 1 .. Len(runs)
      BY <1>4, <1>5, <1>8, <3>3
    <3>4. QED
      BY <1>5, <1>6, <2>2, <3>1, <3>2, <3>3
  <2>3. QED
    BY <2>1, <2>2 DEF SortedRuns
<1>10. Collecting(<<>>, more, put, got, end)
  BY <1>1, <1>7, NoRows DEF Collecting
<1>11. QED
  BY <1>1, <1>9, <1>10 DEF Sound, more

(* PerformSort when nothing was spilled.                                   *)
LEMMA SoundInMemory ==
  ASSUME NEW m \in Seq(Rows), NEW h, NEW put, NEW got, NEW end,
         Sound(m, FALSE, h, <<>>, put, got, end), NEW rows \in SortInMemory(m)
  PROVE  Sound(rows, TRUE, h, <<>>, put, got, end)
<1>1. /\ Collecting(m, <<>>, put, got, end) /\ SortedRuns(<<>>)
      /\ \A i \in DOMAIN put : put[i].id = i
  BY DEF Sound
<1>2. IsRun(rows) /\ Range(rows) = Range(m) /\ Len(rows) = Len(m) /\ rows \in Seq(Rows)
  BY <1>1, Arranged DEF Collecting, IsRun
<1>3. Range(put) = Range(m) /\ got = <<>> /\ ~end
  BY <1>1, NoRows DEF Collecting
<1>4. got \in Seq(Rows) /\ Len(got) = 0 /\ DOMAIN got = {} /\ Len(rows) \in Nat
  BY <1>2, <1>3, EmptySeq, LenProperties
<1>5. FromMemory(rows, put, got, end)
  BY <1>2, <1>3, <1>4 DEF FromMemory
<1>6. QED
  BY <1>1, <1>5 DEF Sound

(* BeginMerge: no run is empty, so the heads are the first rows of all.    *)
LEMMA SoundMerge ==
  ASSUME NEW h, NEW runs \in Seq(Seq(Rows)), runs # <<>>, NEW put, NEW got, NEW end,
         Sound(<<>>, FALSE, h, runs, put, got, end)
  PROVE  Sound(<<>>, TRUE, FirstHeads(runs), runs, put, got, end)
<1> DEFINE n == Len(runs)
           g == FirstHeads(runs)
           source == Increasing(1 .. n, n)
<1>1. /\ Collecting(<<>>, runs, put, got, end) /\ SortedRuns(runs)
      /\ \A i \in DOMAIN put : put[i].id = i
  BY DEF Sound
<1>2. n \in Nat /\ DOMAIN runs = 1 .. n
  BY LenProperties
<1>3. {i \in DOMAIN runs : runs[i] # <<>>} = 1 .. n
  BY <1>1, <1>2 DEF SortedRuns
<1> HIDE DEF n
<1>4. /\ source \in UNION {[1 .. m -> 1 .. n] : m \in 0 .. n}
      /\ \A i, j \in DOMAIN source : i < j => source[i] < source[j]
      /\ 1 .. n \subseteq Range(source)
  <2> DEFINE all == [i \in 1 .. n |-> i]
  <2>1. all \in [1 .. n -> 1 .. n] /\ n \in 0 .. n
    BY <1>2
  <2>2. all \in UNION {[1 .. m -> 1 .. n] : m \in 0 .. n}
    BY <2>1
  <2>3. /\ \A i, j \in DOMAIN all : i < j => all[i] < all[j]
        /\ 1 .. n \subseteq Range(all)
    BY DEF Range
  <2> HIDE DEF all
  <2>4. QED
    BY <2>2, <2>3, Zenon DEF Increasing
<1>0. g = [a \in DOMAIN source |->
             [source |-> source[a], row |-> runs[source[a]][1], next |-> 2]]
  BY <1>3, Zenon DEF FirstHeads, n
<1> HIDE DEF g, source
<1>5. PICK m \in Nat : source \in [1 .. m -> 1 .. n]
  <2>1. PICK m \in 0 .. n : source \in [1 .. m -> 1 .. n]
    BY <1>4, Zenon
  <2>2. m \in Nat
    BY <1>2
  <2>3. QED
    BY <2>1, <2>2, Zenon
<1>6. \A i, j \in 1 .. m : i # j => source[i] # source[j]
  <2>1. \A i \in 1 .. m : source[i] \in Int
    BY <1>5
  <2>2. QED
    BY <1>4, <1>5, <2>1
<1>7. \A i \in 1 .. n : \E a \in 1 .. m : source[a] = i
  BY <1>4, <1>5, Zenon DEF Range
<1>8. \A i \in 1 .. n : /\ runs[i] \in Seq(Rows) /\ Len(runs[i]) \in Nat
                        /\ DOMAIN runs[i] = 1 .. Len(runs[i]) /\ 1 \in DOMAIN runs[i]
  <2> SUFFICES ASSUME NEW i \in 1 .. n
               PROVE  /\ runs[i] \in Seq(Rows) /\ Len(runs[i]) \in Nat
                      /\ DOMAIN runs[i] = 1 .. Len(runs[i]) /\ 1 \in DOMAIN runs[i]
    OBVIOUS
  <2>1. runs[i] \in Seq(Rows) /\ runs[i] # <<>>
    BY <1>1, <1>2 DEF SortedRuns, IsRun
  <2>2. Len(runs[i]) \in Nat /\ DOMAIN runs[i] = 1 .. Len(runs[i])
    BY <2>1, LenProperties
  <2>3. Len(runs[i]) # 0
    BY <2>1, EmptySeq
  <2>4. QED
    BY <2>1, <2>2, <2>3
<1>9. /\ DOMAIN g = 1 .. m
      /\ \A a \in 1 .. m : /\ source[a] \in 1 .. n /\ g[a].source = source[a]
                           /\ g[a].row = runs[source[a]][1] /\ g[a].next = 2
  BY <1>0, <1>5
<1>10. g \in Seq(HeadRows)
  <2>1. \A i \in 1 .. n : runs[i][1] \in Rows
    BY <1>8, ElementOfSeq
  <2>2. \A a \in 1 .. m : source[a] \in 1 .. n /\ source[a] \in Nat
    BY <1>2, <1>5
  <2>4. \A a \in 1 .. m :
          [source |-> source[a], row |-> runs[source[a]][1], next |-> 2]
            \in HeadRows
    BY <2>1, <2>2 DEF HeadRows
  <2>5. DOMAIN source = 1 .. m
    BY <1>5
  <2>6. g \in [1 .. m -> HeadRows]
    BY <1>0, <2>4, <2>5, Zenon
  <2>3. QED
    BY <2>6, FcnIsSeq
<1>11. Heads(g, runs)
  <2>1. \A a \in DOMAIN g : g[a].next - 1 = 1
    BY <1>9
  <2>2. \A a \in DOMAIN g : g[a].source \in 1 .. n /\ g[a].source = source[a]
                             /\ g[a].row = runs[g[a].source][1]
    BY <1>9
  <2>3. \A a, b \in DOMAIN g : a # b => g[a].source # g[b].source
    BY <1>6, <1>9, <2>2
  <2>4. QED
    BY <1>2, <1>8, <2>1, <2>2, <2>3, Zenon DEF Heads
<1>12. RowsLeft(g, runs) = InRuns(runs)
  <2>1. \A a \in DOMAIN g : g[a].next - 1 .. Len(runs[g[a].source])
                             = DOMAIN runs[g[a].source]
    BY <1>8, <1>9
  <2>2. RowsLeft(g, runs) = UNION {Range(runs[g[a].source]) : a \in DOMAIN g}
    BY <2>1, ZenonT(30) DEF RowsLeft, Range
  <2>3. \A x : x \in RowsLeft(g, runs) <=> \E a \in 1 .. m : x \in Range(runs[source[a]])
    <3>1. \A x : x \in RowsLeft(g, runs) <=> \E a \in DOMAIN g : x \in Range(runs[g[a].source])
      BY <2>2, Zenon
    <3>2. DOMAIN g = 1 .. m /\ \A a \in DOMAIN g : g[a].source = source[a]
      BY <1>9
    <3>3. QED
      BY <3>1, <3>2, Zenon
  <2>4. \A x : x \in InRuns(runs) <=> \E i \in 1 .. n : x \in Range(runs[i])
    BY <1>2 DEF InRuns
  <2>5. \A a \in 1 .. m : source[a] \in 1 .. n
    BY <1>9
  <2>6. ASSUME NEW x \in RowsLeft(g, runs)  PROVE x \in InRuns(runs)
    <3>1. PICK a \in 1 .. m : x \in Range(runs[source[a]])
      BY <2>3
    <3>2. QED
      BY <2>4, <2>5, <3>1
  <2>7. ASSUME NEW x \in InRuns(runs)  PROVE x \in RowsLeft(g, runs)
    <3>1. PICK i \in 1 .. n : x \in Range(runs[i])
      BY <2>4
    <3>2. PICK a \in 1 .. m : source[a] = i
      BY <1>7
    <3>3. QED
      BY <2>3, <3>1, <3>2
  <2>8. QED
    BY <2>6, <2>7, Zenon
<1>13. Merging(g, runs, put, got, end)
  BY <1>1, <1>10, <1>11, <1>12, NoRows DEF Merging, Collecting
<1>14. QED
  BY <1>1, <1>13 DEF Sound, g

(* GetTuple from memory returns the row after those returned, if there is  *)
(* one, and otherwise the end.                                             *)
LEMMA SoundGetMemory ==
  ASSUME NEW m \in Seq(Rows), NEW h, NEW put, NEW got, NEW end,
         Sound(m, TRUE, h, <<>>, put, got, end)
  PROVE  IF Len(got) < Len(m)
           THEN Sound(m, TRUE, h, <<>>, put, Append(got, m[Len(got) + 1]), end)
           ELSE Sound(m, TRUE, h, <<>>, put, got, TRUE)
<1>1. /\ FromMemory(m, put, got, end) /\ SortedRuns(<<>>)
      /\ \A i \in DOMAIN put : put[i].id = i
  BY DEF Sound
<1>2. /\ got \in Seq(Rows) /\ Len(got) \in Nat /\ DOMAIN got = 1 .. Len(got)
      /\ Len(m) \in Nat /\ DOMAIN m = 1 .. Len(m) /\ Len(got) <= Len(m)
  BY <1>1, LenProperties DEF FromMemory
<1>0. /\ \A i \in DOMAIN got : got[i] = m[i]
      /\ end => Len(got) = Len(m)
  BY <1>1 DEF FromMemory
<1>3. CASE Len(got) < Len(m)
  <2> DEFINE row == m[Len(got) + 1]
  <2>1. row \in Rows
    BY <1>2, <1>3, ElementOfSeq
  <2>2. /\ Append(got, row) \in Seq(Rows) /\ Len(Append(got, row)) = Len(got) + 1
        /\ \A i \in 1 .. Len(got) : Append(got, row)[i] = got[i]
        /\ Append(got, row)[Len(got) + 1] = row
    BY <1>2, <2>1, AppendProperties
  <2>3. DOMAIN Append(got, row) = 1 .. Len(got) + 1
    BY <2>2, LenProperties
  <2>4. \A i \in 1 .. Len(got) + 1 : i = Len(got) + 1 \/ i \in 1 .. Len(got)
    BY <1>2
  <2>5. ASSUME NEW i \in DOMAIN Append(got, row)  PROVE Append(got, row)[i] = m[i]
    <3>1. CASE i \in 1 .. Len(got)
      BY <1>0, <1>2, <2>2, <3>1, Zenon
    <3>2. CASE i = Len(got) + 1
      BY <2>2, <3>2
    <3>3. QED
      BY <2>3, <2>4, <3>1, <3>2
  <2>6. Len(Append(got, row)) <= Len(m) /\ Len(got) # Len(m)
    <3> DEFINE x == Len(got)
               y == Len(m)
    <3>1. x \in Nat /\ y \in Nat /\ x < y
      BY <1>2, <1>3
    <3> HIDE DEF x, y
    <3>2. x + 1 <= y /\ x # y
      BY <3>1
    <3>3. QED
      BY <2>2, <3>2 DEF x, y
  <2>8. FromMemory(m, put, Append(got, row), end)
    BY <1>0, <1>1, <2>2, <2>5, <2>6 DEF FromMemory
  <2>7. QED
    BY <1>1, <1>3, <2>8 DEF Sound
<1>4. CASE ~(Len(got) < Len(m))
  <2>1. Len(got) = Len(m)
    <3> DEFINE x == Len(got)
               y == Len(m)
    <3>1. x \in Nat /\ y \in Nat /\ x <= y /\ ~(x < y)
      BY <1>2, <1>4
    <3> HIDE DEF x, y
    <3>2. x = y
      BY <3>1
    <3>3. QED
      BY <3>2 DEF x, y
  <2>2. FromMemory(m, put, got, TRUE)
    BY <1>1, <2>1 DEF FromMemory
  <2>3. QED
    BY <1>1, <1>4, <2>2, Zenon DEF Sound
<1>5. QED
  BY <1>3, <1>4, Zenon

(* Among the heads there is a first one that no other comes before.        *)
LEMMA LeastHead ==
  ASSUME order \in [reverse : BOOLEAN, nulls_first : BOOLEAN],
         NEW h \in Seq(HeadRows), h # <<>>
  PROVE  Least(h) \in DOMAIN h /\ \A j \in DOMAIN h : ~Before(h[j].row, h[Least(h)].row)
<1> DEFINE n == Len(h)
           First(i, k) == i \in 1 .. k /\ \A j \in 1 .. k : ~Before(h[j].row, h[i].row)
           Good == {k \in 1 .. n : \E i : First(i, k)}
           Bad == (1 .. n) \ Good
<1>1. n \in Nat /\ DOMAIN h = 1 .. n /\ n # 0
  BY LenProperties, EmptySeq
<1>2. \A j \in 1 .. n : h[j].row \in Rows
  <2>1. \A j \in 1 .. n : h[j] \in HeadRows
    BY ElementOfSeq
  <2>2. QED
    BY <2>1 DEF HeadRows
<1>3. /\ \A a \in Rows : ~Before(a, a)
      /\ \A a, b, c \in Rows : ~Before(b, a) /\ ~Before(c, b) => ~Before(c, a)
  BY CompareIsOrder
<1> HIDE DEF n
<1>4. Bad = {}
  <2> SUFFICES ASSUME Bad # {}  PROVE FALSE
    OBVIOUS
  <2>1. PICK k \in Bad : \A x \in Bad : ~(x < k)
    <3>1. Bad \subseteq Nat
      BY <1>1
    <3>2. IsWellFoundedOn(OpToRel(<, Nat), Nat)
      BY NatLessThanWellFounded, Zenon
    <3> HIDE DEF Bad
    <3>3. PICK k \in Bad : \A y \in Bad : ~(<<y, k>> \in OpToRel(<, Nat))
      BY <3>1, <3>2, WFMin, Zenon
    <3>4. QED
      BY <3>1, <3>3, Zenon DEF OpToRel
  <2>2. k \in 1 .. n /\ k \notin Good
    BY DEF Bad
  <2>3. CASE k = 1
    <3>1. First(1, 1)
      BY <1>1, <1>2, <1>3
    <3>2. QED
      BY <2>2, <2>3, <3>1
  <2>4. CASE k # 1
    <3>1. k - 1 \in 1 .. n /\ k - 1 < k /\ k \in Nat
      BY <1>1, <2>2, <2>4
    <3>2. k - 1 \in Good
      BY <2>1, <3>1
    <3>3. PICK i : First(i, k - 1)
      BY <3>2
    <3>4. /\ i \in 1 .. k - 1 /\ i \in 1 .. k /\ i \in 1 .. n /\ k \in 1 .. k
          /\ \A j \in 1 .. k : j \in 1 .. n /\ (j = k \/ j \in 1 .. k - 1)
      BY <1>1, <2>2, <3>1, <3>3
    <3>5. CASE ~Before(h[k].row, h[i].row)
      <4>1. First(i, k)
        BY <3>3, <3>4, <3>5
      <4>2. QED
        BY <2>2, <4>1
    <3>6. CASE Before(h[k].row, h[i].row)
      <4>1. h[k].row \in Rows /\ h[i].row \in Rows
        BY <1>2, <2>2, <3>4
      <4>2. ~Before(h[i].row, h[k].row)
        BY <3>6, <4>1, BeforeOneWay
      <4>3. \A j \in 1 .. k : ~Before(h[j].row, h[k].row)
        BY <1>2, <1>3, <3>3, <3>4, <4>1, <4>2
      <4>4. First(k, k)
        BY <3>4, <4>3
      <4>5. QED
        BY <2>2, <4>4, ZenonT(30)
    <3>7. QED
      BY <3>5, <3>6
  <2>5. QED
    BY <2>3, <2>4
<1> DEFINE Firsts == {i \in 1 .. n : First(i, n)}
<1>5. Firsts # {} /\ Firsts \subseteq Nat
  <2>1. n \in 1 .. n
    BY <1>1
  <2>2. n \in Good
    BY <1>4, <2>1
  <2>3. \E i : First(i, n)
    BY <2>2
  <2>4. Firsts # {}
    BY <2>3
  <2>5. Firsts \subseteq Nat
    BY <1>1
  <2>6. QED
    BY <2>4, <2>5
<1>6. PICK i \in Firsts : \A x \in Firsts : ~(x < i)
  <2>1. IsWellFoundedOn(OpToRel(<, Nat), Nat)
    BY NatLessThanWellFounded, Zenon
  <2> HIDE DEF Firsts
  <2>2. PICK i \in Firsts : \A y \in Firsts : ~(<<y, i>> \in OpToRel(<, Nat))
    BY <1>5, <2>1, WFMin, Zenon
  <2>3. QED
    BY <1>5, <2>2, Zenon DEF OpToRel
<1>7. i \in 1 .. n /\ \A j \in 1 .. n : ~Before(h[j].row, h[i].row)
  BY DEF Firsts
<1>8. ASSUME NEW j \in 1 .. i - 1  PROVE Before(h[i].row, h[j].row)
  <2>1. j \in 1 .. n /\ j < i
    BY <1>1, <1>7
  <2>2. j \notin Firsts
    BY <1>6, <2>1
  <2>3. PICK k \in 1 .. n : Before(h[k].row, h[j].row)
    BY <2>1, <2>2
  <2>4. ~Before(h[k].row, h[i].row)
    BY <1>7
  <2>5. QED
    BY <1>2, <1>3, <1>7, <2>1, <2>3, <2>4
<1>9. \E k \in DOMAIN h : /\ \A j \in DOMAIN h : ~Before(h[j].row, h[k].row)
                          /\ \A j \in 1 .. k - 1 : Before(h[k].row, h[j].row)
  BY <1>1, <1>7, <1>8
<1> DEFINE Ok(k) == /\ \A j \in DOMAIN h : ~Before(h[j].row, h[k].row)
                    /\ \A j \in 1 .. k - 1 : Before(h[k].row, h[j].row)
<1>10. Least(h) = CHOOSE k \in DOMAIN h : Ok(k)
  BY DEF Least
<1>11. \E k \in DOMAIN h : Ok(k)
  BY <1>9
<1>12. Least(h) \in DOMAIN h /\ Ok(Least(h))
  <2> HIDE DEF Ok
  <2>1. QED
    BY <1>10, <1>11
<1>13. QED
  BY <1>12

LEMMA Interval ==
  ASSUME NEW p \in Nat, NEW l \in Nat, p - 1 \in 1 .. l
  PROVE  /\ p # 0 /\ p - 1 \in Nat
         /\ p <= l => p \in 1 .. l
         /\ ~(p <= l) => \A j : j \notin p .. l
         /\ \A j : j \in p - 1 .. l <=> j = p - 1 \/ j \in p .. l
         /\ \A j \in p - 1 .. l : j \in 1 .. l /\ j \in Nat /\ (j = p - 1 \/ p - 1 < j)
         /\ \A j \in p .. l : j \in 1 .. l /\ j \in Nat /\ j # p - 1
OBVIOUS

LEMMA LeftIs ==
  ASSUME NEW q, NEW runs, NEW x
  PROVE  x \in RowsLeft(q, runs) <=>
           \E a \in DOMAIN q : \E j \in q[a].next - 1 .. Len(runs[q[a].source]) :
             x = runs[q[a].source][j]
<1> DEFINE T(a) == {runs[q[a].source][j] : j \in q[a].next - 1 .. Len(runs[q[a].source])}
<1>1. \A a : x \in T(a) <=> \E j \in q[a].next - 1 .. Len(runs[q[a].source]) :
                               x = runs[q[a].source][j]
  OBVIOUS
<1>2. RowsLeft(q, runs) = UNION {T(a) : a \in DOMAIN q}
  BY DEF RowsLeft
<1> HIDE DEF T
<1>3. x \in RowsLeft(q, runs) <=> \E a \in DOMAIN q : x \in T(a)
  BY <1>2
<1>4. QED
  BY <1>1, <1>3

(* What is true of a head of a tape, and of the rows of its tape.          *)
LEMMA HeadIs ==
  ASSUME NEW h \in Seq(HeadRows), NEW runs \in Seq(Seq(Rows)), Heads(h, runs),
         NEW a \in DOMAIN h
  PROVE  /\ h[a] \in HeadRows /\ h[a].source \in Nat /\ h[a].next \in Nat /\ h[a].row \in Rows
         /\ h[a].source \in DOMAIN runs
         /\ runs[h[a].source] \in Seq(Rows) /\ Len(runs[h[a].source]) \in Nat
         /\ DOMAIN runs[h[a].source] = 1 .. Len(runs[h[a].source])
         /\ h[a].next - 1 \in 1 .. Len(runs[h[a].source])
         /\ h[a].row = runs[h[a].source][h[a].next - 1]
<1>1. h[a] \in HeadRows
  BY LenProperties, ElementOfSeq
<1>2. h[a].source \in Nat /\ h[a].next \in Nat /\ h[a].row \in Rows
  BY <1>1 DEF HeadRows
<1>3. /\ h[a].source \in DOMAIN runs /\ h[a].next - 1 \in DOMAIN runs[h[a].source]
      /\ h[a].row = runs[h[a].source][h[a].next - 1]
  BY DEF Heads
<1>4. runs[h[a].source] \in Seq(Rows)
  BY <1>3, LenProperties, ElementOfSeq
<1>5. Len(runs[h[a].source]) \in Nat /\ DOMAIN runs[h[a].source] = 1 .. Len(runs[h[a].source])
  BY <1>4, LenProperties
<1>6. QED
  BY <1>1, <1>2, <1>3, <1>4, <1>5

(* GetTupleFromMerge: the least head is returned, and its tape moves on or *)
(* is left out.                                                            *)
LEMMA Advance ==
  ASSUME NEW h \in Seq(HeadRows),
         NEW runs \in Seq(Seq(Rows)), Heads(h, runs),
         NEW min \in DOMAIN h
  PROVE  /\ Moved(h, min, runs[h[min].source]) \in Seq(HeadRows)
         /\ Heads(Moved(h, min, runs[h[min].source]), runs)
         /\ \A x : x \in RowsLeft(Moved(h, min, runs[h[min].source]), runs) <=>
              \/ \E a \in DOMAIN h \ {min} :
                   \E j \in h[a].next - 1 .. Len(runs[h[a].source]) :
                     x = runs[h[a].source][j]
              \/ \E j \in h[min].next .. Len(runs[h[min].source]) :
                   x = runs[h[min].source][j]
<1> DEFINE rows == runs[h[min].source]
           g == Moved(h, min, rows)
           n == Len(h)
           next == h[min].next
           len == Len(rows)
           Rest(k, x) == \E j \in k.next - 1 .. Len(runs[k.source]) : x = runs[k.source][j]
           Later(x) == \E j \in next .. len : x = rows[j]
           LeftOut(x) == (\E a \in DOMAIN h \ {min} : Rest(h[a], x)) \/ Later(x)
<1>1. n \in Nat /\ DOMAIN h = 1 .. n /\ min \in 1 .. n /\ n \in 1 .. n
  BY LenProperties
<1>2. \A a \in 1 .. n : /\ h[a] \in HeadRows /\ h[a].source \in DOMAIN runs
                        /\ h[a].next - 1 \in DOMAIN runs[h[a].source]
                        /\ h[a].row = runs[h[a].source][h[a].next - 1]
  BY <1>1, HeadIs, Zenon DEF Heads
<1>3. \A a, b \in 1 .. n : a # b => h[a].source # h[b].source
  BY <1>1, Zenon DEF Heads
<1>4. /\ h[min].source \in Nat /\ next \in Nat /\ rows \in Seq(Rows) /\ len \in Nat
      /\ DOMAIN rows = 1 .. len /\ next - 1 \in 1 .. len /\ h[min].source \in DOMAIN runs
  BY HeadIs, Zenon
<1> HIDE DEF n, rows, g
<1>6. \A q, x : x \in RowsLeft(q, runs) <=> \E a \in DOMAIN q : Rest(q[a], x)
  <2> SUFFICES ASSUME NEW q, NEW x
               PROVE  x \in RowsLeft(q, runs) <=> \E a \in DOMAIN q : Rest(q[a], x)
    OBVIOUS
  <2>1. x \in RowsLeft(q, runs) <=>
          \E a \in DOMAIN q : \E j \in q[a].next - 1 .. Len(runs[q[a].source]) :
            x = runs[q[a].source][j]
    BY LeftIs
  <2>2. QED
    BY <2>1, Zenon
<1> HIDE DEF next, len, Rest, Later
<1>7. ASSUME next <= len
      PROVE  /\ g \in Seq(HeadRows) /\ Heads(g, runs)
             /\ \A x : x \in RowsLeft(g, runs) <=> LeftOut(x)
  <2> DEFINE k == [source |-> h[min].source, row |-> rows[next], next |-> next + 1]
  <2>1. next \in 1 .. len /\ next + 1 \in Nat /\ (next + 1) - 1 = next
    BY <1>4, <1>7
  <2>2. rows[next] \in Rows
    BY <1>4, <2>1, ElementOfSeq DEF len
  <2>3. k \in HeadRows
    BY <1>4, <2>1, <2>2 DEF HeadRows
  <2>4. g = [h EXCEPT ![min] = k]
    BY <1>7, Zenon DEF Moved, next, len, g
  <2>5. k.source = h[min].source /\ k.row = rows[next] /\ k.next = next + 1
    OBVIOUS
  <2> HIDE DEF k
  <2>6. DOMAIN g = 1 .. n /\ g[min] = k /\ \A a \in (1 .. n) \ {min} : g[a] = h[a]
    BY <1>1, <2>4
  <2>7. g \in [1 .. n -> HeadRows]
    <3>1. \A a \in 1 .. n : g[a] \in HeadRows
      BY <1>2, <2>3, <2>6, ZenonT(30)
    <3>2. g = [a \in 1 .. n |-> g[a]]
      BY <1>1, <2>4, Zenon
    <3>3. QED
      BY <3>1, <3>2, Zenon
  <2>8. g \in Seq(HeadRows)
    BY <1>1, <2>7, FcnIsSeq
  <2>9. Heads(g, runs)
    <3>1. ASSUME NEW a \in DOMAIN g
          PROVE  /\ g[a].source = h[a].source /\ g[a].source \in DOMAIN runs
                 /\ g[a].next - 1 \in DOMAIN runs[g[a].source]
                 /\ g[a].row = runs[g[a].source][g[a].next - 1]
      <4>1. CASE a = min
        <5>1. g[a].source = h[min].source /\ g[a].row = rows[next] /\ g[a].next - 1 = next
          BY <2>1, <2>5, <2>6, <4>1
        <5>2. QED
          BY <1>4, <2>1, <4>1, <5>1, Zenon DEF rows
      <4>2. CASE a # min
        BY <1>2, <2>6, <4>2, Zenon
      <4>3. QED
        BY <4>1, <4>2
    <3>2. ASSUME NEW a \in DOMAIN g, NEW b \in DOMAIN g, a # b
          PROVE  g[a].source # g[b].source
      <4>1. g[a].source = h[a].source /\ g[b].source = h[b].source
        BY <3>1
      <4>2. h[a].source # h[b].source
        BY <1>3, <2>6, <3>2
      <4>3. QED
        BY <4>1, <4>2
    <3>3. QED
      BY <3>1, <3>2, Zenon DEF Heads
  <2>10. ASSUME NEW x  PROVE (\E a \in DOMAIN g : Rest(g[a], x)) <=> LeftOut(x)
    <3>1. Rest(k, x) <=> Later(x)
      BY <2>1, <2>5 DEF Rest, Later, len, rows
    <3>2. QED
      BY <1>1, <2>6, <3>1, Zenon
  <2>11. QED
    <3> HIDE DEF LeftOut
    <3>1. QED
      BY <1>6, <2>8, <2>9, <2>10
<1>8. ASSUME ~(next <= len)
      PROVE  /\ g \in Seq(HeadRows) /\ Heads(g, runs)
             /\ \A x : x \in RowsLeft(g, runs) <=> LeftOut(x)
  <2> DEFINE q == [h EXCEPT ![min] = h[n]]
             old(a) == IF a = min THEN n ELSE a
  <2>1. q \in [1 .. n -> HeadRows]
    <3>1. \A a \in 1 .. n : q[a] \in HeadRows
      BY <1>1, <1>2
    <3>2. q = [a \in 1 .. n |-> q[a]]
      BY <1>1, Zenon
    <3>3. QED
      BY <3>1, <3>2, Zenon
  <2>2. q \in Seq(HeadRows) /\ Len(q) = n
    BY <1>1, <2>1, FcnIsSeq
  <2>3. g = SubSeq(q, 1, n - 1)
    BY <1>8, Zenon DEF Moved, n, next, len, g
  <2>4. \A a \in 1 .. n : q[a] = h[old(a)]
    BY <1>1
  <2> HIDE DEF q
  <2>5. g \in Seq(HeadRows) /\ Len(g) = n - 1 /\ \A a \in 1 .. n - 1 : g[a] = q[a]
    BY <1>1, <2>2, <2>3, SubSeqProperties
  <2>6. DOMAIN g = 1 .. n - 1
    BY <2>5, LenProperties
  <2>7. \A a \in 1 .. n - 1 : old(a) \in (1 .. n) \ {min} /\ a \in 1 .. n
    BY <1>1
  <2>8. \A a, b \in 1 .. n - 1 : a # b => old(a) # old(b)
    BY <1>1
  <2>9. \A b \in (1 .. n) \ {min} : \E a \in 1 .. n - 1 : old(a) = b
    <3> SUFFICES ASSUME NEW b \in (1 .. n) \ {min}
                 PROVE  \E a \in 1 .. n - 1 : old(a) = b
      OBVIOUS
    <3>1. CASE b = n
      <4>1. min \in 1 .. n - 1 /\ old(min) = b
        BY <1>1, <3>1
      <4>2. QED
        BY <4>1
    <3>2. CASE b # n
      <4>1. b \in 1 .. n - 1 /\ old(b) = b
        BY <1>1, <3>2
      <4>2. QED
        BY <4>1
    <3>3. QED
      BY <3>1, <3>2
  <2> HIDE DEF old
  <2>10. \A a \in DOMAIN g : g[a] = h[old(a)] /\ old(a) \in (1 .. n) \ {min}
    BY <2>4, <2>5, <2>6, <2>7, ZenonT(30)
  <2>11. Heads(g, runs)
    <3>1. \A a \in DOMAIN g : /\ g[a].source \in DOMAIN runs
                              /\ g[a].next - 1 \in DOMAIN runs[g[a].source]
                              /\ g[a].row = runs[g[a].source][g[a].next - 1]
      BY <1>2, <2>10, Zenon
    <3>2. ASSUME NEW a \in DOMAIN g, NEW b \in DOMAIN g, a # b
          PROVE  g[a].source # g[b].source
      <4>1. g[a] = h[old(a)] /\ g[b] = h[old(b)] /\ old(a) \in 1 .. n /\ old(b) \in 1 .. n
        BY <2>10
      <4>2. old(a) # old(b)
        BY <2>6, <2>8, <3>2
      <4>3. h[old(a)].source # h[old(b)].source
        BY <1>3, <4>1, <4>2, Zenon
      <4>4. QED
        BY <4>1, <4>3
    <3>3. QED
      BY <3>1, <3>2, Zenon DEF Heads
  <2>12. ASSUME NEW x  PROVE (\E a \in DOMAIN g : Rest(g[a], x)) <=> LeftOut(x)
    <3>1. ~Later(x)
      BY <1>4, <1>8, Interval DEF Later
    <3>2. QED
      BY <1>1, <2>6, <2>9, <2>10, <3>1, Zenon
  <2>13. QED
    <3> HIDE DEF LeftOut
    <3>1. QED
      BY <1>6, <2>5, <2>11, <2>12, Zenon
<1>9. /\ g \in Seq(HeadRows) /\ Heads(g, runs)
      /\ \A x : x \in RowsLeft(g, runs) <=> LeftOut(x)
  <2> HIDE DEF LeftOut
  <2>1. QED
    BY <1>7, <1>8
<1>10. QED
  BY <1>9, Zenon DEF Rest, Later, next, len, rows, g

LEMMA SoundGetMerge ==
  ASSUME order \in [reverse : BOOLEAN, nulls_first : BOOLEAN],
         NEW m, NEW h, h # <<>>, NEW runs \in Seq(Seq(Rows)), runs # <<>>,
         NEW put, NEW got, NEW end, Sound(m, TRUE, h, runs, put, got, end)
  PROVE  Sound(m, TRUE, Moved(h, Least(h), runs[h[Least(h)].source]), runs,
               put, Append(got, h[Least(h)].row), end)
<1> DEFINE min == Least(h)
           rows == runs[h[min].source]
           g == Moved(h, min, rows)
           r == h[min].row
           Left(x, a) == \E j \in h[a].next - 1 .. Len(runs[h[a].source]) :
                           x = runs[h[a].source][j]
           Later(x) == \E j \in h[min].next .. Len(rows) : x = rows[j]
<1>1. /\ Merging(h, runs, put, got, end) /\ SortedRuns(runs)
      /\ \A i \in DOMAIN put : put[i].id = i
  BY DEF Sound
<1>2. h \in Seq(HeadRows) /\ Heads(h, runs)
  BY <1>1 DEF Merging
<1>3. min \in DOMAIN h /\ \A j \in DOMAIN h : ~Before(h[j].row, r)
  BY <1>2, LeastHead
<1> HIDE DEF min
<1>4. /\ g \in Seq(HeadRows) /\ Heads(g, runs)
      /\ \A x : x \in RowsLeft(g, runs) <=>
                  (\E a \in DOMAIN h \ {min} : Left(x, a)) \/ Later(x)
  <2>1. /\ g \in Seq(HeadRows) /\ Heads(g, runs)
        /\ \A x : x \in RowsLeft(g, runs) <=>
              \/ \E a \in DOMAIN h \ {min} :
                   \E j \in h[a].next - 1 .. Len(runs[h[a].source]) :
                     x = runs[h[a].source][j]
              \/ \E j \in h[min].next .. Len(rows) : x = rows[j]
    BY <1>2, <1>3, Advance, Zenon
  <2>2. QED
    BY <2>1, Zenon
<1>5. ASSUME NEW a \in DOMAIN h
      PROVE
        /\ h[a].next \in Nat /\ h[a].source \in DOMAIN runs /\ h[a].row \in Rows
        /\ runs[h[a].source] \in Seq(Rows) /\ Len(runs[h[a].source]) \in Nat
        /\ DOMAIN runs[h[a].source] = 1 .. Len(runs[h[a].source])
        /\ h[a].next - 1 \in 1 .. Len(runs[h[a].source])
        /\ h[a].row = runs[h[a].source][h[a].next - 1]
  BY <1>2, HeadIs
<1> HIDE DEF g
<1>7. \A a, b \in DOMAIN h : a # b => h[a].source # h[b].source
  BY <1>2 DEF Heads
<1>8. /\ \A i \in DOMAIN runs : Ordered(runs[i]) /\ IsInjective(runs[i])
      /\ \A i, j \in DOMAIN runs : i # j => Range(runs[i]) \cap Range(runs[j]) = {}
  BY <1>1 DEF SortedRuns, IsRun
<1>9. ASSUME NEW x  PROVE x \in RowsLeft(h, runs) <=> \E a \in DOMAIN h : Left(x, a)
  <2>1. x \in RowsLeft(h, runs) <=>
          \E a \in DOMAIN h : \E j \in h[a].next - 1 .. Len(runs[h[a].source]) :
            x = runs[h[a].source][j]
    BY LeftIs
  <2>2. QED
    BY <2>1, Zenon
<1>10. \A x : Left(x, min) <=> Later(x) \/ x = r
  <2>1. /\ h[min].next \in Nat /\ Len(rows) \in Nat /\ h[min].next - 1 \in 1 .. Len(rows)
        /\ r = rows[h[min].next - 1]
    BY <1>3, <1>5, Zenon
  <2>2. \A j : j \in h[min].next - 1 .. Len(rows)
                 <=> j = h[min].next - 1 \/ j \in h[min].next .. Len(rows)
    <3> DEFINE p == h[min].next
               l == Len(rows)
    <3>1. p \in Nat /\ l \in Nat /\ p - 1 \in 1 .. l
      BY <2>1
    <3> HIDE DEF p, l
    <3>2. \A j : j \in p - 1 .. l <=> j = p - 1 \/ j \in p .. l
      BY <3>1, Interval
    <3>3. QED
      BY <3>2, Zenon DEF p, l
  <2>3. QED
    BY <2>1, <2>2, Zenon
(* What a head's tape still holds is in its run and not before its head.   *)
<1>11. ASSUME NEW x, NEW a \in DOMAIN h, Left(x, a)
       PROVE  x \in Range(runs[h[a].source]) /\ x \in Rows /\ ~Before(x, h[a].row)
  <2> DEFINE p == h[a].next
             run == runs[h[a].source]
             l == Len(run)
  <2>1. PICK j \in p - 1 .. l : x = run[j]
    BY <1>11
  <2>2. /\ p \in Nat /\ run \in Seq(Rows) /\ l \in Nat /\ DOMAIN run = 1 .. l
        /\ p - 1 \in 1 .. l /\ h[a].row = run[p - 1] /\ Ordered(run) /\ h[a].row \in Rows
    BY <1>5, <1>8, Zenon
  <2> HIDE DEF p, l
  <2>3. j \in 1 .. l /\ (j = p - 1 \/ p - 1 < j)
    BY <2>2, Interval, Zenon
  <2> HIDE DEF run
  <2>4. x \in Rows /\ x \in Range(run)
    BY <2>1, <2>2, <2>3, ElementOfSeq, Zenon DEF Range, l
  <2>5. ASSUME j = p - 1  PROVE ~Before(x, h[a].row)
    <3>1. x = h[a].row
      BY <2>1, <2>2, <2>5
    <3>2. QED
      BY <2>4, <3>1, CompareIsOrder, Zenon
  <2>6. ASSUME p - 1 < j  PROVE ~Before(x, h[a].row)
    <3>1. j \in DOMAIN run /\ p - 1 \in DOMAIN run
      BY <2>2, <2>3
    <3>2. QED
      BY <2>1, <2>2, <2>6, <3>1, Zenon DEF Ordered
  <2>7. QED
    BY <2>3, <2>4, <2>5, <2>6 DEF run
<1> HIDE DEF Left
<1>12. r \notin RowsLeft(g, runs) /\ r \in Rows /\ r \in RowsLeft(h, runs)
  <2>1. r \in Rows /\ r \in RowsLeft(h, runs)
    BY <1>3, <1>5, <1>9, <1>10
  <2>2. ~\E a \in DOMAIN h \ {min} : Left(r, a)
    <3> SUFFICES ASSUME NEW a \in DOMAIN h \ {min}, Left(r, a)  PROVE FALSE
      OBVIOUS
    <3>1. r \in Range(runs[h[a].source])
      BY <1>11
    <3>2. r \in Range(runs[h[min].source])
      BY <1>3, <1>10, <1>11, Zenon
    <3>3. h[a].source # h[min].source
      BY <1>3, <1>7
    <3>4. QED
      BY <1>3, <1>5, <1>8, <3>1, <3>2, <3>3
  <2>3. /\ h[min].next - 1 \in 1 .. Len(rows) /\ r = rows[h[min].next - 1]
        /\ IsInjective(rows) /\ DOMAIN rows = 1 .. Len(rows)
        /\ Len(rows) \in Nat /\ h[min].next \in Nat
    BY <1>3, <1>5, <1>8, Zenon
  <2>4. \A j \in h[min].next .. Len(rows) : j \in 1 .. Len(rows) /\ j # h[min].next - 1
    <3> DEFINE p == h[min].next
               l == Len(rows)
    <3>1. p \in Nat /\ l \in Nat /\ p - 1 \in 1 .. l
      BY <2>3
    <3> HIDE DEF p, l
    <3>2. \A j \in p .. l : j \in 1 .. l /\ j # p - 1
      BY <3>1, Interval
    <3>3. QED
      BY <3>2, Zenon DEF p, l
  <2>5. ~Later(r)
    BY <2>3, <2>4, Zenon DEF IsInjective
  <2> HIDE DEF Later
  <2>6. QED
    BY <1>4, <2>1, <2>2, <2>5
<1> HIDE DEF Later
<1>13. \A x : x \in RowsLeft(h, runs) <=> x \in RowsLeft(g, runs) \/ x = r
  BY <1>3, <1>4, <1>9, <1>10
<1>14. RowsLeft(h, runs) = RowsLeft(g, runs) \cup {r}
  BY <1>13
<1>15. \A x \in RowsLeft(h, runs) : x \in Rows /\ ~Before(x, r)
  <2> SUFFICES ASSUME NEW x \in RowsLeft(h, runs)  PROVE x \in Rows /\ ~Before(x, r)
    OBVIOUS
  <2>1. PICK a \in DOMAIN h : Left(x, a)
    BY <1>9
  <2>2. x \in Rows /\ ~Before(x, h[a].row)
    BY <1>11, <2>1
  <2>3. ~Before(h[a].row, r) /\ h[a].row \in Rows
    BY <1>3, <1>5
  <2>4. QED
    BY <1>12, <2>2, <2>3, CompareIsOrder
<1> HIDE DEF r
<1>16. /\ IsRun(got) /\ Range(put) = Range(got) \cup RowsLeft(h, runs)
       /\ Range(got) \cap RowsLeft(h, runs) = {}
       /\ \A e \in Range(got), x \in RowsLeft(h, runs) : ~Before(x, e)
       /\ end => h = <<>>
  BY <1>1 DEF Merging
<1>17. got \in Seq(Rows) /\ Range(Append(got, r)) = Range(got) \cup {r}
  BY <1>12, <1>16, RangeOfAppend DEF IsRun
<1>18. IsRun(Append(got, r))
  <2>1. /\ Append(got, r) \in Seq(Rows) /\ Len(Append(got, r)) = Len(got) + 1
        /\ \A i \in 1 .. Len(got) : Append(got, r)[i] = got[i]
        /\ Append(got, r)[Len(got) + 1] = r
    BY <1>12, <1>17, AppendProperties
  <2>2. /\ Len(got) \in Nat /\ DOMAIN got = 1 .. Len(got)
        /\ DOMAIN Append(got, r) = 1 .. Len(got) + 1
    BY <1>17, <2>1, LenProperties
  <2>3. r \notin Range(got)
    BY <1>12, <1>16
  <2>4. IsInjective(Append(got, r))
    BY <1>12, <1>16, <1>17, <2>3, InjectiveAppend, ZenonT(30) DEF IsRun
  <2>5. ASSUME NEW i \in DOMAIN Append(got, r), NEW j \in DOMAIN Append(got, r), i < j
        PROVE  ~Before(Append(got, r)[j], Append(got, r)[i])
    <3>1. i \in 1 .. Len(got) /\ (j \in 1 .. Len(got) \/ j = Len(got) + 1)
      BY <2>2, <2>5
    <3>2. CASE j \in 1 .. Len(got)
      BY <1>16, <2>1, <2>2, <2>5, <3>1, <3>2, ZenonT(30) DEF IsRun, Ordered
    <3>3. CASE j = Len(got) + 1
      <4>1. got[i] \in Range(got)
        BY <2>2, <3>1 DEF Range
      <4>2. QED
        BY <1>12, <1>16, <2>1, <3>1, <3>3, <4>1
    <3>4. QED
      BY <3>1, <3>2, <3>3
  <2>6. QED
    BY <2>1, <2>4, <2>5 DEF IsRun, Ordered
<1>19. Merging(g, runs, put, Append(got, r), end)
  <2>1. \A e \in Range(got) \cup {r}, x \in RowsLeft(g, runs) : ~Before(x, e)
    BY <1>14, <1>15, <1>16
  <2>2. end => g = <<>>
    BY <1>16
  <2>3. (Range(got) \cup {r}) \cap RowsLeft(g, runs) = {}
    BY <1>12, <1>14, <1>16
  <2>4. Range(put) = (Range(got) \cup {r}) \cup RowsLeft(g, runs)
    BY <1>14, <1>16
  <2>5. QED
    BY <1>4, <1>17, <1>18, <2>1, <2>2, <2>3, <2>4, Zenon DEF Merging
<1>20. QED
  BY <1>1, <1>19 DEF Sound, r, g, min

-----------------------------------------------------------------------------
(***************************************************************************)
(* Sorters and the files they share                                        *)
(***************************************************************************)
LEMMA RunsTyped ==
  ASSUME SortTypes, NEW s \in Sorters
  PROVE  /\ tapes[s] \in Seq([path : Paths, file : Files])
         /\ Len(tapes[s]) \in Nat /\ DOMAIN tapes[s] = 1 .. Len(tapes[s])
         /\ \A i \in DOMAIN tapes[s] : tapes[s][i].file \in Files
         /\ Runs(s) \in Seq(Seq(Rows)) /\ Len(Runs(s)) = Len(tapes[s])
         /\ Runs(s) = <<>> <=> tapes[s] = <<>>
<1>1. tapes[s] \in Seq([path : Paths, file : Files]) /\ data \in [Files -> Seq(Rows)]
  BY Zenon DEF SortTypes
<1>2. Len(tapes[s]) \in Nat /\ DOMAIN tapes[s] = 1 .. Len(tapes[s])
  BY <1>1, LenProperties
<1>3. \A i \in DOMAIN tapes[s] : tapes[s][i].file \in Files
  <2>1. \A i \in DOMAIN tapes[s] : tapes[s][i] \in [path : Paths, file : Files]
    BY <1>1, <1>2, ElementOfSeq, Zenon
  <2>2. QED
    BY <2>1
<1>4. Runs(s) \in [1 .. Len(tapes[s]) -> Seq(Rows)]
  BY <1>1, <1>2, <1>3 DEF Runs
<1>5. Runs(s) \in Seq(Seq(Rows)) /\ Len(Runs(s)) = Len(tapes[s])
  BY <1>2, <1>4, FcnIsSeq
<1>6. Runs(s) = <<>> <=> tapes[s] = <<>>
  BY <1>1, <1>5, EmptySeq
<1>7. QED
  BY <1>1, <1>2, <1>3, <1>5, <1>6

(* A new run goes to one file, whatever the directory holds.               *)
LEMMA WriteRunIs ==
  ASSUME SortTypes, NEW s \in Sorters, NEW run \in Seq(Rows), Len(tapes[s]) < MaxRuns,
         WriteRun(s, run)
  PROVE  \E file \in Files :
           /\ tapes' = [tapes EXCEPT ![s] =
                          Append(@, [path |-> Len(tapes[s]), file |-> file])]
           /\ dir' = [dir EXCEPT ![Len(tapes[s])] = file]
           /\ data' = [data EXCEPT ![file] = run]
           /\ disturbed' = disturbed \cup {t \in Sorters : file \in OpenFiles(t)}
<1> DEFINE path == Len(tapes[s])
           free == Files \ ({dir[p] : p \in Paths} \cup UNION {OpenFiles(t) : t \in Sorters})
           file == IF dir[path] # NoFile THEN dir[path] ELSE CHOOSE f \in free : TRUE
<1>1. path \in Paths
  <2>1. path \in Nat /\ MaxRuns \in Nat
    BY RunsTyped, SortAssumption
  <2>2. QED
    BY <2>1 DEF Paths
<1>2. /\ dir[path] # NoFile \/ free # {}
      /\ tapes' = [tapes EXCEPT ![s] = Append(@, [path |-> path, file |-> file])]
      /\ dir' = [dir EXCEPT ![path] = file]
      /\ data' = [data EXCEPT ![file] = run]
      /\ disturbed' = disturbed \cup {t \in Sorters : file \in OpenFiles(t)}
  BY Zenon DEF WriteRun
<1>3. dir[path] \in Files \cup {NoFile}
  BY <1>1 DEF SortTypes
<1>4. free \subseteq Files
  OBVIOUS
<1> HIDE DEF free, path
<1>5. free # {} => (CHOOSE f \in free : TRUE) \in free
  BY Zenon
<1>6. file \in Files
  BY <1>2, <1>3, <1>4, <1>5
<1> HIDE DEF file
<1>7. QED
  BY <1>2, <1>6, Zenon DEF path

LEMMA AfterWriteRun ==
  ASSUME SortTypes, NEW s \in Sorters, NEW run \in Seq(Rows), Len(tapes[s]) < MaxRuns,
         WriteRun(s, run)
  PROVE  /\ tapes' \in [Sorters -> Seq([path : Paths, file : Files])]
         /\ dir' \in [Paths -> Files \cup {NoFile}] /\ data' \in [Files -> Seq(Rows)]
         /\ disturbed' \subseteq Sorters /\ disturbed \subseteq disturbed'
         /\ Len(tapes'[s]) = Len(tapes[s]) + 1
         /\ s \notin disturbed' /\ OwnFiles(s) =>
              OwnFiles(s)' /\ Runs(s)' = Append(Runs(s), run)
         /\ \A t \in Sorters \ {s} :
              /\ tapes'[t] = tapes[t]
              /\ t \notin disturbed' =>
                   \A i \in DOMAIN tapes[t] :
                     data'[tapes[t][i].file] = data[tapes[t][i].file]
<1>1. PICK file \in Files :
           /\ tapes' = [tapes EXCEPT ![s] =
                          Append(@, [path |-> Len(tapes[s]), file |-> file])]
           /\ dir' = [dir EXCEPT ![Len(tapes[s])] = file]
           /\ data' = [data EXCEPT ![file] = run]
           /\ disturbed' = disturbed \cup {t \in Sorters : file \in OpenFiles(t)}
  BY WriteRunIs, Zenon
<1> DEFINE n == Len(tapes[s])
           tape == [path |-> n, file |-> file]
           Tape == [path : Paths, file : Files]
<1>2. /\ tapes \in [Sorters -> Seq(Tape)] /\ dir \in [Paths -> Files \cup {NoFile}]
      /\ data \in [Files -> Seq(Rows)] /\ disturbed \subseteq Sorters
  BY Zenon DEF SortTypes
<1>3. tapes[s] \in Seq(Tape) /\ n \in Nat /\ DOMAIN tapes[s] = 1 .. n
  BY RunsTyped, Zenon
<1>4. tape \in Tape
  <2>1. n \in Paths
    BY <1>3, SortAssumption DEF Paths
  <2>2. QED
    BY <2>1
<1>5. /\ Append(tapes[s], tape) \in Seq(Tape) /\ Len(Append(tapes[s], tape)) = n + 1
      /\ \A i \in 1 .. n : Append(tapes[s], tape)[i] = tapes[s][i]
      /\ Append(tapes[s], tape)[n + 1] = tape
  BY <1>3, <1>4, AppendProperties
<1>6. tapes'[s] = Append(tapes[s], tape) /\ \A t \in Sorters \ {s} : tapes'[t] = tapes[t]
  BY <1>1, <1>2
<1>7. tapes' \in [Sorters -> Seq(Tape)]
  BY <1>1, <1>2, <1>5, Zenon
<1>8. dir' \in [Paths -> Files \cup {NoFile}] /\ data' \in [Files -> Seq(Rows)]
  BY <1>1, <1>2, Zenon
<1>9. data'[file] = run /\ \A f \in Files \ {file} : data'[f] = data[f]
  BY <1>1, <1>2
<1>10. ASSUME NEW t \in Sorters, t \notin disturbed'
       PROVE  \A i \in DOMAIN tapes[t] : /\ tapes[t][i].file # file
                                         /\ data'[tapes[t][i].file] = data[tapes[t][i].file]
  <2>1. file \notin OpenFiles(t)
    BY <1>1, <1>10
  <2>2. \A i \in DOMAIN tapes[t] : tapes[t][i].file # file /\ tapes[t][i].file \in Files
    BY <2>1, RunsTyped DEF OpenFiles
  <2>3. QED
    BY <1>9, <2>2
<1>11. ASSUME s \notin disturbed', OwnFiles(s)
       PROVE  OwnFiles(s)' /\ Runs(s)' = Append(Runs(s), run)
  <2>1. DOMAIN tapes'[s] = 1 .. n + 1
    BY <1>3, <1>5, <1>6, LenProperties
  <2>2. /\ \A i \in 1 .. n : tapes'[s][i].file = tapes[s][i].file
        /\ tapes'[s][n + 1].file = file
    BY <1>5, <1>6
  <2>3. \A i \in 1 .. n + 1 : i \in 1 .. n \/ i = n + 1
    BY <1>3
  <2>4. \A i \in 1 .. n : /\ tapes[s][i].file # file
                          /\ data'[tapes[s][i].file] = data[tapes[s][i].file]
    BY <1>3, <1>10, <1>11
  <2>5. \A i, j \in 1 .. n : i # j => tapes[s][i].file # tapes[s][j].file
    BY <1>3, <1>11 DEF OwnFiles
  <2>6. \A i, j \in DOMAIN tapes'[s] : i # j => tapes'[s][i].file # tapes'[s][j].file
    <3> SUFFICES ASSUME NEW i \in 1 .. n + 1, NEW j \in 1 .. n + 1, i # j
                 PROVE  tapes'[s][i].file # tapes'[s][j].file
      BY <2>1
    <3>1. CASE i \in 1 .. n /\ j \in 1 .. n
      BY <2>2, <2>5, <3>1
    <3>2. CASE i = n + 1 /\ j \in 1 .. n
      BY <2>2, <2>4, <3>2
    <3>3. CASE i \in 1 .. n /\ j = n + 1
      BY <2>2, <2>4, <3>3
    <3>4. QED
      BY <2>3, <3>1, <3>2, <3>3
  <2>7. Runs(s)' = [i \in 1 .. n + 1 |-> data'[tapes'[s][i].file]]
    BY <2>1 DEF Runs
  <2>8. /\ Runs(s) \in Seq(Seq(Rows)) /\ Len(Runs(s)) = n
        /\ \A i \in 1 .. n : Runs(s)[i] = data[tapes[s][i].file]
    BY <1>3, RunsTyped, Zenon DEF Runs
  <2>9. /\ Append(Runs(s), run) \in Seq(Seq(Rows)) /\ Len(Append(Runs(s), run)) = n + 1
        /\ \A i \in 1 .. n : Append(Runs(s), run)[i] = Runs(s)[i]
        /\ Append(Runs(s), run)[n + 1] = run
    BY <2>8, AppendProperties
  <2>10. \A i \in 1 .. n + 1 : data'[tapes'[s][i].file] = Append(Runs(s), run)[i]
    <3> SUFFICES ASSUME NEW i \in 1 .. n + 1
                 PROVE  data'[tapes'[s][i].file] = Append(Runs(s), run)[i]
      BY Zenon
    <3>1. CASE i \in 1 .. n
      BY <2>2, <2>4, <2>8, <2>9, <3>1, ZenonT(30)
    <3>2. CASE i = n + 1
      BY <1>9, <2>2, <2>9, <3>2
    <3>3. QED
      BY <2>3, <3>1, <3>2, Zenon
  <2>11. Append(Runs(s), run) = [i \in 1 .. n + 1 |-> Append(Runs(s), run)[i]]
    BY <2>9, LenProperties, Zenon
  <2>12. QED
    BY <2>6, <2>7, <2>10, <2>11, ZenonT(30) DEF OwnFiles
<1>12. disturbed' \subseteq Sorters /\ disturbed \subseteq disturbed'
  BY <1>1, <1>2
<1>13. Len(tapes'[s]) = Len(tapes[s]) + 1
  BY <1>5, <1>6
<1>14. ASSUME NEW t \in Sorters \ {s}
       PROVE  /\ tapes'[t] = tapes[t]
              /\ t \notin disturbed' =>
                   \A i \in DOMAIN tapes[t] :
                     data'[tapes[t][i].file] = data[tapes[t][i].file]
  BY <1>6, <1>10, ZenonT(30)
<1>15. QED
  BY <1>7, <1>8, <1>11, <1>12, <1>13, <1>14, Zenon

-----------------------------------------------------------------------------
(***************************************************************************)
(* The invariant                                                           *)
(***************************************************************************)

(* A sorter whose memory, tapes and files a step leaves alone is as sound  *)
(* as before.                                                              *)
LEMMA SoundAfter ==
  ASSUME order' = order, NEW m, NEW done, NEW h, NEW runs, NEW put, NEW got, NEW end,
         Sound(m, done, h, runs, put, got, end)
  PROVE  Sound(m, done, h, runs, put, got, end)'
<1>1. \A a, b : Before(a, b)' <=> Before(a, b)
  BY DEF Before
<1>2. \A rows : Ordered(rows)' <=> Ordered(rows)
  BY <1>1 DEF Ordered
<1>3. \A rows : IsRun(rows)' <=> IsRun(rows)
  BY <1>2 DEF IsRun
<1>4. SortedRuns(runs)' <=> SortedRuns(runs)
  BY <1>3 DEF SortedRuns
<1>5. FromMemory(m, put, got, end)' <=> FromMemory(m, put, got, end)
  BY <1>3 DEF FromMemory
<1>6. Merging(h, runs, put, got, end)' <=> Merging(h, runs, put, got, end)
  BY <1>1, <1>3 DEF Merging
<1>7. QED
  BY <1>4, <1>5, <1>6 DEF Sound

LEMMA SoundStays ==
  ASSUME SortTypes, NEW t \in Sorters, OwnFiles(t),
         Sound(mem[t], sorted[t], heap[t], Runs(t), input[t], output[t], ended[t]),
         order' = order, mem'[t] = mem[t], sorted'[t] = sorted[t], heap'[t] = heap[t],
         tapes'[t] = tapes[t], input'[t] = input[t], output'[t] = output[t],
         ended'[t] = ended[t],
         \A i \in DOMAIN tapes[t] : data'[tapes[t][i].file] = data[tapes[t][i].file]
  PROVE  /\ OwnFiles(t)'
         /\ Sound(mem'[t], sorted'[t], heap'[t], Runs(t)', input'[t], output'[t], ended'[t])
<1>1. Runs(t)' = Runs(t)
  BY ZenonT(30) DEF Runs
<1>2. OwnFiles(t)'
  BY DEF OwnFiles
<1>3. QED
  BY <1>1, <1>2, ZenonT(30)

(* What a step of one sorter has to keep.                                  *)
LEMMA StepKeeps ==
  ASSUME SortInv, NEW s \in Sorters, SortTypes', order' = order,
         \A t \in Sorters \ {s} :
           /\ mem'[t] = mem[t] /\ sorted'[t] = sorted[t] /\ heap'[t] = heap[t]
           /\ tapes'[t] = tapes[t] /\ input'[t] = input[t] /\ output'[t] = output[t]
           /\ ended'[t] = ended[t]
           /\ t \notin disturbed' =>
                /\ t \notin disturbed
                /\ \A i \in DOMAIN tapes[t] :
                     data'[tapes[t][i].file] = data[tapes[t][i].file],
         FewRuns(s)',
         s \notin disturbed' =>
           /\ OwnFiles(s)'
           /\ Sound(mem'[s], sorted'[s], heap'[s], Runs(s)', input'[s], output'[s], ended'[s])
  PROVE  SortInv'
<1>1. ASSUME NEW t \in Sorters  PROVE FewRuns(t)'
  <2>1. CASE t = s
    BY <2>1
  <2>2. CASE t # s
    BY <2>2, ZenonT(30) DEF SortInv, FewRuns
  <2>3. QED
    BY <2>1, <2>2, ZenonT(30)
<1>2. ASSUME NEW t \in Sorters \ disturbed'
      PROVE  /\ OwnFiles(t)'
             /\ Sound(mem'[t], sorted'[t], heap'[t], Runs(t)', input'[t], output'[t], ended'[t])
  <2>1. CASE t = s
    BY <2>1
  <2>2. CASE t # s
    <3>1. /\ OwnFiles(t) /\ SortTypes
          /\ Sound(mem[t], sorted[t], heap[t], Runs(t), input[t], output[t], ended[t])
      BY <2>2, Zenon DEF SortInv
    <3>2. QED
      BY <2>2, <3>1, SoundStays, Zenon
  <2>3. QED
    BY <2>1, <2>2, ZenonT(30)
<1>3. ASSUME NEW t \in Sorters \ disturbed'
      PROVE  Sound(mem[t], sorted[t], heap[t], Runs(t), input[t], output[t], ended[t])'
  <2>1. PICK m, done, h, runs, put, got, end :
          /\ m = mem'[t] /\ done = sorted'[t] /\ h = heap'[t] /\ runs = Runs(t)'
          /\ put = input'[t] /\ got = output'[t] /\ end = ended'[t]
    BY ZenonT(30)
  <2>2. Sound(m, done, h, runs, put, got, end)
    BY <1>2, <2>1, ZenonT(30)
  <2>3. Sound(m, done, h, runs, put, got, end)'
    BY <2>2, SoundAfter
  <2>4. QED
    BY <2>1, <2>3, Zenon
<1>4. QED
  BY <1>1, <1>2, <1>3, ZenonT(30) DEF SortInv

LEMMA InvHolds ==
  ASSUME SortInv, NEW s \in Sorters
  PROVE  /\ SortTypes /\ FewRuns(s) /\ mem[s] \in Seq(Rows)
         /\ Len(mem[s]) \in Nat /\ Len(input[s]) \in Nat /\ Len(tapes[s]) \in Nat
         /\ MaxRows[s] \in Nat /\ MaxRuns \in Nat /\ MaxRows[s] <= MaxRuns
         /\ s \notin disturbed =>
              /\ OwnFiles(s)
              /\ Sound(mem[s], sorted[s], heap[s], Runs(s), input[s], output[s], ended[s])
<1>1. SortTypes /\ FewRuns(s)
  BY DEF SortInv
<1>2. /\ mem[s] \in Seq(Rows) /\ input[s] \in Seq(Rows)
      /\ tapes[s] \in Seq([path : Paths, file : Files])
  BY <1>1, Zenon DEF SortTypes
<1>3. Len(mem[s]) \in Nat /\ Len(input[s]) \in Nat /\ Len(tapes[s]) \in Nat
  BY <1>2, LenProperties
<1>4. MaxRows[s] \in Nat /\ MaxRuns \in Nat /\ MaxRows[s] <= MaxRuns
  BY SortAssumption, SMTT(20)
<1>5. s \notin disturbed =>
        /\ OwnFiles(s)
        /\ Sound(mem[s], sorted[s], heap[s], Runs(s), input[s], output[s], ended[s])
  BY DEF SortInv
<1>6. QED
  BY <1>1, <1>2, <1>3, <1>4, <1>5, Zenon

LEMMA PutTupleKeeps ==
  ASSUME SortInv, NEW s \in Sorters, NEW k \in SortKeys[s], PutTuple(s, k)
  PROVE  SortInv'
<1>t. SortTypes
  BY Zenon DEF SortInv
<1> DEFINE row == [k |-> k, id |-> Len(input[s]) + 1, of |-> s]
           rows == Append(mem[s], row)
<1>1. /\ ~sorted[s] /\ Len(input[s]) < MaxRows[s]
      /\ input' = [input EXCEPT ![s] = Append(@, row)]
      /\ IF Len(rows) > WorkMem
           THEN /\ \E run \in SortInMemory(rows) : WriteRun(s, run)
                /\ mem' = [mem EXCEPT ![s] = <<>>]
           ELSE /\ mem' = [mem EXCEPT ![s] = rows]
                /\ UNCHANGED <<tapes, dir, data, disturbed>>
      /\ UNCHANGED <<order, sorted, heap, rescans, output, ended>>
  BY Zenon DEF PutTuple
<1>2. row \in Rows /\ row.id = Len(input[s]) + 1
  <2>1. k \in Nat /\ Len(input[s]) + 1 \in Nat
    BY <1>t, InvHolds, SortAssumption, SMTT(20)
  <2>2. QED
    BY <2>1, SMTT(20) DEF Rows
<1> HIDE DEF row
<1>3. mem[s] \in Seq(Rows) /\ input[s] \in Seq(Rows)
  BY <1>t, ZenonT(30) DEF SortTypes
<1>4. /\ rows \in Seq(Rows) /\ Len(rows) = Len(mem[s]) + 1
      /\ Append(input[s], row) \in Seq(Rows) /\ Len(Append(input[s], row)) = Len(input[s]) + 1
  BY <1>2, <1>3, AppendProperties, SMTT(20)
<1>5. /\ input' \in [Sorters -> Seq(Rows)] /\ input'[s] = Append(input[s], row)
      /\ \A t \in Sorters \ {s} : input'[t] = input[t]
  BY <1>1, <1>4, <1>t DEF SortTypes
<1>6. Len(tapes[s]) + Len(mem[s]) <= Len(input[s])
  BY <1>1, InvHolds, ZenonT(30) DEF FewRuns
<1>0. /\ Len(mem[s]) \in Nat /\ Len(input[s]) \in Nat /\ Len(tapes[s]) \in Nat
      /\ MaxRows[s] \in Nat /\ MaxRuns \in Nat /\ MaxRows[s] <= MaxRuns
      /\ Len(input[s]) < MaxRows[s]
  BY <1>1, InvHolds
<1>20. /\ Len(tapes[s]) < MaxRuns /\ Len(input[s]) + 1 <= MaxRows[s]
       /\ (Len(tapes[s]) + 1) + 0 <= Len(input[s]) + 1
       /\ Len(tapes[s]) + (Len(mem[s]) + 1) <= Len(input[s]) + 1
  <2> DEFINE m == Len(mem[s])
             n == Len(input[s])
             t == Len(tapes[s])
             most == MaxRows[s]
  <2>1. /\ m \in Nat /\ n \in Nat /\ t \in Nat /\ most \in Nat /\ MaxRuns \in Nat
        /\ most <= MaxRuns /\ n < most /\ t + m <= n
    BY <1>0, <1>6, Zenon
  <2> HIDE DEF m, n, t, most
  <2>2. /\ t < MaxRuns /\ n + 1 <= most /\ (t + 1) + 0 <= n + 1 /\ t + (m + 1) <= n + 1
    BY <2>1
  <2>3. QED
    BY <2>2, Zenon DEF m, n, t, most
<1>7. ASSUME s \notin disturbed
      PROVE  /\ OwnFiles(s)
             /\ Sound(rows, FALSE, heap[s], Runs(s), input'[s], output[s], ended[s])
  <2>1. /\ OwnFiles(s)
        /\ Sound(mem[s], FALSE, heap[s], Runs(s), input[s], output[s], ended[s])
    <3>1. sorted[s] = FALSE
      BY <1>1, <1>t, ZenonT(30) DEF SortTypes
    <3>2. QED
      BY <1>7, <3>1, InvHolds, Zenon
  <2>2. QED
    BY <1>2, <1>3, <1>5, <2>1, SoundPut, ZenonT(30)
<1>8. sorted'[s] = FALSE
  BY <1>1, <1>t DEF SortTypes
<1>9. CASE Len(rows) > WorkMem
  <2>1. PICK run \in SortInMemory(rows) : WriteRun(s, run)
    BY <1>1, <1>9
  <2>2. /\ mem' \in [Sorters -> Seq(Rows)] /\ mem'[s] = <<>>
        /\ \A t \in Sorters \ {s} : mem'[t] = mem[t]
    <3>1. mem' = [mem EXCEPT ![s] = <<>>] /\ <<>> \in Seq(Rows)
      BY <1>1, <1>9, EmptySeq
    <3>2. QED
      BY <3>1, <1>t, ZenonT(30) DEF SortTypes
  <2>3. run \in Seq(Rows)
    BY <1>4, ArrangedRows, Zenon
  <2>4. Len(tapes[s]) < MaxRuns
    BY <1>20
  <2>5. /\ tapes' \in [Sorters -> Seq([path : Paths, file : Files])]
        /\ dir' \in [Paths -> Files \cup {NoFile}] /\ data' \in [Files -> Seq(Rows)]
        /\ disturbed' \subseteq Sorters /\ disturbed \subseteq disturbed'
        /\ Len(tapes'[s]) = Len(tapes[s]) + 1
        /\ s \notin disturbed' /\ OwnFiles(s) =>
             OwnFiles(s)' /\ Runs(s)' = Append(Runs(s), run)
        /\ \A t \in Sorters \ {s} :
             /\ tapes'[t] = tapes[t]
             /\ t \notin disturbed' =>
                  \A i \in DOMAIN tapes[t] :
                    data'[tapes[t][i].file] = data[tapes[t][i].file]
    BY <2>1, <2>3, <2>4, AfterWriteRun, <1>t, Zenon
  <2>6. SortTypes'
    BY <1>1, <1>5, <2>2, <2>5, <1>t, Zenon DEF SortTypes
  <2>7. FewRuns(s)'
    <3>1. Len(mem'[s]) = 0
      BY <2>2, EmptySeq
    <3>2. QED
      <4>1. Len(input'[s]) = Len(input[s]) + 1 /\ Len(tapes'[s]) = Len(tapes[s]) + 1
        BY <1>4, <1>5, <2>5
      <4>2. Len(input'[s]) <= MaxRows[s] /\ Len(tapes'[s]) + Len(mem'[s]) <= Len(input'[s])
        BY <1>20, <3>1, <4>1, Zenon
      <4>3. QED
        BY <4>2, Zenon DEF FewRuns
  <2>8. ASSUME s \notin disturbed'
        PROVE  /\ OwnFiles(s)'
               /\ Sound(mem'[s], sorted'[s], heap'[s], Runs(s)', input'[s], output'[s], ended'[s])
    <3>1. s \notin disturbed
      BY <2>5, <2>8, SMTT(20)
    <3>2. OwnFiles(s)' /\ Runs(s)' = Append(Runs(s), run)
      BY <1>7, <2>5, <2>8, <3>1, Zenon
    <3>3. Runs(s) \in Seq(Seq(Rows)) /\ rows # <<>>
      <4>1. Runs(s) \in Seq(Seq(Rows))
        BY <1>t, RunsTyped
      <4>2. Len(rows) # 0
        BY <1>4, InvHolds
      <4>3. QED
        BY <4>1, <4>2, EmptySeq, Zenon
    <3>4. Sound(<<>>, FALSE, heap[s], Append(Runs(s), run), input'[s], output[s], ended[s])
      BY <1>4, <1>7, <3>1, <3>3, SoundDump, Zenon
    <3>5. QED
      BY <1>1, <1>8, <2>2, <3>2, <3>4, ZenonT(30)
  <2>9. \A t \in Sorters \ {s} :
          /\ mem'[t] = mem[t] /\ sorted'[t] = sorted[t] /\ heap'[t] = heap[t]
          /\ tapes'[t] = tapes[t] /\ input'[t] = input[t] /\ output'[t] = output[t]
          /\ ended'[t] = ended[t]
          /\ t \notin disturbed' =>
               /\ t \notin disturbed
               /\ \A i \in DOMAIN tapes[t] :
                    data'[tapes[t][i].file] = data[tapes[t][i].file]
    BY <1>1, <1>5, <2>2, <2>5, Zenon
  <2>10. QED
    BY <1>1, <2>6, <2>7, <2>8, <2>9, StepKeeps, ZenonT(30)
<1>10. CASE ~(Len(rows) > WorkMem)
  <2>1. mem' = [mem EXCEPT ![s] = rows] /\ UNCHANGED <<tapes, dir, data, disturbed>>
    BY <1>1, <1>10
  <2>2. /\ mem' \in [Sorters -> Seq(Rows)] /\ mem'[s] = rows
        /\ \A t \in Sorters \ {s} : mem'[t] = mem[t]
    BY <1>4, <2>1, <1>t DEF SortTypes
  <2>3. SortTypes'
    BY <1>1, <1>5, <2>1, <2>2, <1>t, Zenon DEF SortTypes
  <2>4. FewRuns(s)'
    <3>1. /\ Len(input'[s]) = Len(input[s]) + 1 /\ Len(tapes'[s]) = Len(tapes[s])
          /\ Len(mem'[s]) = Len(mem[s]) + 1
      BY <1>4, <1>5, <2>1, <2>2
    <3>2. Len(input'[s]) <= MaxRows[s] /\ Len(tapes'[s]) + Len(mem'[s]) <= Len(input'[s])
      BY <1>20, <3>1, Zenon
    <3>3. QED
      BY <3>2, Zenon DEF FewRuns
  <2>5. ASSUME s \notin disturbed'
        PROVE  /\ OwnFiles(s)'
               /\ Sound(mem'[s], sorted'[s], heap'[s], Runs(s)', input'[s], output'[s], ended'[s])
    <3>1. Runs(s)' = Runs(s) /\ (OwnFiles(s) => OwnFiles(s)')
      BY <2>1 DEF Runs, OwnFiles
    <3>2. s \notin disturbed
      BY <2>1, <2>5, ZenonT(30)
    <3>3. QED
      BY <1>1, <1>7, <1>8, <2>2, <3>1, <3>2, Zenon
  <2>6. \A t \in Sorters \ {s} :
          /\ mem'[t] = mem[t] /\ sorted'[t] = sorted[t] /\ heap'[t] = heap[t]
          /\ tapes'[t] = tapes[t] /\ input'[t] = input[t] /\ output'[t] = output[t]
          /\ ended'[t] = ended[t]
          /\ t \notin disturbed' =>
               /\ t \notin disturbed
               /\ \A i \in DOMAIN tapes[t] :
                    data'[tapes[t][i].file] = data[tapes[t][i].file]
    BY <1>1, <1>5, <2>1, <2>2
  <2>7. QED
    BY <1>1, <2>3, <2>4, <2>5, <2>6, StepKeeps, ZenonT(30)
<1>11. QED
  BY <1>9, <1>10, SMTT(20)

LEMMA PerformSortKeeps ==
  ASSUME SortInv, NEW s \in Sorters, PerformSort(s)
  PROVE  SortInv'
<1>t. SortTypes
  BY DEF SortInv
<1>1. /\ ~sorted[s] /\ sorted' = [sorted EXCEPT ![s] = TRUE]
      /\ UNCHANGED <<order, rescans, input, output, ended>>
  BY DEF PerformSort
<1>2. PICK rows \in SortInMemory(mem[s]) :
        IF tapes[s] = <<>>
          THEN /\ mem' = [mem EXCEPT ![s] = rows]
               /\ UNCHANGED <<tapes, dir, data, disturbed, heap>>
          ELSE /\ IF rows = <<>> THEN UNCHANGED <<tapes, dir, data, disturbed>>
                                 ELSE WriteRun(s, rows)
               /\ mem' = [mem EXCEPT ![s] = <<>>]
               /\ BeginMerge(s)
  BY ZenonT(30) DEF PerformSort
<1>3. /\ sorted' \in [Sorters -> BOOLEAN] /\ sorted[s] = FALSE /\ sorted'[s] = TRUE
      /\ \A t \in Sorters \ {s} : sorted'[t] = sorted[t]
  BY <1>1, <1>t, SMTT(20) DEF SortTypes
<1>4. mem[s] \in Seq(Rows) /\ rows \in Seq(Rows) /\ Len(rows) = Len(mem[s])
  BY <1>t, ArrangedRows, Zenon DEF SortTypes
<1>5. /\ Len(mem[s]) \in Nat /\ Len(input[s]) \in Nat /\ Len(tapes[s]) \in Nat
      /\ MaxRows[s] \in Nat /\ MaxRuns \in Nat /\ MaxRows[s] <= MaxRuns
      /\ Len(input[s]) <= MaxRows[s] /\ Len(tapes[s]) + Len(mem[s]) <= Len(input[s])
  BY <1>3, InvHolds, Zenon DEF FewRuns
<1>6. FewRuns(s)'
  <2>1. input' = input
    BY <1>1
  <2>2. QED
    BY <1>3, <1>5, <2>1 DEF FewRuns
<1>7. ASSUME s \notin disturbed
      PROVE  /\ OwnFiles(s)
             /\ Sound(mem[s], FALSE, heap[s], Runs(s), input[s], output[s], ended[s])
  BY <1>3, <1>7, InvHolds, Zenon
<1>8. CASE tapes[s] = <<>>
  <2>1. mem' = [mem EXCEPT ![s] = rows] /\ UNCHANGED <<tapes, dir, data, disturbed, heap>>
    BY <1>2, <1>8, ZenonT(30)
  <2>2. /\ mem' \in [Sorters -> Seq(Rows)] /\ mem'[s] = rows
        /\ \A t \in Sorters \ {s} : mem'[t] = mem[t]
    BY <1>4, <2>1, <1>t DEF SortTypes
  <2>3. SortTypes'
    BY <1>1, <1>3, <2>1, <2>2, <1>t, Zenon DEF SortTypes
  <2>4. ASSUME s \notin disturbed'
        PROVE  /\ OwnFiles(s)'
               /\ Sound(mem'[s], sorted'[s], heap'[s], Runs(s)', input'[s], output'[s], ended'[s])
    <3>1. Runs(s)' = Runs(s) /\ (OwnFiles(s) => OwnFiles(s)')
      BY <2>1, ZenonT(30) DEF Runs, OwnFiles
    <3>2. OwnFiles(s) /\ Sound(mem[s], FALSE, heap[s], Runs(s), input[s], output[s], ended[s])
      BY <1>7, <2>1, <2>4, Zenon
    <3>3. Runs(s) = <<>>
      BY <1>8, <1>t, RunsTyped
    <3>4. Sound(rows, TRUE, heap[s], Runs(s), input[s], output[s], ended[s])
      BY <1>4, <3>2, <3>3, SoundInMemory, ZenonT(30)
    <3>5. QED
      BY <1>1, <1>3, <2>1, <2>2, <3>1, <3>2, <3>4, Zenon
  <2>5. \A t \in Sorters \ {s} :
          /\ mem'[t] = mem[t] /\ sorted'[t] = sorted[t] /\ heap'[t] = heap[t]
          /\ tapes'[t] = tapes[t] /\ input'[t] = input[t] /\ output'[t] = output[t]
          /\ ended'[t] = ended[t]
          /\ t \notin disturbed' =>
               /\ t \notin disturbed
               /\ \A i \in DOMAIN tapes[t] :
                    data'[tapes[t][i].file] = data[tapes[t][i].file]
    BY <1>1, <1>3, <2>1, <2>2, ZenonT(30)
  <2>6. QED
    BY <1>1, <1>6, <2>3, <2>4, <2>5, StepKeeps, Zenon
<1>9. CASE tapes[s] # <<>>
  <2>1. /\ IF rows = <<>> THEN UNCHANGED <<tapes, dir, data, disturbed>> ELSE WriteRun(s, rows)
        /\ mem' = [mem EXCEPT ![s] = <<>>]
        /\ heap' = [heap EXCEPT ![s] = FirstHeads(Runs(s)')]
    BY <1>2, <1>9, ZenonT(30) DEF BeginMerge
  <2>2. /\ mem' \in [Sorters -> Seq(Rows)] /\ mem'[s] = <<>>
        /\ \A t \in Sorters \ {s} : mem'[t] = mem[t]
    <3>1. mem' = [mem EXCEPT ![s] = <<>>] /\ <<>> \in Seq(Rows)
      BY <2>1, EmptySeq
    <3>2. QED
      BY <3>1, <1>t DEF SortTypes
  <2>3. /\ DOMAIN heap' = Sorters /\ heap'[s] = FirstHeads(Runs(s)')
        /\ \A t \in Sorters \ {s} : heap'[t] = heap[t]
    BY <2>1, <1>t DEF SortTypes
  (* The last run, if there are rows left for one.                         *)
  <2>4. /\ tapes' \in [Sorters -> Seq([path : Paths, file : Files])]
        /\ dir' \in [Paths -> Files \cup {NoFile}] /\ data' \in [Files -> Seq(Rows)]
        /\ disturbed' \subseteq Sorters /\ disturbed \subseteq disturbed'
        /\ \A t \in Sorters \ {s} :
             /\ tapes'[t] = tapes[t]
             /\ t \notin disturbed' =>
                  \A i \in DOMAIN tapes[t] :
                    data'[tapes[t][i].file] = data[tapes[t][i].file]
        /\ s \notin disturbed' =>
             /\ OwnFiles(s)' /\ Runs(s)' # <<>> /\ Runs(s)' \in Seq(Seq(Rows))
             /\ Sound(<<>>, FALSE, heap[s], Runs(s)', input[s], output[s], ended[s])
    <3>1. Runs(s) \in Seq(Seq(Rows)) /\ Runs(s) # <<>>
      BY <1>9, <1>t, RunsTyped
    <3>2. CASE rows = <<>>
      <4>1. UNCHANGED <<tapes, dir, data, disturbed>>
        BY <2>1, <3>2, ZenonT(30)
      <4>2. Runs(s)' = Runs(s) /\ (OwnFiles(s) => OwnFiles(s)')
        BY <4>1 DEF Runs, OwnFiles
      <4>3. mem[s] = <<>>
        BY <1>4, <3>2, EmptySeq
      <4>4. s \notin disturbed' =>
              /\ OwnFiles(s)' /\ Runs(s)' # <<>> /\ Runs(s)' \in Seq(Seq(Rows))
              /\ Sound(<<>>, FALSE, heap[s], Runs(s)', input[s], output[s], ended[s])
        BY <1>7, <3>1, <4>1, <4>2, <4>3, Zenon
      <4>5. QED
        BY <4>1, <4>4, <1>t, Zenon DEF SortTypes
    <3>3. CASE rows # <<>>
      <4>1. WriteRun(s, rows)
        BY <2>1, <3>3
      <4>2. Len(rows) # 0
        BY <1>4, <3>3, EmptySeq
      <4>3. Len(tapes[s]) < MaxRuns
        <5> DEFINE m == Len(mem[s])
                   n == Len(input[s])
                   t == Len(tapes[s])
                   most == MaxRows[s]
        <5>1. /\ m \in Nat /\ n \in Nat /\ t \in Nat /\ most \in Nat /\ MaxRuns \in Nat
              /\ most <= MaxRuns /\ n <= most /\ t + m <= n /\ m # 0
          BY <1>4, <1>5, <4>2, Zenon
        <5> HIDE DEF m, n, t, most
        <5>2. t < MaxRuns
          BY <5>1
        <5>3. QED
          BY <5>2 DEF t
      <4>4. /\ tapes' \in [Sorters -> Seq([path : Paths, file : Files])]
            /\ dir' \in [Paths -> Files \cup {NoFile}] /\ data' \in [Files -> Seq(Rows)]
            /\ disturbed' \subseteq Sorters /\ disturbed \subseteq disturbed'
            /\ s \notin disturbed' /\ OwnFiles(s) =>
                 OwnFiles(s)' /\ Runs(s)' = Append(Runs(s), rows)
            /\ \A t \in Sorters \ {s} :
                 /\ tapes'[t] = tapes[t]
                 /\ t \notin disturbed' =>
                      \A i \in DOMAIN tapes[t] :
                        data'[tapes[t][i].file] = data[tapes[t][i].file]
        BY <1>4, <4>1, <4>3, AfterWriteRun, <1>t, Zenon
      <4>5. ASSUME s \notin disturbed'
            PROVE  /\ OwnFiles(s)' /\ Runs(s)' # <<>> /\ Runs(s)' \in Seq(Seq(Rows))
                   /\ Sound(<<>>, FALSE, heap[s], Runs(s)', input[s], output[s], ended[s])
        <5>1. s \notin disturbed
          BY <4>4, <4>5
        <5>2. OwnFiles(s)' /\ Runs(s)' = Append(Runs(s), rows)
          BY <1>7, <4>4, <4>5, <5>1, Zenon
        <5>3. mem[s] # <<>>
          BY <1>4, <4>2, EmptySeq
        <5>4. Sound(<<>>, FALSE, heap[s], Append(Runs(s), rows), input[s], output[s], ended[s])
          BY <1>4, <1>7, <3>1, <5>1, <5>3, SoundDump, Zenon
        <5>5. Append(Runs(s), rows) \in Seq(Seq(Rows)) /\ Append(Runs(s), rows) # <<>>
          BY <1>4, <3>1, AppendProperties
        <5>6. QED
          BY <5>2, <5>4, <5>5, ZenonT(30)
      <4>6. QED
        BY <4>4, <4>5, Zenon
    <3>4. QED
      BY <3>2, <3>3, Zenon
  <2>5. SortTypes'
    BY <1>1, <1>3, <2>2, <2>3, <2>4, <1>t, Zenon DEF SortTypes
  <2>6. ASSUME s \notin disturbed'
        PROVE  /\ OwnFiles(s)'
               /\ Sound(mem'[s], sorted'[s], heap'[s], Runs(s)', input'[s], output'[s], ended'[s])
    <3>1. PICK runs : runs = Runs(s)'
      OBVIOUS
    <3>2. /\ runs # <<>> /\ runs \in Seq(Seq(Rows))
          /\ Sound(<<>>, FALSE, heap[s], runs, input[s], output[s], ended[s])
      BY <2>4, <2>6, <3>1, Zenon
    <3>3. Sound(<<>>, TRUE, FirstHeads(runs), runs, input[s], output[s], ended[s])
      BY <3>2, SoundMerge, Zenon
    <3>4. QED
      BY <1>1, <1>3, <2>2, <2>3, <2>4, <2>6, <3>1, <3>3, Zenon
  <2>7. \A t \in Sorters \ {s} :
          /\ mem'[t] = mem[t] /\ sorted'[t] = sorted[t] /\ heap'[t] = heap[t]
          /\ tapes'[t] = tapes[t] /\ input'[t] = input[t] /\ output'[t] = output[t]
          /\ ended'[t] = ended[t]
          /\ t \notin disturbed' =>
               /\ t \notin disturbed
               /\ \A i \in DOMAIN tapes[t] :
                    data'[tapes[t][i].file] = data[tapes[t][i].file]
    BY <1>1, <1>3, <2>2, <2>3, <2>4, Zenon
  <2>8. QED
    BY <1>1, <1>6, <2>5, <2>6, <2>7, StepKeeps, Zenon
<1>10. QED
  BY <1>8, <1>9

(* A step that returns a row or the end, and leaves tapes and files alone. *)
LEMMA ReturnKeeps ==
  ASSUME SortInv, NEW s \in Sorters,
         UNCHANGED <<order, mem, sorted, tapes, dir, data, input, disturbed>>,
         DOMAIN heap' = Sorters, DOMAIN output' = Sorters, ended' \in [Sorters -> BOOLEAN],
         \A t \in Sorters \ {s} :
           heap'[t] = heap[t] /\ output'[t] = output[t] /\ ended'[t] = ended[t],
         s \notin disturbed =>
           Sound(mem[s], sorted[s], heap'[s], Runs(s), input[s], output'[s], ended'[s])
  PROVE  SortInv'
<1>t. SortTypes
  BY Zenon DEF SortInv
<1>1. SortTypes'
  BY <1>t, Zenon DEF SortTypes
<1>2. FewRuns(s)'
  BY InvHolds, ZenonT(30) DEF FewRuns
<1>3. Runs(s)' = Runs(s) /\ (OwnFiles(s) => OwnFiles(s)')
  BY DEF Runs, OwnFiles
<1>4. s \notin disturbed' =>
        /\ OwnFiles(s)'
        /\ Sound(mem'[s], sorted'[s], heap'[s], Runs(s)', input'[s], output'[s], ended'[s])
  BY <1>3, InvHolds, ZenonT(30)
<1>5. \A t \in Sorters \ {s} :
        /\ mem'[t] = mem[t] /\ sorted'[t] = sorted[t] /\ heap'[t] = heap[t]
        /\ tapes'[t] = tapes[t] /\ input'[t] = input[t] /\ output'[t] = output[t]
        /\ ended'[t] = ended[t]
        /\ t \notin disturbed' =>
             /\ t \notin disturbed
             /\ \A i \in DOMAIN tapes[t] :
                  data'[tapes[t][i].file] = data[tapes[t][i].file]
  OBVIOUS
<1>6. QED
  BY <1>1, <1>2, <1>4, <1>5, StepKeeps, Zenon

LEMMA GetTupleFromMemoryKeeps ==
  ASSUME SortInv, NEW s \in Sorters, GetTupleFromMemory(s)
  PROVE  SortInv'
<1>t. SortTypes
  BY DEF SortInv
<1>1. /\ sorted[s] /\ tapes[s] = <<>>
      /\ UNCHANGED <<order, mem, sorted, tapes, heap, dir, data, rescans, input, disturbed>>
  BY DEF GetTupleFromMemory
<1>2. sorted[s] = TRUE /\ Runs(s) = <<>> /\ mem[s] \in Seq(Rows)
  BY <1>1, <1>t, InvHolds, RunsTyped, Zenon
<1>3. ASSUME s \notin disturbed
      PROVE  IF Len(output[s]) < Len(mem[s])
               THEN Sound(mem[s], TRUE, heap[s], <<>>, input[s],
                          Append(output[s], mem[s][Len(output[s]) + 1]), ended[s])
               ELSE Sound(mem[s], TRUE, heap[s], <<>>, input[s], output[s], TRUE)
  <2>1. Sound(mem[s], TRUE, heap[s], <<>>, input[s], output[s], ended[s])
    BY <1>2, <1>3, InvHolds, Zenon
  <2>2. QED
    BY <1>2, <2>1, SoundGetMemory, Zenon
<1>4. CASE Len(output[s]) < Len(mem[s])
  <2>1. /\ output' = [output EXCEPT ![s] = Append(@, mem[s][Len(@) + 1])]
        /\ UNCHANGED ended
    BY <1>4 DEF GetTupleFromMemory
  <2>2. /\ DOMAIN output' = Sorters
        /\ output'[s] = Append(output[s], mem[s][Len(output[s]) + 1])
        /\ \A t \in Sorters \ {s} : output'[t] = output[t]
    BY <2>1, <1>t DEF SortTypes
  <2>3. s \notin disturbed =>
          Sound(mem[s], sorted[s], heap'[s], Runs(s), input[s], output'[s], ended'[s])
    BY <1>1, <1>2, <1>3, <1>4, <2>1, <2>2, Zenon
  <2>4. DOMAIN heap' = Sorters /\ ended' \in [Sorters -> BOOLEAN]
    BY <1>1, <2>1, <1>t, ZenonT(30) DEF SortTypes
  <2>5. \A t \in Sorters \ {s} :
          heap'[t] = heap[t] /\ output'[t] = output[t] /\ ended'[t] = ended[t]
    BY <1>1, <2>1, <2>2
  <2>6. QED
    BY <1>1, <2>2, <2>3, <2>4, <2>5, ReturnKeeps, Zenon
<1>5. CASE ~(Len(output[s]) < Len(mem[s]))
  <2>1. ended' = [ended EXCEPT ![s] = TRUE] /\ UNCHANGED output
    BY <1>5 DEF GetTupleFromMemory
  <2>2. /\ ended' \in [Sorters -> BOOLEAN] /\ ended'[s] = TRUE
        /\ \A t \in Sorters \ {s} : ended'[t] = ended[t]
    BY <2>1, <1>t DEF SortTypes
  <2>3. s \notin disturbed =>
          Sound(mem[s], sorted[s], heap'[s], Runs(s), input[s], output'[s], ended'[s])
    BY <1>1, <1>2, <1>3, <1>5, <2>1, <2>2, Zenon
  <2>4. DOMAIN heap' = Sorters /\ DOMAIN output' = Sorters
    BY <1>1, <2>1, <1>t DEF SortTypes
  <2>5. \A t \in Sorters \ {s} :
          heap'[t] = heap[t] /\ output'[t] = output[t] /\ ended'[t] = ended[t]
    BY <1>1, <2>1, <2>2
  <2>6. QED
    BY <1>1, <2>2, <2>3, <2>4, <2>5, ReturnKeeps, Zenon
<1>6. QED
  BY <1>4, <1>5, ZenonT(30)

LEMMA GetTupleFromMergeKeeps ==
  ASSUME SortInv, NEW s \in Sorters, GetTupleFromMerge(s)
  PROVE  SortInv'
<1>t. SortTypes
  BY DEF SortInv
<1>1. /\ sorted[s] /\ tapes[s] # <<>>
      /\ UNCHANGED <<order, mem, sorted, tapes, dir, data, rescans, input, disturbed>>
  BY DEF GetTupleFromMerge
<1>2. sorted[s] = TRUE /\ Runs(s) # <<>> /\ Runs(s) \in Seq(Seq(Rows))
  BY <1>1, <1>t, InvHolds, RunsTyped, Zenon
<1>3. ASSUME s \notin disturbed
      PROVE  Sound(mem[s], TRUE, heap[s], Runs(s), input[s], output[s], ended[s])
  BY <1>2, <1>3, InvHolds, Zenon
<1>4. CASE heap[s] = <<>>
  <2>1. ended' = [ended EXCEPT ![s] = TRUE] /\ UNCHANGED <<heap, output>>
    BY <1>4, ZenonT(30) DEF GetTupleFromMerge
  <2>2. /\ ended' \in [Sorters -> BOOLEAN] /\ ended'[s] = TRUE
        /\ \A t \in Sorters \ {s} : ended'[t] = ended[t]
    BY <2>1, <1>t DEF SortTypes
  <2>3. ASSUME s \notin disturbed
        PROVE  Sound(mem[s], TRUE, heap[s], Runs(s), input[s], output[s], TRUE)
    BY <1>2, <1>3, <1>4, <2>3, Zenon DEF Sound, Merging
  <2>4. s \notin disturbed =>
          Sound(mem[s], sorted[s], heap'[s], Runs(s), input[s], output'[s], ended'[s])
    BY <1>2, <2>1, <2>2, <2>3, Zenon
  <2>5. DOMAIN heap' = Sorters /\ DOMAIN output' = Sorters
    BY <2>1, <1>t DEF SortTypes
  <2>6. \A t \in Sorters \ {s} :
          heap'[t] = heap[t] /\ output'[t] = output[t] /\ ended'[t] = ended[t]
    BY <2>1, <2>2
  <2>7. QED
    BY <1>1, <2>2, <2>4, <2>5, <2>6, ReturnKeeps, Zenon
<1>5. CASE heap[s] # <<>>
  <2>1. /\ output' = [output EXCEPT ![s] = Append(@, heap[s][Least(heap[s])].row)]
        /\ heap' = [heap EXCEPT ![s] =
             Moved(@, Least(heap[s]), Runs(s)[heap[s][Least(heap[s])].source])]
        /\ UNCHANGED ended
    BY <1>5, Zenon DEF GetTupleFromMerge
  <2>2. /\ DOMAIN output' = Sorters /\ DOMAIN heap' = Sorters
        /\ output'[s] = Append(output[s], heap[s][Least(heap[s])].row)
        /\ heap'[s] = Moved(heap[s], Least(heap[s]), Runs(s)[heap[s][Least(heap[s])].source])
        /\ \A t \in Sorters \ {s} : output'[t] = output[t] /\ heap'[t] = heap[t]
    BY <2>1, <1>t, Zenon DEF SortTypes
  <2>3. ASSUME s \notin disturbed
        PROVE  Sound(mem[s], TRUE, heap'[s], Runs(s), input[s], output'[s], ended[s])
    <3>1. Sound(mem[s], TRUE,
                Moved(heap[s], Least(heap[s]), Runs(s)[heap[s][Least(heap[s])].source]),
                Runs(s), input[s], Append(output[s], heap[s][Least(heap[s])].row), ended[s])
      BY <1>2, <1>3, <1>5, <2>3, SoundGetMerge, <1>t, Zenon DEF SortTypes
    <3>2. QED
      BY <2>2, <3>1, Zenon
  <2>4. s \notin disturbed =>
          Sound(mem[s], sorted[s], heap'[s], Runs(s), input[s], output'[s], ended'[s])
    BY <1>2, <2>1, <2>3, ZenonT(30)
  <2>5. ended' \in [Sorters -> BOOLEAN]
    BY <2>1, <1>t, ZenonT(30) DEF SortTypes
  <2>6. \A t \in Sorters \ {s} :
          heap'[t] = heap[t] /\ output'[t] = output[t] /\ ended'[t] = ended[t]
    BY <2>1, <2>2
  <2>7. QED
    BY <1>1, <2>2, <2>4, <2>5, <2>6, ReturnKeeps, Zenon
<1>6. QED
  BY <1>4, <1>5, ZenonT(30)

LEMMA NewSorter == Sound(<<>>, FALSE, <<>>, <<>>, <<>>, <<>>, FALSE)
  BY NoRows DEF Sound, Collecting

LEMMA ReScanKeeps ==
  ASSUME SortInv, NEW s \in Sorters, ReScan(s)
  PROVE  SortInv'
<1>t. SortTypes
  BY DEF SortInv
<1>1. /\ mem' = [mem EXCEPT ![s] = <<>>] /\ sorted' = [sorted EXCEPT ![s] = FALSE]
      /\ tapes' = [tapes EXCEPT ![s] = <<>>] /\ heap' = [heap EXCEPT ![s] = <<>>]
      /\ input' = [input EXCEPT ![s] = <<>>] /\ output' = [output EXCEPT ![s] = <<>>]
      /\ ended' = [ended EXCEPT ![s] = FALSE] /\ disturbed' = disturbed \ {s}
      /\ dir' = [p \in Paths |-> IF p < Len(tapes[s]) THEN NoFile ELSE dir[p]]
      /\ data' = [f \in Files |-> IF f \in UNION {OpenFiles(t) : t \in Sorters \ {s}}
                                    THEN data[f] ELSE <<>>]
      /\ order' = order
  BY Zenon DEF ReScan
<1>2. <<>> \in Seq(Rows) /\ <<>> \in Seq([path : Paths, file : Files]) /\ Len(<<>>) = 0
  BY EmptySeq
<1>3. /\ mem' \in [Sorters -> Seq(Rows)] /\ sorted' \in [Sorters -> BOOLEAN]
      /\ tapes' \in [Sorters -> Seq([path : Paths, file : Files])]
      /\ DOMAIN heap' = Sorters /\ DOMAIN output' = Sorters
      /\ input' \in [Sorters -> Seq(Rows)] /\ ended' \in [Sorters -> BOOLEAN]
  BY <1>1, <1>2, <1>t, ZenonT(30) DEF SortTypes
<1>4. /\ mem'[s] = <<>> /\ sorted'[s] = FALSE /\ tapes'[s] = <<>> /\ heap'[s] = <<>>
      /\ input'[s] = <<>> /\ output'[s] = <<>> /\ ended'[s] = FALSE
  BY <1>1, <1>t, ZenonT(30) DEF SortTypes
<1>5. dir' \in [Paths -> Files \cup {NoFile}] /\ disturbed' \subseteq Sorters
  BY <1>1, <1>t, ZenonT(30) DEF SortTypes
<1>6. data' \in [Files -> Seq(Rows)]
  BY <1>1, <1>2, <1>t DEF SortTypes
<1>7. SortTypes'
  BY <1>1, <1>3, <1>5, <1>6, <1>t, Zenon DEF SortTypes
<1>8. FewRuns(s)'
  <2>1. Len(input'[s]) = 0 /\ Len(tapes'[s]) = 0 /\ Len(mem'[s]) = 0 /\ MaxRows[s] \in Nat
    BY <1>2, <1>4, InvHolds
  <2>2. Len(input'[s]) <= MaxRows[s] /\ Len(tapes'[s]) + Len(mem'[s]) <= Len(input'[s])
    BY <2>1
  <2>3. QED
    BY <2>2, ZenonT(30) DEF FewRuns
<1>9. OwnFiles(s)' /\ Runs(s)' = <<>>
  BY <1>4 DEF OwnFiles, Runs
<1>10. Sound(mem'[s], sorted'[s], heap'[s], Runs(s)', input'[s], output'[s], ended'[s])
  BY <1>4, <1>9, NewSorter, Zenon
<1>11. \A t \in Sorters \ {s} :
         /\ mem'[t] = mem[t] /\ sorted'[t] = sorted[t] /\ heap'[t] = heap[t]
         /\ tapes'[t] = tapes[t] /\ input'[t] = input[t] /\ output'[t] = output[t]
         /\ ended'[t] = ended[t]
         /\ t \notin disturbed' => t \notin disturbed
  BY <1>1, <1>t, ZenonT(30) DEF SortTypes
<1>12. ASSUME NEW t \in Sorters \ {s}, NEW i \in DOMAIN tapes[t]
       PROVE  data'[tapes[t][i].file] = data[tapes[t][i].file]
  <2>1. tapes[t][i].file \in OpenFiles(t)
    BY ZenonT(30) DEF OpenFiles
  <2>2. tapes[t][i].file \in Files
    BY <1>t, RunsTyped
  <2>3. QED
    BY <1>1, <2>1, <2>2, ZenonT(30)
<1>13. QED
  BY <1>1, <1>7, <1>8, <1>9, <1>10, <1>11, <1>12, StepKeeps, Zenon

(* The inductive invariant of the sorters: the rows put are in memory or   *)
(* in one place of one run, each run is sorted, and after PerformSort the  *)
(* rows returned come before all that are left (tuplesort.cpp).            *)
THEOREM SortInvariant == SortSpec => []SortInv
<1>1. SortInit => SortInv
  <2> SUFFICES ASSUME SortInit  PROVE SortInv
    OBVIOUS
  <2>1. <<>> \in Seq(Rows) /\ <<>> \in Seq([path : Paths, file : Files]) /\ Len(<<>>) = 0
    BY EmptySeq
  <2>2. SortTypes
    BY <2>1 DEF SortInit, SortTypes
  <2>3. ASSUME NEW s \in Sorters  PROVE FewRuns(s)
    BY <2>1, SortAssumption DEF SortInit, FewRuns
  <2>4. ASSUME NEW s \in Sorters
        PROVE  /\ OwnFiles(s)
               /\ Sound(mem[s], sorted[s], heap[s], Runs(s), input[s], output[s], ended[s])
    <3>1. /\ mem[s] = <<>> /\ sorted[s] = FALSE /\ tapes[s] = <<>> /\ heap[s] = <<>>
          /\ input[s] = <<>> /\ output[s] = <<>> /\ ended[s] = FALSE
      BY ZenonT(30) DEF SortInit
    <3>2. OwnFiles(s) /\ Runs(s) = <<>>
      BY <3>1 DEF OwnFiles, Runs
    <3>3. QED
      BY <3>1, <3>2, NewSorter, Zenon
  <2>5. QED
    BY <2>2, <2>3, <2>4 DEF SortInv
<1>2. SortInv /\ [SortNext]_sortVars => SortInv'
  <2> SUFFICES ASSUME SortInv, [SortNext]_sortVars  PROVE SortInv'
    OBVIOUS
  <2>1. ASSUME NEW s \in Sorters, NEW k \in SortKeys[s], PutTuple(s, k)  PROVE SortInv'
    BY <2>1, PutTupleKeeps
  <2>2. ASSUME NEW s \in Sorters, PerformSort(s)  PROVE SortInv'
    BY <2>2, PerformSortKeeps
  <2>3. ASSUME NEW s \in Sorters, GetTupleFromMemory(s)  PROVE SortInv'
    BY <2>3, GetTupleFromMemoryKeeps
  <2>4. ASSUME NEW s \in Sorters, GetTupleFromMerge(s)  PROVE SortInv'
    BY <2>4, GetTupleFromMergeKeeps
  <2>5. ASSUME NEW s \in Sorters, ReScan(s)  PROVE SortInv'
    BY <2>5, ReScanKeeps
  <2>6. CASE UNCHANGED sortVars
    <3>1. UNCHANGED <<order, mem, sorted, tapes, heap, dir, data, input, output, ended,
                      disturbed>>
      BY <2>6 DEF sortVars
    <3>2. CASE Sorters = {}
      BY <3>1, <3>2, Zenon DEF SortInv, SortTypes
    <3>3. CASE Sorters # {}
      <4>1. PICK s \in Sorters : TRUE
        BY <3>3
      <4>2. /\ DOMAIN heap' = Sorters /\ DOMAIN output' = Sorters
            /\ ended' \in [Sorters -> BOOLEAN]
        BY <3>1, Zenon DEF SortInv, SortTypes
      <4>3. s \notin disturbed =>
              Sound(mem[s], sorted[s], heap'[s], Runs(s), input[s], output'[s], ended'[s])
        BY <3>1, InvHolds, Zenon
      <4>4. QED
        BY <3>1, <4>2, <4>3, ReturnKeeps, Zenon
    <3>4. QED
      BY <3>2, <3>3
  <2>7. QED
    BY <2>1, <2>2, <2>3, <2>4, <2>5, <2>6, Zenon DEF SortNext
<1>3. QED
  BY <1>1, <1>2, PTL DEF SortSpec

(* GetTuple returns the rows in order, each once, and all of them by the   *)
(* end, for any number of sorters, rows, runs and rescans, as long as no   *)
(* other sorter truncated a run.                                           *)
THEOREM SortsRight == SortSpec => []UndisturbedSortsAll
<1>1. SortInv => UndisturbedSortsAll
  <2> SUFFICES ASSUME SortInv, NEW s \in Sorters \ disturbed  PROVE SortedAll(s)
    BY ZenonT(30) DEF UndisturbedSortsAll
  <2> DEFINE put == input[s]
             got == output[s]
  <2>1. Sound(mem[s], sorted[s], heap[s], Runs(s), put, got, ended[s])
    BY InvHolds, ZenonT(30)
  <2>2. CASE ~sorted[s]
    <3>1. got = <<>> /\ ~ended[s]
      BY <2>1, <2>2, Zenon DEF Sound, Collecting
    <3>2. QED
      BY <3>1, NoRows, SMTT(20) DEF SortedAll
  <2>3. CASE sorted[s] /\ Runs(s) = <<>>
    <3>1. FromMemory(mem[s], put, got, ended[s])
      BY <2>1, <2>3 DEF Sound
    <3>2. /\ DOMAIN mem[s] = 1 .. Len(mem[s]) /\ Len(mem[s]) \in Nat
          /\ DOMAIN got = 1 .. Len(got) /\ Len(got) \in Nat /\ Len(got) <= Len(mem[s])
          /\ \A i \in DOMAIN got : got[i] = mem[s][i]
      BY <3>1, InvHolds, LenProperties, Zenon DEF FromMemory
    <3>3. \A i \in DOMAIN got : i \in DOMAIN mem[s]
      BY <3>2
    <3>4. IsRun(mem[s]) /\ Range(mem[s]) = Range(put)
      BY <3>1, ZenonT(30) DEF FromMemory
    <3>5. Ordered(got) /\ IsInjective(got)
      BY <3>2, <3>3, <3>4, ZenonT(30) DEF IsRun, Ordered, IsInjective
    <3>6. Range(got) \subseteq Range(put)
      BY <3>2, <3>3, <3>4, Zenon DEF Range
    <3>7. ended[s] => Range(got) = Range(put)
      <4> SUFFICES ASSUME ended[s]  PROVE Range(got) = Range(mem[s])
        BY <3>4
      <4>1. Len(got) = Len(mem[s])
        BY <3>1 DEF FromMemory
      <4>2. DOMAIN got = DOMAIN mem[s]
        BY <3>2, <4>1, ZenonT(30)
      <4>3. QED
        BY <3>2, <4>2 DEF Range
    <3>8. QED
      BY <3>5, <3>6, <3>7, ZenonT(30) DEF SortedAll
  <2>4. CASE sorted[s] /\ Runs(s) # <<>>
    <3>1. Merging(heap[s], Runs(s), put, got, ended[s])
      BY <2>1, <2>4, ZenonT(30) DEF Sound
    <3>2. /\ Ordered(got) /\ IsInjective(got)
          /\ Range(put) = Range(got) \cup RowsLeft(heap[s], Runs(s))
          /\ ended[s] => heap[s] = <<>>
      BY <3>1, ZenonT(30) DEF Merging, IsRun
    <3>3. heap[s] = <<>> => RowsLeft(heap[s], Runs(s)) = {}
      BY DEF RowsLeft
    <3>4. QED
      BY <3>2, <3>3, ZenonT(30) DEF SortedAll
  <2>5. QED
    BY <2>2, <2>3, <2>4
<1>2. QED
  BY <1>1, SortInvariant, PTL
=============================================================================
