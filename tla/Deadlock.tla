------------------------------ MODULE Deadlock ------------------------------
(***************************************************************************)
(* The two wait-for graphs and their searches: among transactions, each of *)
(* which may wait for several (src/transaction/deadlock.cpp), and among    *)
(* processes, each of which waits for at most one                          *)
(* (src/storage/ipc/deadlock.cpp).                                         *)
(***************************************************************************)
EXTENDS Integers, Sequences, SequencesExt, FiniteSetsExt

CONSTANTS Xids,   \* transaction IDs that wait
          Procs   \* processes that wait

VARIABLES graph,    \* WaitGraph() of transactions: the holders in the order added
          waitFor   \* WaitGraph() of processes: waiter -> blocker

vars == <<graph, waitFor>>

TypeOK ==
  /\ graph \in [Xids -> Seq(Xids)]
  /\ DOMAIN waitFor \subseteq Procs /\ Range(waitFor) \subseteq Procs

Init ==
  /\ graph = [x \in Xids |-> <<>>]
  /\ waitFor = <<>>

AddWaitEdge(waiter, holder) ==
  /\ holder \notin Range(graph[waiter])
  /\ graph' = [graph EXCEPT ![waiter] = Append(@, holder)]
  /\ UNCHANGED waitFor

RemoveWaitEdgesFor(x) ==
  /\ graph' = [w \in Xids |-> IF w = x THEN <<>> ELSE SelectSeq(graph[w], LAMBDA h : h # x)]
  /\ UNCHANGED waitFor

RegisterWaitFor(waiter, blocker) ==
  /\ waitFor' = [p \in DOMAIN waitFor \cup {waiter} |->
                   IF p = waiter THEN blocker ELSE waitFor[p]]
  /\ UNCHANGED graph

UnregisterWaitFor(waiter) ==
  /\ waiter \in DOMAIN waitFor
  /\ waitFor' = [p \in DOMAIN waitFor \ {waiter} |-> waitFor[p]]
  /\ UNCHANGED graph

Next ==
  \/ \E w, h \in Xids : AddWaitEdge(w, h)
  \/ \E x \in Xids : RemoveWaitEdgesFor(x)
  \/ \E w, b \in Procs : RegisterWaitFor(w, b)
  \/ \E w \in Procs : UnregisterWaitFor(w)

Spec == Init /\ [][Next]_vars

-----------------------------------------------------------------------------
(* Mutant: the search gives up at the first neighbour that leads nowhere.  *)
RECURSIVE DfsFirstOnly(_, _, _)
DfsFirstOnly(node, path, start) ==
  LET here == Append(path, node)
      neighbor == Head(graph[node])
  IN  IF graph[node] = <<>> THEN <<>>
      ELSE IF neighbor = start THEN here
      ELSE IF neighbor \in Range(here) THEN <<>>
      ELSE DfsFirstOnly(neighbor, here, start)

(* The cycle found from node, whose neighbours are tried in order, or <<>>.*)
(* The nodes on the path are not entered again.                            *)
RECURSIVE DfsVisit(_, _, _)
DfsVisit(node, path, start) ==
  LET here == Append(path, node)
      Try(found, neighbor) ==
        IF found # <<>> THEN found
        ELSE IF neighbor = start THEN here
        ELSE IF neighbor \in Range(here) THEN <<>>
        ELSE DfsVisit(neighbor, here, start)
  IN  FoldLeft(Try, <<>>, graph[node])

FindDeadlockCycle(start) == DfsVisit(start, <<>>, start)

SelectVictim(cycle) == Max(Range(cycle))

(* The walk of the process graph: the path until it ends (<<>>) or meets   *)
(* itself; the cycle is repeated at its end.                               *)
RECURSIVE Walk(_, _)
Walk(current, path) ==
  LET i == SelectInSeq(path, LAMBDA p : p = current)
  IN  IF i # 0 THEN Append(SubSeq(path, i, Len(path)), current)
      ELSE IF current \notin DOMAIN waitFor THEN <<>>
      ELSE Walk(waitFor[current], Append(path, current))

HasDeadlock == \E p \in DOMAIN waitFor : Walk(p, <<>>) # <<>>

-----------------------------------------------------------------------------
(* Reachability in one or more edges, the reference definition.            *)
Reaches(Edge(_, _), N, a, b) ==
  LET Closed(S) == \A x \in S, y \in N : Edge(x, y) => y \in S
      Sources == {y \in N : Edge(a, y)}
  IN  \A S \in SUBSET N : Sources \subseteq S /\ Closed(S) => b \in S

Waits(a, b) == b \in Range(graph[a])
ProcWaits(a, b) == a \in DOMAIN waitFor /\ waitFor[a] = b
IsCycle(c, Edge(_, _)) ==
  /\ \A i \in 1 .. Len(c) - 1 : Edge(c[i], c[i + 1])
  /\ Edge(c[Len(c)], c[1])

(* Both searches find a cycle exactly where there is one, what they return *)
(* is a cycle of waits, and the victim is the youngest transaction in it.  *)
SearchIsExact ==
  /\ \A x \in Xids : LET c == FindDeadlockCycle(x) IN
       /\ c # <<>> <=> Reaches(Waits, Xids, x, x)
       /\ c # <<>> => /\ IsCycle(c, Waits)
                      /\ SelectVictim(c) \in Range(c)
                      /\ \A y \in Range(c) : y <= SelectVictim(c)
  /\ HasDeadlock <=> \E p \in Procs : Reaches(ProcWaits, Procs, p, p)
  /\ \A p \in Procs : LET c == Walk(p, <<>>) IN c # <<>> => IsCycle(Front(c), ProcWaits)
=============================================================================
