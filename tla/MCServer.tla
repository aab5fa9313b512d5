----------------------------- MODULE MCServer -------------------------------
(***************************************************************************)
(* What one process keeps in its memory, side by side: a behaviour is that *)
(* of its catalog (Catalog, whose own variables and constants this module  *)
(* has), of a row saved to and loaded from the catalog's file, or of one   *)
(* of the container types. v1, v2, ... are the variables of the part, in   *)
(* the order of its declaration.                                           *)
(***************************************************************************)
EXTENDS Catalog

VARIABLES
  active,   \* the part that runs
  v1, v2, v3, v4, v5

From4 == <<v4, v5>>
From1 == <<v1, v2, v3, From4>>
mcVars == <<active, vars, From1>>

(* The variables from the i-th on have no part in this behaviour.          *)
Idle4 == v4 = 0 /\ v5 = 0
Idle1 == v1 = 0 /\ v2 = 0 /\ v3 = 0 /\ Idle4

(* Names a client uses and gives, and the extensions there are.            *)
ClientNames == {<<"a">>}
GivenNames == {<<"b">>}
Extensions == "e" :> <<"u">> @@ "u" :> << >>

File == INSTANCE CatalogFile WITH
  Chars <- {"\\", "TAB", "NL", "t", ",", "["}, MaxLen <- 2,
  kFirstNormalObjectId <- 5,
  table <- v1, row <- v2, file <- v3, loaded <- v4, pc <- v5

Con == INSTANCE Containers WITH
  Keys <- 1 .. 7, Values <- 1 .. 3, MaxHeap <- 5, kBitsPerWord <- 2,
  Members <- 0 .. 4, Nodes <- 1 .. 3,
  kind <- v1, store <- v2, held <- v3

MCInit ==
  \/ active = "catalog" /\ Init /\ Idle1
  \/ active = "catalog file" /\ File!Init /\ Init
  \/ active = "container" /\ Con!Init /\ Idle4 /\ Init

MCNext ==
  /\ \/ active = "catalog" /\ Next /\ UNCHANGED From1
     \/ active = "catalog file" /\ File!Next /\ UNCHANGED vars
     \/ active = "container" /\ Con!Next /\ UNCHANGED <<vars, From4>>
  /\ UNCHANGED active

MCSpec == MCInit /\ [][MCNext]_mcVars

(* CatalogFile's LoadInvertsSave: a row of the catalog that is saved is    *)
(* loaded as it was, whatever characters its texts hold.                   *)
LoadInvertsSave == active = "catalog file" => File!LoadInvertsSave

(* Containers's ContainersRight: the red-black tree, the heaps, the bitmap *)
(* sets and the lists hold what was put in and not removed, within their   *)
(* own invariants.                                                         *)
ContainersRight == active = "container" => Con!ContainersRight
=============================================================================
