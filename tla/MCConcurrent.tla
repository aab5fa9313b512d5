--------------------------- MODULE MCConcurrent -----------------------------
(***************************************************************************)
(* The parts that several processes take part in, side by side: a          *)
(* behaviour is that of replication slots, walsenders and standbys         *)
(* (Replication, whose own variables and constants this module has), of a  *)
(* client's connection, or of the waits-for graph. v1, v2, ... are the     *)
(* variables of the part, in the order of its declaration.                 *)
(***************************************************************************)
EXTENDS Replication, TLC

CONSTANTS p1, p2   \* processes that wait

VARIABLES
  active,   \* the part that runs
  v1, v2, v3, v4, v5, v6, v7

From3 == <<v3, v4, v5, v6, v7>>
From1 == <<v1, v2, From3>>
mcVars == <<active, vars, From1>>

(* The variables from the i-th on have no part in this behaviour.          *)
Idle3 == v3 = 0 /\ v4 = 0 /\ v5 = 0 /\ v6 = 0 /\ v7 = 0
Idle1 == v1 = 0 /\ v2 = 0 /\ Idle3

AppNames == "s1" :> "a" @@ "s2" :> "b"
BothNames == {[names |-> <<"a", "b">>, num |-> 2]}

P == INSTANCE Protocol WITH
  Scripts <- {<<"select">>, <<"update", "fail">>, <<"missing">>, <<"syntax">>},
  Names <- {"", "s"},
  Methods <- {"trust", "password", "md5", "scram", "reject"}, MaxCalls <- 2,
  MaxOwed <- 1,
  toServer <- v1, toClient <- v2, server <- v3, client <- v4, asked <- v5,
  returned <- v6, owed <- v7

D == INSTANCE Deadlock WITH
  Xids <- {3, 4, 5}, Procs <- {p1, p2},
  graph <- v1, waitFor <- v2

MCInit ==
  \/ active = "replication" /\ Init /\ Idle1
  \/ active = "protocol" /\ P!Init /\ Init /\ side = "logical"
  \/ active = "deadlock" /\ D!Init /\ Idle3 /\ Init /\ side = "logical"

MCNext ==
  /\ \/ active = "replication" /\ Next /\ UNCHANGED From1
     \/ active = "protocol" /\ P!Next /\ UNCHANGED vars
     \/ active = "deadlock" /\ D!Next /\ UNCHANGED <<vars, From3>>
  /\ UNCHANGED active

MCSpec == MCInit /\ [][MCNext]_mcVars

(* Protocol's ResultsInStep and WaitingIsAnswered: an application reads    *)
(* the results of its queries in the order it sent them, and while it      *)
(* waits an answer is on its way.                                          *)
ProtocolRight == active = "protocol" => P!ResultsInStep /\ P!WaitingIsAnswered

(* Deadlock's SearchIsExact: the search reports a process just if it waits *)
(* for itself.                                                             *)
SearchIsExact == active = "deadlock" => D!SearchIsExact
=============================================================================
