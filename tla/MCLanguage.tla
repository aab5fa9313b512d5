---------------------------- MODULE MCLanguage ------------------------------
(***************************************************************************)
(* What reads and writes text, side by side: a behaviour scans a query     *)
(* (Scanner, whose own variables and constants this module has), follows a *)
(* construct from the grammar to its analysis, copies or writes a node     *)
(* tree, computes with numbers or dates, or converts a value to text and   *)
(* back. v1, v2, ... are the variables of the part, in the order of its    *)
(* declaration.                                                            *)
(***************************************************************************)
EXTENDS Scanner

CONSTANTS Raised   \* what a function that raises an error returns

VARIABLES
  active,   \* the part that runs
  v1, v2, v3, v4, v5, v6, v7

From6 == <<v6, v7>>
From4 == <<v4, v5, From6>>
From3 == <<v3, From4>>
From1 == <<v1, v2, From3>>
mcVars == <<active, vars, From1>>

(* The variables from the i-th on have no part in this behaviour.          *)
Idle6 == v6 = 0 /\ v7 = 0
Idle4 == v4 = 0 /\ v5 = 0 /\ Idle6
Idle3 == v3 = 0 /\ Idle4
Idle1 == v1 = 0 /\ v2 = 0 /\ Idle3

Ana == INSTANCE Analysis WITH
  item <- v1, use <- v2

Tree == INSTANCE Nodes WITH
  ChildClasses <- {"BoolExpr"},
  heap <- v1, root <- v2, copy <- v3, touched <- v4, text <- v5,
  restored <- v6, pc <- v7

Num == INSTANCE Numeric WITH
  Ten <- 2, kDecDigits <- 2, DivExtra <- 4, MaxInt <- 3, MaxFrac <- 2,
  MaxScale <- 4, MaxSteps <- 3,
  acc <- v1, exact <- v2, steps <- v3

Cal == INSTANCE Calendar WITH
  MaxDays <- 400, kMicrosPerSec <- 2, kSixty <- 2, kHoursPerDay <- 2,
  start <- v1, days <- v2, today <- v3

IO == INSTANCE TypeIO WITH
  MaxLen <- 2, kByteBits <- 2, kGroups <- 3, Error <- Raised,
  kind <- v1, value <- v2, text <- v3, back <- v4, pc <- v5

MCInit ==
  \/ active = "scanner" /\ Init /\ Idle1
  \/ active = "analysis" /\ Ana!Init /\ Idle3 /\ Init
  \/ active = "node tree" /\ Tree!Init /\ Init
  \/ active = "numeric" /\ Num!Init /\ Idle4 /\ Init
  \/ active = "calendar" /\ Cal!Init /\ Idle4 /\ Init
  \/ active = "type" /\ IO!Init /\ Idle6 /\ Init

MCNext ==
  /\ \/ active = "scanner" /\ Next /\ UNCHANGED From1
     \/ active = "analysis" /\ Ana!Next /\ UNCHANGED <<vars, From3>>
     \/ active = "node tree" /\ Tree!Next /\ UNCHANGED vars
     \/ active = "numeric" /\ Num!Next /\ UNCHANGED <<vars, From4>>
     \/ active = "calendar" /\ Cal!Next /\ UNCHANGED <<vars, From4>>
     \/ active = "type" /\ IO!Next /\ UNCHANGED <<vars, From6>>
  /\ UNCHANGED active

MCSpec == MCInit /\ [][MCNext]_mcVars

(* Scanner's ScannerRight and Analysis's Fits: a text that is written as   *)
(* one token is scanned as that token, and a tree the grammar builds is of *)
(* the classes and shapes its analysis casts it to.                        *)
ParserRight ==
  /\ ScannerRight
  /\ active = "analysis" => Ana!Fits

(* Nodes's CopiesAreFaithful and ReadInvertsWrite: a copy of a tree shares *)
(* nothing with it and equals it, and a tree that is written and read is   *)
(* the tree.                                                               *)
NodesRight ==
  active = "node tree" => Tree!CopiesAreFaithful /\ Tree!ReadInvertsWrite

(* Numeric's NumericExact, Calendar's CalendarAgrees and TypeIO's          *)
(* TextReadsBack and OperatorsAgree: numeric operators are exact or        *)
(* rounded once, dates convert to parts and back, text is read back as the *)
(* value it was written from, and comparison operators order what they     *)
(* compare.                                                                *)
TypesRight ==
  /\ active = "numeric" => Num!NumericExact
  /\ active = "calendar" => Cal!CalendarAgrees
  /\ active = "type" => IO!TextReadsBack /\ IO!OperatorsAgree
=============================================================================
