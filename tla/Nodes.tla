------------------------------- MODULE Nodes -------------------------------
(***************************************************************************)
(* Node trees: copyObject and equal, which dispatch to the methods of      *)
(* NodeTypes, and nodeToString and stringToNode, which write a tree as     *)
(* text and read it back.                                                  *)
(*                                                                         *)
(* A tree lives on a heap: an address holds a node, a pointer field holds  *)
(* an address or Null, a list field a sequence of addresses.  The model    *)
(* takes one node of any class with every child in place, copies it and    *)
(* changes one thing in the copy; or writes it and reads the text.         *)
(***************************************************************************)
EXTENDS Integers, Sequences, SequencesExt, FiniteSets, TLC, NodeTypes

CONSTANT ChildClasses   \* the classes of the children of a node to be written

VARIABLES heap, root, copy, touched, text, restored, pc

vars == <<heap, root, copy, touched, text, restored, pc>>

Null == <<>>   \* no address, no node

(* What a value field holds when it was never set, when it was, and a text *)
(* of two words.                                                           *)
Unset == <<>>
Set == <<"word">>
TwoWords == <<"word", "word">>

(***************************************************************************)
(* Value: an integer, a text, nothing                                      *)
(***************************************************************************)
Value == Class({"ival"}, {}, {})

Classes == DOMAIN Declared \cup {"Value"}

ClassOf(c) == IF c = "Value" THEN Value ELSE Declared[c]
Cloned(c) == IF c = "Value" THEN {} ELSE MethodsOf[c].clone
Compared(c) == IF c = "Value" THEN {"ival"} ELSE MethodsOf[c].equals

Fields(c) == ClassOf(c).values \cup ClassOf(c).nodes \cup ClassOf(c).lists

(***************************************************************************)
(* Trees on the heap                                                       *)
(***************************************************************************)
Leaf == [class |-> "Value", fields |-> [ival |-> Set]]

(* A node of class c at address a with everything set but the fields in    *)
(* empty.                                                                  *)
Whole(a, c, empty) ==
  [class |-> c,
   fields |-> [f \in Fields(c) |->
     IF f \in ClassOf(c).values THEN IF f \in empty THEN Unset ELSE Set
     ELSE IF f \in empty THEN <<>>
     ELSE IF f \in ClassOf(c).nodes THEN Append(a, <<f, 1>>)
     ELSE <<Append(a, <<f, 1>>), Append(a, <<f, 2>>)>>]]

Pointers(h, a, f) ==
  IF f \in ClassOf(h[a].class).nodes THEN {h[a].fields[f]} \ {Null}
  ELSE IF f \in ClassOf(h[a].class).lists THEN Range(h[a].fields[f])
  ELSE {}

Children(h, a) == UNION {Pointers(h, a, f) : f \in DOMAIN h[a].fields}

RECURSIVE Content(_, _)
(* The tree at a as a value.                                               *)
Content(h, a) ==
  IF a = Null THEN Null
  ELSE [class |-> h[a].class,
        fields |-> [f \in DOMAIN h[a].fields |->
          IF f \in ClassOf(h[a].class).nodes THEN Content(h, h[a].fields[f])
          ELSE IF f \in ClassOf(h[a].class).lists
               THEN [i \in DOMAIN h[a].fields[f] |-> Content(h, h[a].fields[f][i])]
          ELSE h[a].fields[f]]]

(***************************************************************************)
(* copyObject and equal                                                    *)
(***************************************************************************)
RECURSIVE CloneNode(_, _, _)
(* Clone() of the node at a into b: the copy constructor takes over every  *)
(* field, pointers included; the fields Clone() names then get copies.     *)
CloneNode(h, a, b) ==
  LET c == h[a].class
      x == h[a].fields
      Pointer(f, i) == IF f \in ClassOf(c).nodes THEN x[f] ELSE x[f][i]
      places == UNION {IF f \in ClassOf(c).nodes
                       THEN {<<f, 1>> : y \in {x[f]} \ {Null}}
                       ELSE {<<f, i>> : i \in DOMAIN x[f]} : f \in Cloned(c)}
      copies == {CloneNode(h, Pointer(y[1], y[2]), Append(b, y)) : y \in places}
      node == [class |-> c,
               fields |-> [f \in DOMAIN x |->
                 IF f \notin Cloned(c) THEN x[f]
                 ELSE IF f \in ClassOf(c).nodes
                      THEN IF x[f] = Null THEN Null ELSE Append(b, <<f, 1>>)
                      ELSE [i \in DOMAIN x[f] |-> Append(b, <<f, i>>)]]]
  IN [p \in {b} \cup UNION {DOMAIN m : m \in copies} |->
       IF p = b THEN node ELSE (CHOOSE m \in copies : p \in DOMAIN m)[p]]

copyObject ==
  /\ pc = "tree"
  /\ pc' = "copied"
  /\ heap' = heap @@ CloneNode(heap, root, <<"copy">>)
  /\ copy' = <<"copy">>
  /\ UNCHANGED <<root, touched, text, restored>>

RECURSIVE equal(_, _, _)
equal(h, a, b) ==
  \/ a = b
  \/ /\ a # Null
     /\ b # Null
     /\ h[a].class = h[b].class
     /\ \A f \in Compared(h[a].class) :
          LET x == h[a].fields[f]
              y == h[b].fields[f]
          IN IF f \in ClassOf(h[a].class).nodes THEN equal(h, x, y)
             ELSE IF f \in ClassOf(h[a].class).lists
                  THEN Len(x) = Len(y) /\ \A i \in DOMAIN x : equal(h, x[i], y[i])
             ELSE x = y

(***************************************************************************)
(* What a user of the copy may do to it: set a value, in the node or in a  *)
(* child, clear a pointer, shorten a list.                                 *)
(***************************************************************************)
Modify(f) ==
  /\ pc = "copied"
  /\ pc' = "modified"
  /\ touched' = f
  /\ LET c == heap[copy].class
     IN \/ /\ f \in ClassOf(c).values
           /\ heap' = [heap EXCEPT ![copy].fields[f] = TwoWords]
        \/ /\ f \in ClassOf(c).nodes /\ heap[copy].fields[f] # Null
           /\ heap' = [heap EXCEPT ![copy].fields[f] = Null]
        \/ /\ f \in ClassOf(c).lists /\ heap[copy].fields[f] # <<>>
           /\ heap' = [heap EXCEPT ![copy].fields[f] = Front(@)]
        \/ \E p \in Pointers(heap, copy, f) : \E v \in ClassOf(heap[p].class).values :
             heap' = [heap EXCEPT ![p].fields[v] = TwoWords]
  /\ UNCHANGED <<root, copy, text, restored>>

(***************************************************************************)
(* nodeToString.  Text is a sequence of tokens: parentheses, a tag, a      *)
(* label, "<>" and words.  A label is called by the field it stands for.   *)
(***************************************************************************)
outVar ==
  <<"varno", "varattno", "vartype", "vartypmod", "varcollid", "varlevelsup",
   "varnosyn", "varattnosyn", "location">>
outConst ==
  <<"consttype", "consttypmod", "constcollid", "constlen", "constvalue",
   "constisnull", "constbyval", "location">>
outParam ==
  <<"paramkind", "paramid", "paramtype", "paramtypmod", "paramcollid",
   "location">>
outOpExpr ==
  <<"opno", "opfuncid", "opresulttype", "opretset", "opcollid", "inputcollid",
   "args", "location">>
outFuncExpr ==
  <<"funcid", "funcresulttype", "funcretset", "funcvariadic", "funcformat",
   "funccollid", "inputcollid", "args", "location">>
outBoolExpr == <<"boolop", "args", "location">>
outNullTest == <<"arg", "nulltesttype", "argisrow", "location">>
outBooleanTest == <<"arg", "booltesttype", "location">>
outTargetEntry ==
  <<"expr", "resno", "resname", "ressortgroupref", "resorigtbl", "resorigcol",
   "resjunk">>
outRangeTblEntry ==
  <<"rtekind", "relid", "relkind", "rellockmode", "tablesample", "subquery",
   "security_barrier", "jointype", "joinmergedcols", "joinaliasvars",
   "joinleftcols", "joinrightcols", "functions", "funcordinality",
   "values_lists_count", "ctename", "ctelevelsup", "self_reference",
   "coltypes", "coltypmods", "colcollations">>
outQuery ==
  <<"command_type", "query_source", "query_id", "can_set_tag", "utility_stmt",
   "result_relation", "has_aggs", "has_window_funcs", "has_target_srfs",
   "has_sub_links", "has_distinct_on", "has_recursive", "has_modifying_cte",
   "has_for_update", "has_row_security", "is_return", "cte_list", "rtable",
   "jointree", "target_list", "override_kind", "on_conflict", "returning_list",
   "group_clause", "group_distinct", "having_qual", "window_clause",
   "distinct_clause", "sort_clause", "limit_offset", "limit_count">>

readVar ==
  {"varno", "varattno", "vartype", "vartypmod", "varcollid", "varlevelsup",
   "varnosyn", "varattnosyn", "location"}
readConst ==
  {"consttype", "consttypmod", "constcollid", "constlen", "constvalue",
   "constisnull", "constbyval", "location"}
readParam ==
  {"paramkind", "paramid", "paramtype", "paramtypmod", "paramcollid",
   "location"}
readOpExpr ==
  {"opno", "opfuncid", "opresulttype", "opretset", "opcollid", "inputcollid",
   "args", "location"}
readFuncExpr ==
  {"funcid", "funcresulttype", "funcretset", "funcvariadic", "funcformat",
   "funccollid", "inputcollid", "args", "location"}
readBoolExpr == {"boolop", "args", "location"}
readNullTest == {"arg", "nulltesttype", "argisrow", "location"}
readBooleanTest == {"arg", "booltesttype", "location"}
readTargetEntry ==
  {"expr", "resno", "resname", "ressortgroupref", "resorigtbl", "resorigcol",
   "resjunk"}
readRangeTblEntry ==
  {"rtekind", "relid", "relkind", "rellockmode", "subquery",
   "security_barrier", "jointype", "joinmergedcols", "joinaliasvars",
   "joinleftcols", "joinrightcols", "functions", "funcordinality",
   "values_lists_count", "ctename", "ctelevelsup", "self_reference",
   "coltypes", "coltypmods", "colcollations"}
readQuery ==
  {"command_type", "query_source", "query_id", "can_set_tag", "utility_stmt",
   "result_relation", "has_aggs", "has_window_funcs", "has_target_srfs",
   "has_sub_links", "has_distinct_on", "has_recursive", "has_modifying_cte",
   "has_for_update", "has_row_security", "is_return", "cte_list", "rtable",
   "jointree", "target_list", "override_kind", "on_conflict", "returning_list",
   "group_clause", "group_distinct", "having_qual", "window_clause",
   "distinct_clause", "sort_clause", "limit_offset", "limit_count"}

Writes ==
  [Var |-> outVar, Const |-> outConst, Param |-> outParam,
   OpExpr |-> outOpExpr, FuncExpr |-> outFuncExpr, BoolExpr |-> outBoolExpr,
   NullTest |-> outNullTest, BooleanTest |-> outBooleanTest,
   TargetEntry |-> outTargetEntry, RangeTblEntry |-> outRangeTblEntry,
   Query |-> outQuery, Value |-> <<"ival">>]

Reads ==
  [Var |-> readVar, Const |-> readConst, Param |-> readParam,
   OpExpr |-> readOpExpr, FuncExpr |-> readFuncExpr, BoolExpr |-> readBoolExpr,
   NullTest |-> readNullTest, BooleanTest |-> readBooleanTest,
   TargetEntry |-> readTargetEntry, RangeTblEntry |-> readRangeTblEntry,
   Query |-> readQuery, Value |-> {"ival"}]

Open == <<"(">>
Close == <<")">>
Nothing == <<"<>">>
Word == <<"word">>
Tag(c) == <<"tag", IF c \in DOMAIN Writes THEN c ELSE "UNKNOWN">>
Label(f) == <<"label", f>>

RECURSIVE outNode(_)
outNode(n) ==
  LET c == n.class
      outString(s) == IF s = <<>> THEN <<Nothing>> ELSE [i \in DOMAIN s |-> Word]
      outNodeField(x) == IF x = Null THEN <<Nothing>> ELSE outNode(x)
      outNodeList(l) == <<Open>> \o FlattenSeq([i \in DOMAIN l |-> outNode(l[i])]) \o <<Close>>
      Out(f) == IF f = "values_lists_count" THEN <<Word>>
                ELSE IF f \in ClassOf(c).nodes THEN outNodeField(n.fields[f])
                ELSE IF f \in ClassOf(c).lists THEN outNodeList(n.fields[f])
                ELSE outString(n.fields[f])
      fields == IF c \in DOMAIN Writes THEN Writes[c] ELSE <<>>
  IN <<Open, Tag(c)>>
       \o FlattenSeq([i \in DOMAIN fields |-> <<Label(fields[i])>> \o Out(fields[i])])
       \o <<Close>>

nodeToString ==
  /\ pc = "tree"
  /\ pc' = "written"
  /\ text' = outNode(Content(heap, root))
  /\ UNCHANGED <<heap, root, copy, touched, restored>>

(***************************************************************************)
(* stringToNode: a reader takes the tokens and a position and returns a    *)
(* value and the position after it.                                        *)
(***************************************************************************)
At(t, p) == IF p <= Len(t) THEN t[p] ELSE Close
IsLabel(x) == x[1] = "label"
IsWord(x) == x \in {Word, Nothing}

(* readToken stops before a parenthesis and then returns an empty text.    *)
readToken(t, p) ==
  IF ~IsWord(At(t, p)) THEN [value |-> Unset, next |-> p]
  ELSE [value |-> IF t[p] = Nothing THEN Unset ELSE t[p], next |-> p + 1]

RECURSIVE SkipToClose(_, _, _)
SkipToClose(t, p, depth) ==
  IF p > Len(t) \/ depth = 0 THEN p
  ELSE SkipToClose(t, p + 1,
         IF t[p] = Open THEN depth + 1 ELSE IF t[p] = Close THEN depth - 1 ELSE depth)

RECURSIVE readNode(_, _), readNodeListValue(_, _, _), readFields(_, _, _)
readNodeFieldValue(t, p) ==
  IF At(t, p) = Nothing THEN [value |-> Null, next |-> p + 1] ELSE readNode(t, p)

(* Mutant: the parenthesis that closes a list is left in the text.         *)
readListUnclosed(t, p, sofar) ==
  IF At(t, p) = Close THEN [value |-> sofar, next |-> p]
  ELSE LET item == readNode(t, p)
       IN readNodeListValue(t, item.next, Append(sofar, item.value))

readNodeListValue(t, p, sofar) ==
  IF At(t, p) = Close THEN [value |-> sofar, next |-> p + 1]
  ELSE IF At(t, p) = Nothing THEN readNodeListValue(t, p + 1, sofar)
  ELSE LET item == readNode(t, p)
       IN readNodeListValue(t, item.next,
            IF item.value = Null THEN sofar ELSE Append(sofar, item.value))

(* The loop over the labels: it ends at the closing parenthesis and at     *)
(* anything that is not a label.                                           *)
readFields(t, p, node) ==
  IF ~IsLabel(At(t, p)) THEN [value |-> node, next |-> p]
  ELSE LET f == t[p][2]
           c == node.class
           known == f \in Reads[c]
           r == IF known /\ f \in ClassOf(c).nodes THEN readNodeFieldValue(t, p + 1)
                ELSE IF known /\ f \in ClassOf(c).lists
                THEN IF At(t, p + 1) = Open THEN readNodeListValue(t, p + 2, <<>>)
                     ELSE [value |-> <<>>, next |-> p + 2]
                ELSE readToken(t, p + 1)
       IN readFields(t, r.next,
            IF known /\ f \in Fields(c) THEN [node EXCEPT !.fields[f] = r.value] ELSE node)

Empty(c) == Whole(<<>>, c, Fields(c))

readNode(t, p) ==
  IF At(t, p) # Open THEN [value |-> Null, next |-> readToken(t, p).next]
  ELSE LET c == t[p + 1][2]
           r == IF c \in DOMAIN Reads THEN readFields(t, p + 2, Empty(c))
                ELSE [value |-> Null, next |-> p + 2]
       IN [value |-> r.value, next |-> SkipToClose(t, r.next, 1)]

stringToNode ==
  /\ pc = "written"
  /\ pc' = "read"
  /\ restored' = readNode(text, 1).value
  /\ UNCHANGED <<heap, root, copy, touched, text>>

-----------------------------------------------------------------------------
(* A tree: a node of any class over leaves; or, to be written, a node that *)
(* can be written, over children of several classes and with some fields   *)
(* empty.                                                                  *)
Subtree(a, c, child, empty) ==
  LET node == a :> Whole(a, c, empty)
      below == [p \in Children(node, a) |-> Whole(p, child, {})]
      leaves == UNION {Children(below, p) : p \in DOMAIN below}
  IN node @@ below @@ [p \in leaves |-> Leaf]

Init ==
  /\ root = <<"root">>
  /\ \/ \E c \in Classes : heap = Subtree(root, c, "Value", {})
     \/ \E c \in DOMAIN Writes, child \in ChildClasses : \E f \in Fields(c) :
          \E empty \in {{f}, {f, "tablesample"}} :
            heap = Subtree(root, c, child, empty)
  /\ copy = Null
  /\ touched = "nothing"
  /\ text = <<>>
  /\ restored = Null
  /\ pc = "tree"

Next ==
  \/ copyObject
  \/ \E f \in Fields(heap[root].class) : Modify(f)
  \/ nodeToString
  \/ stringToNode

Spec == Init /\ [][Next]_vars

-----------------------------------------------------------------------------
(* The pointers that Clone() leaves shared with the original, and the      *)
(* fields that Equals() does not look at.                                  *)
Shared ==
  {<<"Constraint", "pktable">>, <<"JoinExpr", "join_using_alias">>,
   <<"JoinExpr", "alias">>}
Overlooked ==
  {<<"IndexStmt", "reset_default_tblspc">>, <<"CreateDomainStmt", "type_name">>,
   <<"CreateCastStmt", "sourcetype">>, <<"CreateCastStmt", "targettype">>,
   <<"CoalesceExpr", "coalescecollid">>, <<"MinMaxExpr", "inputcollid">>,
   <<"JoinExpr", "join_using_alias">>, <<"JoinExpr", "alias">>}

(* A copy is the owner's alone: whatever is done to it, and whatever       *)
(* class it has, the original stays what it was.  Two nodes are equal()    *)
(* exactly if they say the same: right after the copy, and not after a     *)
(* change of any one field.  (All but the fields listed above.)            *)
CopiesAreFaithful ==
  copy # Null =>
    LET here == <<heap[root].class, touched>>
        same == Content(heap, root) = Content(heap, copy)
    IN /\ pc = "copied" => same /\ equal(heap, root, copy)
       /\ pc = "modified" /\ here \notin Shared => ~same
       /\ here \notin Overlooked => (equal(heap, root, copy) <=> same)

(* The same of every field, as the file's comment says: Clone() copies all *)
(* pointers deeply and Equals() compares all fields.                       *)
AllFieldsCopied == pc = "modified" => ~equal(heap, root, copy)

(* Reading what was written gives the tree back: every field the writer    *)
(* writes and the reader knows, at every depth, whichever others are       *)
(* empty.  Two conditions: no table sample, which the reader cannot skip,  *)
(* and no text of several words.                                           *)
ReadInvertsWrite ==
  pc = "read" /\ heap[root].class \in DOMAIN Writes =>
    LET c == heap[root].class
        sample == c = "RangeTblEntry" /\ heap[root].fields["tablesample"] # Null
        before == Content(heap, root)
    IN ~sample =>
         /\ restored # Null
         /\ restored.class = c
         /\ \A f \in Range(Writes[c]) \cap Reads[c] \cap Fields(c) :
              restored.fields[f] = before.fields[f]
=============================================================================
