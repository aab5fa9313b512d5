------------------------------ MODULE Analysis ------------------------------
(***************************************************************************)
(* What becomes of the parser's trees: parse analysis, and the execution   *)
(* of utility statements.                                                  *)
(*                                                                         *)
(* A receiver is a place in the code that takes a node: to gives, for each *)
(* class it handles, the fields it goes on to read and the receivers of    *)
(* what they hold; kinds does the same for a kind of node; of the other    *)
(* classes it refuses some with an error, and ignores, refuses or trusts   *)
(* the rest, where "undefined" means that it casts without looking.        *)
(*                                                                         *)
(* The model walks from the statements the grammar can produce down to the *)
(* leaves, along every path the code can take.                             *)
(***************************************************************************)
EXTENDS Grammar

Types == INSTANCE NodeTypes

VARIABLES item, use
vars == <<item, use>>

(***************************************************************************)
(* Kinds of receivers                                                      *)
(***************************************************************************)
Checking(to) ==
  [to |-> to, kinds |-> NoFields, refused |-> {},
   other |-> "ignored", null |-> "ignored"]
Refusing(to) == [Checking(to) EXCEPT !.other = "refused"]
Trusting(to) == [Checking(to) EXCEPT !.other = "undefined"]
Required(r) == [r EXCEPT !.null = "refused"]
Dereferencing(r) == [r EXCEPT !.null = "undefined"]
ByKind(r, kinds) == [r EXCEPT !.kinds = kinds]
Barring(r, classes) == [r EXCEPT !.refused = classes]

Taken(classes) == [c \in classes |-> NoFields]
Expression == {"transformExpr"}

(***************************************************************************)
(* Names and types: a list of names is read name by name, or its last one  *)
(***************************************************************************)
Name == Checking(Taken({"String"}))
AnyValue == Checking(Taken({"Integer", "Float", "String"}))

ComputeTypmod == Checking(Taken({"Integer"}))
ExtractTypmodFromNode ==
  Checking([AConst |-> [val |-> {"ComputeTypmod"}], Integer |-> NoFields])
LookupTypeName ==
  Trusting([TypeName |->
    [names |-> {"Name"},
     typmods |-> {"ComputeTypmod", "ExtractTypmodFromNode"}]])
LastOfNames == Dereferencing(Checking(Taken({"String"})))
ExtractTypeNameString ==
  Trusting([TypeName |-> [names |-> {"LastOfNames"}]])
ExtractTypeName == Trusting([TypeName |-> [names |-> {"LastOfNames"}]])

(***************************************************************************)
(* Expressions                                                             *)
(***************************************************************************)
transformColumnRef == [fields |-> {"Name"}]
make_const == [val |-> {"ConstantValue"}]
ConstantValue == Refusing(Taken({"Integer", "Float", "String"}))

Operand == Required(Checking(NoFields))
Binary ==
  [lexpr |-> {"transformExpr", "Operand"},
   rexpr |-> {"transformExpr", "Operand"}, name |-> {"Name"}]
Negation ==
  [lexpr |-> Expression, rexpr |-> {"transformExpr", "Operand"},
   name |-> {"Name"}]
Between ==
  [Binary EXCEPT !.rexpr = {"transformExpr", "Operand", "BetweenBounds"}]
BetweenBounds == Refusing([AArrayExpr |-> [elements |-> Expression]])
transformAExpr ==
  [NOT |-> Negation]
  @@ [k \in {"kBetween", "kNotBetween", "kBetweenSym", "kNotBetweenSym"} |->
        Between]

transformFuncCall ==
  [funcname |-> {"FunctionName"}, args |-> Expression,
   agg_filter |-> Expression, agg_order |-> Expression]
FunctionName == Trusting(Taken({"String"}))

transformBoolExpr == [args |-> Expression]
transformNullTest == [arg |-> Expression]
transformTypeCast == [arg |-> Expression, type_name |-> {"LookupTypeName"}]
transformCaseExpr ==
  [arg |-> Expression, args |-> {"WhenClause"}, defresult |-> Expression]
WhenClause ==
  Checking([CaseWhen |-> [expr |-> Expression, result |-> Expression]])
transformSubLink == [testexpr |-> Expression, subselect |-> {"transformStmt"}]
transformParamRef == NoFields
transformCoalesceExpr == [args |-> Expression]
transformMinMaxExpr == [args |-> Expression]

transformExpr ==
  ByKind(Checking([ColumnRef |-> transformColumnRef, AConst |-> make_const,
                   AExpr |-> Binary, FuncCall |-> transformFuncCall,
                   BoolExpr |-> transformBoolExpr,
                   NullTest |-> transformNullTest,
                   TypeCast |-> transformTypeCast,
                   CaseExpr |-> transformCaseExpr,
                   SubLink |-> transformSubLink,
                   ParamRef |-> transformParamRef,
                   CoalesceExpr |-> transformCoalesceExpr,
                   MinMaxExpr |-> transformMinMaxExpr]),
         transformAExpr)

(***************************************************************************)
(* Clauses                                                                 *)
(***************************************************************************)
FigureColname ==
  Checking([ColumnRef |-> [fields |-> {"Name"}], AConst |-> [val |-> {"Name"}],
            FuncCall |-> [funcname |-> {"Name"}], AExpr |-> [name |-> {"Name"}]])
transformTargetEntry == {"transformExpr", "FigureColname"}
transformTargetList == Checking([ResTarget |-> [val |-> transformTargetEntry]])
transformSortClause == Checking([SortBy |-> [node |-> Expression]])
transformGroupClause ==
  Barring(Checking([SortBy |-> [node |-> Expression]]), {"GroupingSet"})

buildRangeTblEntry == Trusting([RangeVar |-> [alias |-> {"Alias"}]])
Alias == Trusting(Taken({"Alias"}))
transformFromClauseItem ==
  Refusing([RangeVar |-> [alias |-> {"Alias"}],
            RangeSubselect |-> [subquery |-> {"transformStmt"},
                                alias |-> {"Alias"}],
            JoinExpr |-> [larg |-> {"transformFromClauseItem"},
                          rarg |-> {"transformFromClauseItem"},
                          quals |-> Expression]])
transformWithClause == Trusting([WithClause |-> [ctes |-> {"WithElement"}]])
WithElement ==
  Checking([CommonTableExpr |-> [ctequery |-> {"AnalyzeCTE", "transformStmt"}]])
AnalyzeCTE == Refusing(Taken({"SelectStmt"}))

(***************************************************************************)
(* Queries and data modification                                           *)
(***************************************************************************)
transformSelectStmt ==
  [with_clause |-> {"transformWithClause"},
   from_clause |-> {"transformFromClauseItem"},
   target_list |-> {"transformTargetList"},
   where_clause |-> Expression, having_clause |-> Expression,
   sort_clause |-> {"transformSortClause"},
   group_clause |-> {"transformGroupClause"},
   limit_offset |-> Expression, limit_count |-> Expression]
transformSetOperationStmt ==
  [larg |-> {"SetOperand"}, rarg |-> {"SetOperand"},
   sort_clause |-> {"transformSortClause"},
   limit_offset |-> Expression, limit_count |-> Expression]
SetOperand == Trusting([SelectStmt |-> transformSelectStmt])

transformInsertStmt ==
  [on_conflict_clause |-> {"NotSupported"},
   with_clause |-> {"transformWithClause"},
   relation |-> {"buildRangeTblEntry"}, select_stmt |-> {"InsertSource"}]
InsertSource ==
  ByKind(Checking([SelectStmt |-> transformSelectStmt]),
         [values |-> [values_lists |-> transformTargetEntry]])
NotSupported == Refusing(NoFields)
transformUpdateStmt ==
  [returning_list |-> {"NotSupported"}, with_clause |-> {"transformWithClause"},
   relation |-> {"buildRangeTblEntry"},
   from_clause |-> {"transformFromClauseItem"},
   target_list |-> {"transformTargetList"}, where_clause |-> Expression]
transformDeleteStmt ==
  [returning_list |-> {"NotSupported"}, with_clause |-> {"transformWithClause"},
   relation |-> {"buildRangeTblEntry"},
   using_clause |-> {"transformFromClauseItem"}, where_clause |-> Expression]

ProcessColumnDef == Checking([Constraint |-> [raw_expr |-> Expression]])
TableElement ==
  Checking([ColumnDef |-> [type_name |-> {"ExtractTypeNameString"},
                           constraints |-> {"ProcessColumnDef"}],
            Constraint |-> [raw_expr |-> Expression]])
transformCreateStmt == [table_elts |-> {"TableElement"}]
AddedColumn ==
  Checking([ColumnDef |-> [type_name |-> {"ExtractTypeNameString"},
                           constraints |-> {"ColumnOption"}]])
ColumnOption == Checking([DefElem |-> [arg |-> Expression]])
TableCommand == Checking([AlterTableCmd |-> [def |-> {"AddedColumn"}]])
transformAlterTableStmt == [cmds |-> {"TableCommand"}]

transformStmt ==
  ByKind(Checking([SelectStmt |-> transformSelectStmt,
                   InsertStmt |-> transformInsertStmt,
                   UpdateStmt |-> transformUpdateStmt,
                   DeleteStmt |-> transformDeleteStmt,
                   CreateStmt |-> transformCreateStmt,
                   AlterTableStmt |-> transformAlterTableStmt]),
         [setop |-> transformSetOperationStmt])

(***************************************************************************)
(* Utility statements                                                      *)
(***************************************************************************)
ApplyTransactionOptions == Checking([DefElem |-> [arg |-> {"AnyValue"}]])
ProcessTransactionStmt == [options |-> {"ApplyTransactionOptions"}]

Relation == Trusting(Taken({"RangeVar"}))
RequiredRelation == Required(Relation)

DefineRelation ==
  [relation |-> {"Relation"}, table_elts |-> {"DefinedElement"}]
DefinedElement ==
  Checking([ColumnDef |-> [type_name |-> {"ExtractTypeName"},
                           constraints |-> {"DefinedConstraint"}],
            Constraint |-> [keys |-> {"StringNodeValue"},
                            pktable |-> {"Relation"},
                            fk_attrs |-> {"StringNodeValue"}]])
DefinedConstraint ==
  Checking([Constraint |-> [pktable |-> {"Relation"},
                            fk_attrs |-> {"StringNodeValue"}]])
StringNodeValue == Checking(Taken({"String"}))
RemoveRelations == [objects |-> {"Name"}]
AlterTable == [relation |-> {"Relation"}, cmds |-> {"AlteredColumn"}]
AlteredColumn == Checking([AlterTableCmd |-> [def |-> {"AlteringColumn"}]])
AlteringColumn ==
  Checking([ColumnDef |-> [type_name |-> {"ExtractTypeName"}]])
RenameRelation == [relation |-> {"Relation"}]
ExecuteTruncate == [relations |-> {"TruncatedRelation"}]
TruncatedRelation == Checking(Taken({"RangeVar"}))
DefineIndex == [relation |-> {"Relation"}, index_params |-> {"IndexColumn"}]
IndexColumn == Checking(Taken({"IndexElem"}))

DoCopy == [relation |-> {"Relation"}]
ExecVacuum == Checking(Taken({"RangeVar"}))
AnalyzeCommand == Trusting(Taken({"RangeVar"}))
VacuumOrAnalyze == [rels |-> {"ExecVacuum", "AnalyzeCommand"}]
DefineSequence == [sequence |-> {"Relation"}]
DefineView == [view |-> {"Relation"}, query |-> {"transformStmt"}]
CreateTrigger == [relation |-> {"Relation"}]
ExplainQuery ==
  [options |-> {"ParseExplainOptions"}, query |-> {"transformStmt"}]
ParseExplainOptions == Trusting(Taken({"DefElem"}))

CreateFunction ==
  [funcname |-> {"ExtractLastName"}, return_type |-> {"NamedType"},
   parameters |-> {"ExtractArgTypes"}, options |-> {"ParseOptions"}]
ExtractLastName == Checking(Taken({"String"}))
NamedType == Trusting([TypeName |-> [names |-> {"ExtractLastName"}]])
ExtractArgTypes == Checking([TypeName |-> [names |-> {"ExtractLastName"}]])
ParseOptions == Checking([DefElem |-> [arg |-> {"OptionValue"}]])
OptionValue == Checking(Taken({"String", "Integer"}))
CreateLanguage ==
  [plhandler |-> {"ExtractLastName"}, inline_handler |-> {"ExtractLastName"},
   validator |-> {"ExtractLastName"}]
DefineType == [type_name |-> {"AnyValue"}]
DefineDomain == [domainname |-> {"AnyValue"}, type_name |-> {"TypeNameToString"}]
CreateCast == [sourcetype |-> {"TypeNameToString"}, targettype |-> {"TypeNameToString"}]
TypeNameToString == Trusting([TypeName |-> [names |-> {"AnyValue"}]])

Policy == [table |-> {"RequiredRelation"}]
Rule == [relation |-> {"RequiredRelation"}]
CreateForeignTable == [relation |-> {"RequiredRelation"}]

ProcessUtility ==
  Checking([TransactionStmt |-> ProcessTransactionStmt,
            CreateStmt |-> DefineRelation, DropStmt |-> RemoveRelations,
            AlterTableStmt |-> AlterTable, RenameStmt |-> RenameRelation,
            TruncateStmt |-> ExecuteTruncate, IndexStmt |-> DefineIndex,
            CopyStmt |-> DoCopy, VacuumStmt |-> VacuumOrAnalyze,
            CreateSeqStmt |-> DefineSequence, ViewStmt |-> DefineView,
            CreateTrigStmt |-> CreateTrigger, ExplainStmt |-> ExplainQuery,
            CreateFunctionStmt |-> CreateFunction,
            CreateLanguageStmt |-> CreateLanguage,
            CreateTypeStmt |-> DefineType, CreateDomainStmt |-> DefineDomain,
            CreateCastStmt |-> CreateCast,
            CreatePolicyStmt |-> Policy, AlterPolicyStmt |-> Policy,
            DropPolicyStmt |-> Policy,
            CreateForeignTableStmt |-> CreateForeignTable,
            CreateRuleStmt |-> Rule, AlterRuleStmt |-> Rule,
            DropRuleStmt |-> Rule])

exec_simple_query ==
  Trusting([RawStmt |-> [stmt |-> {"transformStmt", "ProcessUtility"}]])

nobody == Checking(NoFields)

Receiver ==
  [nobody |-> nobody, Name |-> Name, AnyValue |-> AnyValue, ComputeTypmod |-> ComputeTypmod,
   ExtractTypmodFromNode |-> ExtractTypmodFromNode,
   LookupTypeName |-> LookupTypeName, LastOfNames |-> LastOfNames,
   ExtractTypeNameString |-> ExtractTypeNameString,
   ExtractTypeName |-> ExtractTypeName, ConstantValue |-> ConstantValue,
   Operand |-> Operand, BetweenBounds |-> BetweenBounds,
   FunctionName |-> FunctionName, WhenClause |-> WhenClause,
   transformExpr |-> transformExpr, FigureColname |-> FigureColname,
   transformTargetList |-> transformTargetList,
   transformSortClause |-> transformSortClause,
   transformGroupClause |-> transformGroupClause,
   buildRangeTblEntry |-> buildRangeTblEntry, Alias |-> Alias,
   transformFromClauseItem |-> transformFromClauseItem,
   transformWithClause |-> transformWithClause, WithElement |-> WithElement,
   AnalyzeCTE |-> AnalyzeCTE, SetOperand |-> SetOperand,
   InsertSource |-> InsertSource, NotSupported |-> NotSupported,
   ProcessColumnDef |-> ProcessColumnDef, TableElement |-> TableElement,
   AddedColumn |-> AddedColumn, ColumnOption |-> ColumnOption,
   TableCommand |-> TableCommand, transformStmt |-> transformStmt,
   ApplyTransactionOptions |-> ApplyTransactionOptions,
   Relation |-> Relation, RequiredRelation |-> RequiredRelation,
   DefinedElement |-> DefinedElement, DefinedConstraint |-> DefinedConstraint,
   StringNodeValue |-> StringNodeValue, AlteredColumn |-> AlteredColumn,
   AlteringColumn |-> AlteringColumn, TruncatedRelation |-> TruncatedRelation,
   IndexColumn |-> IndexColumn, ExecVacuum |-> ExecVacuum,
   AnalyzeCommand |-> AnalyzeCommand,
   ParseExplainOptions |-> ParseExplainOptions,
   ExtractLastName |-> ExtractLastName, NamedType |-> NamedType,
   ExtractArgTypes |-> ExtractArgTypes, ParseOptions |-> ParseOptions,
   OptionValue |-> OptionValue, TypeNameToString |-> TypeNameToString,
   ProcessUtility |-> ProcessUtility,
   exec_simple_query |-> exec_simple_query]

(***************************************************************************)
(* The walk                                                                *)
(***************************************************************************)
Named(x) == "sym" \in DOMAIN x
Absent(x) == x \in {Null, Empty}
Begun(x) == IF Named(x) THEN x ELSE [node |-> x, casts |-> {}, only |-> {}]

(* The fields makeNode leaves alone are null pointers or empty lists. *)
Held(node, field) ==
  IF field \in DOMAIN node.fields
  THEN node.fields[field]
  ELSE IF node.class \in DOMAIN Types!Declared
            /\ field \in Types!Declared[node.class].lists
       THEN {Empty} ELSE {Null}

Init ==
  /\ item = Of("stmtmulti")
  /\ use = "exec_simple_query"

(* A nonterminal stands for one of its alternatives: another nonterminal,  *)
(* or a node, of which a part may be meant and to which fields may be      *)
(* assigned.                                                               *)
ExpandSymbol ==
  /\ Named(item)
  /\ \E r \in Grammar[item.sym] :
       /\ Named(r)
       /\ item' = [r EXCEPT !.casts = @ \cup item.casts,
                            !.only = @ \cup item.only,
                            !.part = item.part,
                            !.fields = item.fields @@ @]
  /\ UNCHANGED use

ExpandNode ==
  /\ Named(item) /\ item.part = ""
  /\ \E r \in Grammar[item.sym] :
       /\ ~Named(r)
       /\ r = Null => "node" \notin item.only
       /\ r = Empty => "elements" \notin item.only
       /\ item' = [node |-> IF Absent(r) THEN r
                            ELSE [r EXCEPT !.fields = item.fields @@ @],
                   casts |-> item.casts, only |-> item.only]
  /\ UNCHANGED use

ExpandPart ==
  /\ Named(item) /\ item.part # ""
  /\ \E r \in Grammar[item.sym] :
       /\ ~Named(r)
       /\ \E x \in Held(r, item.part) : item' = Begun(x)
  /\ UNCHANGED use

Handles(r, node) ==
  node.kind \in DOMAIN r.kinds \/ node.class \in DOMAIN r.to
Handler(r, node) ==
  IF node.kind \in DOMAIN r.kinds THEN r.kinds[node.kind]
                                  ELSE r.to[node.class]
Outcome(r, node) ==
  CASE node = Empty -> "ignored"
    [] node = Null -> r.null
    [] Handles(r, node) -> "taken"
    [] node.class \in r.refused -> "refused"
    [] OTHER -> r.other

Descend ==
  /\ ~Named(item)
  /\ Outcome(Receiver[use], item.node) = "taken"
  /\ LET reads == Handler(Receiver[use], item.node)
     IN \E f \in DOMAIN reads : \E x \in Held(item.node, f) :
          /\ item' = Begun(x)
          /\ use' \in reads[f]

(* The parser builds the rest of the tree as well, read or not. *)
DescendUnread ==
  /\ ~Named(item)
  /\ \E f \in DOMAIN item.node.fields :
       \E x \in item.node.fields[f] : item' = Begun(x)
  /\ use' = "nobody"

Next ==
  ExpandSymbol \/ ExpandNode \/ ExpandPart \/ Descend \/ DescendUnread
Spec == Init /\ [][Next]_vars

(***************************************************************************)
(* Correctness                                                             *)
(***************************************************************************)
(* Every node arrives as what it is taken for: the actions of gram.yy cast *)
(* the results of other nonterminals, assign to their fields and take      *)
(* first elements, and analyze.cpp, the parse_*.cpp files, utility.cpp and *)
(* the commands cast what they find in the fields, mostly after a look at  *)
(* the tag, sometimes without; no tree the grammar can build makes one of  *)
(* these casts wrong, or dereferences a null. The names of functions are   *)
(* left out: func_name admits a subscript or a star, which                 *)
(* ParseFuncOrColumn takes for a name.                                     *)
Fits ==
  ~Named(item) =>
    /\ item.casts \subseteq {item.node.class} \/ Absent(item.node)
    /\ "written" \in item.only => ~Absent(item.node)
    /\ "first" \in item.only => item.node # Empty
    /\ use # "FunctionName" =>
         Outcome(Receiver[use], item.node) # "undefined"

(* What transformAExpr is given for a BETWEEN is what its comment says:    *)
(* the right operand is an array expression of the two bounds.             *)
BetweenHasBounds ==
  ~Named(item) /\ use = "BetweenBounds" =>
    Outcome(Receiver[use], item.node) = "taken"
=============================================================================
