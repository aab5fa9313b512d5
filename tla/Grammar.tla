------------------------------ MODULE Grammar ------------------------------
(***************************************************************************)
(* What the parser hands to the rest of the server: the parse trees that   *)
(* the actions of gram.yy build.                                           *)
(*                                                                         *)
(* Each nonterminal that carries nodes is the set of the results of its    *)
(* alternatives. A result is a node, with what its fields may hold, or the *)
(* result of another nonterminal. A list stands for the set of its         *)
(* elements, and Empty for the list without any. Tokens, names, flags and  *)
(* positions are left out, except the kind of an expression and the name   *)
(* of an option, which later code looks at. A field an action does not     *)
(* assign is null or empty, as makeNode left it. Nonterminals whose result *)
(* every action drops do not appear.                                       *)
(***************************************************************************)
EXTENDS TLC

NoFields == << >>
Node(class, fields) == [class |-> class, kind |-> "", fields |-> fields]
Leaf(class) == Node(class, NoFields)
Null == Leaf("Null")
Empty == Leaf("Empty")

Const(value) == Node("AConst", [val |-> {Leaf(value)}])
Expr(kind, fields) == [class |-> "AExpr", kind |-> kind, fields |-> fields]
Exprs(kinds, fields) == {Expr(k, fields) : k \in kinds}
Option(name, arg) ==
  [class |-> "DefElem", kind |-> name, fields |-> [arg |-> arg]]
Options(names, arg) == {Option(n, arg) : n \in names}
SetOperation(fields) ==
  [class |-> "SelectStmt", kind |-> "setop", fields |-> fields]
Values(rows) ==
  [class |-> "SelectStmt", kind |-> "values",
   fields |-> [values_lists |-> rows]]

(***************************************************************************)
(* The result of another nonterminal: cast to a class, used only if it is  *)
(* not null, known to be a list with elements, its first element, a part   *)
(* of a struct, or a node whose fields the action goes on to assign.       *)
(***************************************************************************)
Symbol(s) ==
  [sym |-> s, casts |-> {}, only |-> {}, part |-> "", fields |-> NoFields]
Of(s) == Symbol(s)
Each(ss) == {Symbol(s) : s \in ss}
As(c, s) == [Symbol(s) EXCEPT !.casts = {c}]
NotNull(s) == [Symbol(s) EXCEPT !.only = {"node"}]
More(s) == [Symbol(s) EXCEPT !.only = {"elements"}]
First(s) == [Symbol(s) EXCEPT !.only = {"first"}]
Part(s, f) == [Symbol(s) EXCEPT !.part = f]
With(s, c, fields) ==
  [Symbol(s) EXCEPT !.casts = {c}, !.only = {"written"}, !.fields = fields]

StatementRules ==
  [stmtmulti |->
     {Empty, More("stmtmulti"), Node("RawStmt", [stmt |-> {NotNull("stmt")}])},
   stmt |->
     Each({"AlterDatabaseStmt", "AlterFunctionStmt", "AlterOwnerStmt",
           "AlterPolicyStmt", "AlterPublicationStmt", "AlterRoleStmt",
           "AlterRuleStmt", "AlterSeqStmt", "AlterServerStmt",
           "AlterSubscriptionStmt", "AlterSystemStmt", "AlterTableStmt",
           "CallStmt", "CheckPointStmt", "ClusterStmt", "CommentStmt",
           "CopyStmt", "CreateAsStmt", "CreateCastStmt", "CreateDomainStmt",
           "CreateExtensionStmt", "CreateForeignTableStmt",
           "CreateFunctionStmt", "CreateLanguageStmt", "CreatePolicyStmt",
           "CreatePublicationStmt", "CreateRoleStmt", "CreateRuleStmt",
           "CreateSchemaStmt", "CreateSeqStmt", "CreateServerStmt",
           "CreateStmt", "CreateSubscriptionStmt", "CreateTableSpaceStmt",
           "CreateTrigStmt", "CreateTypeStmt", "CreatedbStmt", "DeallocateStmt",
           "DeleteStmt", "DiscardStmt", "DoStmt", "DropExtensionStmt",
           "DropLanguageStmt", "DropPolicyStmt", "DropPublicationStmt",
           "DropRoleStmt", "DropRuleStmt", "DropServerStmt", "DropStmt",
           "DropSubscriptionStmt", "DropTableSpaceStmt", "DropdbStmt",
           "ExecuteStmt", "ExplainStmt", "GrantStmt", "ImportForeignSchemaStmt",
           "IndexStmt", "InsertStmt", "ListenStmt", "LoadStmt", "LockStmt",
           "NotifyStmt", "PrepareStmt", "RefreshMatViewStmt", "ReindexStmt",
           "RenameStmt", "RevokeStmt", "SecLabelStmt", "SelectStmt",
           "TransactionStmt", "TruncateStmt", "UnlistenStmt", "UpdateStmt",
           "VacuumStmt", "VariableResetStmt", "VariableSetStmt", "ViewStmt"})
     \cup {Null}]
TypeAndCastRules ==
  [CreateTypeStmt |->
     {Node("CreateTypeStmt", [type_name |-> {Of("any_name")}])},
   CreateDomainStmt |->
     {Node("CreateDomainStmt",
           [domainname |-> {Of("any_name")},
            type_name |-> {As("TypeName", "Typename")}])},
   CreateCastStmt |->
     {Node("CreateCastStmt",
           [func |-> {Of("function_name")},
            sourcetype |-> {As("TypeName", "Typename")},
            targettype |-> {As("TypeName", "Typename")}]),
      Node("CreateCastStmt",
           [sourcetype |-> {As("TypeName", "Typename")},
            targettype |-> {As("TypeName", "Typename")}])}]
PolicyRules ==
  [opt_role_list_for_policy |-> {Empty, Of("role_list")},
   role_list |-> {More("role_list"), Of("RoleSpec")},
   CreatePolicyStmt |->
     {Node("CreatePolicyStmt",
           [qual |-> {Of("opt_policy_qual_clause")},
            roles |-> {Of("opt_role_list_for_policy")},
            table |-> {As("RangeVar", "qualified_name")},
            with_check |-> {Of("opt_policy_check_clause")}])},
   AlterPolicyStmt |->
     {Node("AlterPolicyStmt",
           [qual |-> {Of("opt_policy_qual_clause")},
            roles |-> {Of("opt_role_list_for_policy")},
            table |-> {As("RangeVar", "qualified_name")},
            with_check |-> {Of("opt_policy_check_clause")}])},
   DropPolicyStmt |->
     {Node("DropPolicyStmt", [table |-> {As("RangeVar", "qualified_name")}])},
   opt_policy_qual_clause |-> {Null, Of("a_expr")},
   opt_policy_check_clause |-> {Null, Of("a_expr")}]
PublicationRules ==
  [opt_publication_tables |-> {Empty, Of("qualified_name_list")},
   CreatePublicationStmt |->
     {Node("CreatePublicationStmt",
           [options |-> {Of("opt_with_clause_def_list")},
            publications |-> {Empty}]),
      Node("CreatePublicationStmt",
           [options |-> {Of("opt_with_clause_def_list")},
            publications |-> {Of("opt_publication_tables")}])},
   opt_with_clause_def_list |-> {Empty, Of("reloption_list")},
   AlterPublicationStmt |->
     {Node("AlterPublicationStmt", [options |-> {Of("reloption_list")}]),
      Node("AlterPublicationStmt", [tables |-> {Of("qualified_name_list")}])},
   DropPublicationStmt |-> {Leaf("DropPublicationStmt")}]
SubscriptionRules ==
  [CreateSubscriptionStmt |->
     {Node("CreateSubscriptionStmt",
           [options |-> {Of("opt_with_clause_def_list")}])},
   AlterSubscriptionStmt |->
     {Leaf("AlterSubscriptionStmt"),
      Node("AlterSubscriptionStmt",
           [options |-> {Of("opt_with_clause_def_list")}]),
      Node("AlterSubscriptionStmt", [options |-> {Of("reloption_list")}])},
   DropSubscriptionStmt |-> {Leaf("DropSubscriptionStmt")}]
ServerRules ==
  [CreateForeignTableStmt |->
     {Node("CreateForeignTableStmt",
           [options |-> {Of("opt_server_options")},
            relation |-> {As("RangeVar", "qualified_name")},
            tableElts |-> {Of("opt_table_element_list")}])},
   opt_server_options |-> {Empty, Of("reloption_list")},
   CreateServerStmt |->
     {Node("CreateServerStmt",
           [options |-> {Of("opt_server_options")},
            owner |-> {As("RoleSpec", "RoleSpec")}]),
      Node("CreateServerStmt", [options |-> {Of("opt_server_options")}])},
   AlterServerStmt |->
     {Node("AlterServerStmt", [options |-> {Of("opt_server_options")}]),
      Node("AlterServerStmt", [owner |-> {As("RoleSpec", "RoleSpec")}])},
   DropServerStmt |-> {Leaf("DropServerStmt")}]
RewriteRules ==
  [ImportForeignSchemaStmt |->
     {Node("ImportForeignSchemaStmt",
           [options |-> {Of("opt_server_options")},
            table_list |-> {Of("qualified_name_list")}]),
      Node("ImportForeignSchemaStmt", [options |-> {Of("opt_server_options")}])},
   CreateRuleStmt |->
     {Node("CreateRuleStmt",
           [actions |-> {Of("SelectStmt")},
            relation |-> {As("RangeVar", "qualified_name")},
            where_clause |-> {Of("opt_where_clause")}]),
      Node("CreateRuleStmt",
           [relation |-> {As("RangeVar", "qualified_name")},
            where_clause |-> {Of("opt_where_clause")}])},
   AlterRuleStmt |->
     {Node("AlterRuleStmt",
           [action |-> {Of("SelectStmt")},
            relation |-> {As("RangeVar", "qualified_name")}]),
      Node("AlterRuleStmt", [relation |-> {As("RangeVar", "qualified_name")}])},
   DropRuleStmt |->
     {Node("DropRuleStmt", [relation |-> {As("RangeVar", "qualified_name")}])}]
SystemRules ==
  [SecLabelStmt |-> {Node("SecLabelStmt", [object |-> {Leaf("String")}])},
   AlterSystemStmt |->
     {Leaf("AlterSystemStmt"),
      Node("AlterSystemStmt", [args |-> {Of("def_arg")}])}]
SelectRules ==
  [SelectStmt |->
     {Of("select_no_parens"), Of("select_with_parens"),
      With("select_no_parens", "SelectStmt",
           [with_clause |-> {As("WithClause", "with_clause")}])},
   select_with_parens |-> {Of("select_no_parens"), Of("select_with_parens")},
   select_no_parens |->
     {With("simple_select", "SelectStmt",
           [limit_count |-> {Part("opt_select_limit", "limit_count")},
            limit_offset |-> {Part("opt_select_limit", "limit_offset")},
            sort_clause |-> {Of("opt_sort_clause")},
            with_clause |-> {As("WithClause", "opt_with_clause")}])},
   select_clause |-> {Of("select_with_parens"), Of("simple_select")},
   simple_select |->
     {Node("SelectStmt",
           [distinct_clause |-> {Of("distinct_clause")},
            from_clause |-> {Of("opt_from_clause")},
            group_clause |-> {Part("opt_group_clause", "group_clause")},
            having_clause |-> {Of("opt_having_clause")},
            into_clause |-> {As("IntoClause", "into_clause")},
            target_list |-> {Of("target_list")},
            where_clause |-> {Of("opt_where_clause")},
            window_clause |-> {Of("opt_window_clause")}]),
      Node("SelectStmt",
           [distinct_clause |-> {Of("opt_all_clause")},
            from_clause |-> {Of("opt_from_clause")},
            group_clause |-> {Part("opt_group_clause", "group_clause")},
            having_clause |-> {Of("opt_having_clause")},
            into_clause |-> {As("IntoClause", "into_clause")},
            target_list |-> {Of("opt_target_list")},
            where_clause |-> {Of("opt_where_clause")},
            window_clause |-> {Of("opt_window_clause")}]),
      Of("values_clause"),
      SetOperation([larg |-> {As("SelectStmt", "select_clause")},
                    rarg |-> {As("SelectStmt", "select_clause")}])},
   opt_target_list |-> {Empty, Of("target_list")},
   values_clause |->
     {Values({Of("expr_list")}),
      With("values_clause", "SelectStmt", [values_lists |-> {Of("expr_list")}])}]
WithRules ==
  [with_clause |-> {Node("WithClause", [ctes |-> {Of("cte_list")}])},
   opt_with_clause |-> {Null, Of("with_clause")},
   cte_list |-> {More("cte_list"), Of("common_table_expr")},
   common_table_expr |->
     {Node("CommonTableExpr",
           [aliascolnames |-> {Of("opt_col_names")},
            ctequery |-> {Of("select_no_parens")}]),
      Node("CommonTableExpr", [ctequery |-> {Of("select_no_parens")}]),
      Node("CommonTableExpr", [ctequery |-> {Of("select_with_parens")}])},
   into_clause |->
     {Node("IntoClause",
           [col_names |-> {Of("opt_col_names")},
            options |-> {Of("opt_reloptions")},
            rel |-> {As("RangeVar", "OptTempTableName")}]),
      Null},
   OptTempTableName |-> {Leaf("RangeVar")},
   opt_col_names |-> {Empty, Of("columnList")},
   distinct_clause |-> {Null, Of("expr_list")},
   opt_all_clause |-> {Empty}]
SortRules ==
  [sort_clause |-> {Of("sortby_list")},
   opt_sort_clause |-> {Empty, Of("sort_clause")},
   sortby_list |-> {More("sortby_list"), Of("sortby")},
   sortby |->
     {Node("SortBy", [node |-> {Of("a_expr")}, use_op |-> {Of("qual_all_Op")}]),
      Node("SortBy", [node |-> {Of("a_expr")}])},
   qual_all_Op |-> {Leaf("String"), Of("any_operator")},
   any_operator |-> {Leaf("String"), More("any_operator")}]
LimitRules ==
  [select_limit |->
     {Node("SelectLimit",
           [limit_count |-> {Of("limit_clause")},
            limit_offset |-> {Of("offset_clause")}]),
      Node("SelectLimit", [limit_count |-> {Of("limit_clause")}]),
      Node("SelectLimit", [limit_offset |-> {Of("offset_clause")}])},
   opt_select_limit |-> {Leaf("SelectLimit"), Of("select_limit")},
   limit_clause |->
     {Of("opt_select_fetch_first_value"), Of("select_limit_value")},
   offset_clause |-> {Of("select_limit_value")},
   select_limit_value |-> {Leaf("AConst"), Of("a_expr")},
   opt_select_fetch_first_value |-> {Const("Integer"), Null, Of("a_expr")}]
GroupRules ==
  [group_clause |->
     {Node("GroupClause", [group_clause |-> {Of("group_by_list")}])},
   opt_group_clause |-> {Leaf("GroupClause"), Of("group_clause")},
   group_by_list |-> {More("group_by_list"), Of("group_by_item")},
   group_by_item |->
     {Leaf("GroupingSet"),
      Node("GroupingSet", [content |-> {Of("expr_list")}]),
      Node("GroupingSet", [content |-> {Of("group_by_list")}]),
      Node("SortBy", [node |-> {Of("a_expr")}])},
   having_clause |-> {Of("a_expr")},
   opt_having_clause |-> {Null, Of("having_clause")}]
FromRules ==
  [from_clause |-> {Of("from_list")},
   opt_from_clause |-> {Empty, Of("from_clause")},
   from_list |-> {More("from_list"), Of("table_ref")},
   table_ref |->
     {Node("JoinExpr",
           [larg |-> {With("relation_expr", "RangeVar",
                           [alias |-> {Of("opt_alias_clause")}])},
            quals |-> {Of("join_qual")}, rarg |-> {Of("table_ref")}]),
      Node("JoinExpr",
           [larg |-> {With("relation_expr", "RangeVar",
                           [alias |-> {Of("opt_alias_clause")}])},
            rarg |-> {Of("table_ref")}]),
      Node("RangeSubselect",
           [alias |-> {Of("alias_clause")}, subquery |-> {Of("select_clause")}]),
      With("relation_expr", "RangeVar", [alias |-> {Of("alias_clause")}]),
      With("relation_expr", "RangeVar", [alias |-> {Of("opt_alias_clause")}])},
   alias_clause |->
     {Node("Alias", [colnames |-> {Empty}]),
      Node("Alias", [colnames |-> {Of("columnList")}])},
   opt_alias_clause |-> {Null, Of("alias_clause")},
   join_qual |-> {Null, Of("a_expr")}]
WindowRules ==
  [window_clause |-> {Of("window_definition_list")},
   opt_window_clause |-> {Empty, Of("window_clause")},
   window_definition_list |->
     {More("window_definition_list"), Of("window_definition")},
   window_definition |-> {With("window_specification", "WindowDef", NoFields)},
   window_specification |->
     {Node("WindowDef",
           [order_clause |-> {Of("opt_sort_clause")},
            partition_clause |-> {Of("opt_partition_clause")}])},
   opt_partition_clause |-> {Empty, Of("expr_list")},
   over_clause |-> {Leaf("WindowDef"), Of("window_specification")},
   opt_over_clause |-> {Null, Of("over_clause")}]
InsertRules ==
  [InsertStmt |->
     {Node("InsertStmt",
           [cols |-> {Part("insert_rest", "cols")},
            on_conflict_clause |-> {As("OnConflictClause", "opt_on_conflict")},
            relation |-> {As("RangeVar", "insert_target")},
            returning_list |-> {Of("opt_returning_clause")},
            select_stmt |-> {Part("insert_rest", "select_stmt")},
            with_clause |-> {As("WithClause", "opt_with_clause")}])},
   insert_target |-> {Of("qualified_name")},
   insert_rest |->
     {Leaf("InsertStmt"),
      Node("InsertStmt",
           [cols |-> {Of("insert_column_list")},
            select_stmt |-> {Of("SelectStmt")}]),
      Node("InsertStmt", [select_stmt |-> {Of("SelectStmt")}])},
   insert_column_list |->
     {More("insert_column_list"), Of("insert_column_item")},
   insert_column_item |->
     {Node("ResTarget", [indirection |-> {Of("opt_indirection")}])},
   opt_indirection |-> {Empty, More("opt_indirection"), Of("indirection_el")},
   opt_on_conflict |-> {Null, Of("opt_conf_expr")},
   opt_conf_expr |->
     {Leaf("OnConflictClause"),
      Node("OnConflictClause",
           [infer |-> {Node("InferClause",
                            [index_elems |-> {Of("index_params")}])},
            target_list |-> {Of("set_clause_list")},
            where_clause |-> {Of("opt_where_clause")}]),
      Node("OnConflictClause",
           [infer |-> {Node("InferClause",
                            [index_elems |-> {Of("index_params")}])}]),
      Node("OnConflictClause",
           [target_list |-> {Of("set_clause_list")},
            where_clause |-> {Of("opt_where_clause")}])},
   returning_clause |-> {Of("target_list")},
   opt_returning_clause |-> {Empty, Of("returning_clause")}]
UpdateRules ==
  [DeleteStmt |->
     {Node("DeleteStmt",
           [relation |-> {As("RangeVar", "relation_expr_opt_alias")},
            returning_list |-> {Of("opt_returning_clause")},
            using_clause |-> {Of("opt_using_clause")},
            where_clause |-> {Of("opt_where_or_current_clause")},
            with_clause |-> {As("WithClause", "opt_with_clause")}])},
   opt_using_clause |-> {Empty, Of("using_clause_delete")},
   using_clause_delete |-> {Of("from_list")},
   UpdateStmt |->
     {Node("UpdateStmt",
           [from_clause |-> {Of("opt_from_clause")},
            relation |-> {As("RangeVar", "relation_expr_opt_alias")},
            returning_list |-> {Of("opt_returning_clause")},
            target_list |-> {Of("set_clause_list")},
            where_clause |-> {Of("opt_where_or_current_clause")},
            with_clause |-> {As("WithClause", "opt_with_clause")}])},
   set_clause_list |-> {More("set_clause_list"), Of("set_clause")},
   set_clause |->
     {Null,
      With("set_target", "ResTarget", [val |-> {Of("a_expr")}]),
      With("set_target_list", "ResTarget",
           [val |-> {Node("MultiAssignRef", [source |-> {Of("a_expr")}])}])},
   set_target |->
     {Node("ResTarget", [indirection |-> {Of("opt_indirection")}])},
   set_target_list |-> {More("set_target_list"), Of("set_target")},
   where_clause |-> {Of("a_expr")},
   opt_where_clause |-> {Null, Of("where_clause")},
   where_or_current_clause |-> {Null, Of("a_expr")},
   opt_where_or_current_clause |-> {Null, Of("where_or_current_clause")}]
RelationRules ==
  [relation_expr |->
     {Of("qualified_name"), With("qualified_name", "RangeVar", NoFields)},
   relation_expr_opt_alias |->
     {Of("relation_expr"),
      With("relation_expr", "RangeVar",
           [alias |-> {Node("Alias", [colnames |-> {Empty}])}])},
   qualified_name |-> {Leaf("RangeVar")},
   qualified_name_list |-> {More("qualified_name_list"), Of("qualified_name")}]
TableRules ==
  [CreateStmt |->
     {Node("CreateStmt",
           [inh_relations |-> {Of("opt_inherits")},
            options |-> {Of("opt_with")},
            partspec |-> {As("PartitionSpec", "opt_partition_spec")},
            relation |-> {As("RangeVar", "qualified_name")},
            table_elts |-> {Of("opt_table_element_list")}])},
   opt_table_element_list |-> {Empty, Of("table_element_list")},
   table_element_list |-> {More("table_element_list"), Of("table_element")},
   table_element |-> {Of("TableConstraint"), Of("columnDef")},
   columnDef |->
     {Node("ColumnDef",
           [constraints |-> {Of("opt_col_qual_list")},
            type_name |-> {As("TypeName", "Typename")}])},
   opt_col_qual_list |-> {Empty, Of("ColQualList")},
   ColQualList |-> {More("ColQualList"), Of("ColConstraintElem")}]
ConstraintRules ==
  [ColConstraintElem |->
     {Of("ColConstraint"), With("ColConstraint", "Constraint", NoFields)},
   ColConstraint |->
     {Leaf("Constraint"),
      Node("Constraint",
           [fk_attrs |-> {Of("opt_column_list")},
            pktable |-> {As("RangeVar", "qualified_name")}]),
      Node("Constraint", [raw_expr |-> {Of("a_expr")}]),
      Node("Constraint", [raw_expr |-> {Of("b_expr")}])},
   TableConstraint |->
     {Of("ConstraintElem"), With("ConstraintElem", "Constraint", NoFields)},
   ConstraintElem |->
     {Node("Constraint",
           [fk_attrs |-> {Of("opt_column_list")}, keys |-> {Leaf("String")},
            pktable |-> {As("RangeVar", "qualified_name")}]),
      Node("Constraint", [keys |-> {Leaf("String")}]),
      Node("Constraint", [raw_expr |-> {Of("a_expr")}])}]
OptionRules ==
  [opt_inherits |-> {Empty, Of("qualified_name_list")},
   opt_column_list |-> {Empty, Of("columnList")},
   columnList |-> {More("columnList"), Of("columnElem")},
   columnElem |-> {Leaf("String")},
   OptWith |-> {Empty, Of("reloptions")},
   opt_with |-> {Empty, Of("OptWith")},
   reloptions |-> {Empty, Of("reloption_list")},
   reloption_list |-> {More("reloption_list"), Of("reloption_elem")},
   reloption_elem |-> {Of("def_arg"), Option("label", {Of("def_arg")})},
   def_arg |-> {Const("Integer"), Const("String"), Of("func_type")},
   func_type |-> {Of("Typename")}]
PartitionRules ==
  [opt_partition_spec |-> {Null, Of("PartitionSpec")},
   PartitionSpec |->
     {Node("PartitionSpec", [part_params |-> {Of("part_params")}])},
   part_params |-> {More("part_params"), Of("part_elem")},
   part_elem |->
     {Leaf("PartitionElem"),
      Node("PartitionElem", [expr |-> {Of("a_expr")}]),
      Node("PartitionElem", [expr |-> {Of("func_expr_windowless")}])},
   index_params |-> {More("index_params"), Of("index_elem")},
   index_elem |->
     {Leaf("IndexElem"),
      Node("IndexElem", [expr |-> {Of("a_expr")}]),
      Node("IndexElem", [expr |-> {Of("func_expr_windowless")}])},
   func_expr_windowless |->
     {Of("func_application"), Of("func_expr_common_subexpr")}]
DropRules ==
  [DropStmt |-> {Node("DropStmt", [objects |-> {Of("any_name_list")}])}]
TransactionRules ==
  [TransactionStmt |->
     {Leaf("TransactionStmt"),
      Node("TransactionStmt", [options |-> {Of("opt_transaction_mode_list")}])},
   opt_transaction_mode_list |->
     {Empty, More("opt_transaction_mode_list"), Of("opt_transaction_mode_item")},
   opt_transaction_mode_item |->
     {Option("transaction_isolation", {Leaf("String")})}
     \cup Options({"transaction_deferrable", "transaction_read_only"},
                  {Const("Integer")})]
ExplainRules ==
  [TruncateStmt |->
     {Node("TruncateStmt", [relations |-> {Of("relation_expr_list")}])},
   relation_expr_list |-> {More("relation_expr_list"), Of("relation_expr")},
   ExplainStmt |->
     {Node("ExplainStmt",
           [options |-> {Of("analyze_options")},
            query |-> {Of("opt_explain_stmt")}]),
      Node("ExplainStmt", [query |-> {Of("opt_explain_stmt")}])},
   opt_explain_stmt |->
     Each({"CreateAsStmt", "DeleteStmt", "InsertStmt", "SelectStmt", "UpdateStmt"}),
   analyze_options |-> {More("analyze_options"), Of("analyze_option")},
   analyze_option |->
     {Option("format", {Leaf("String")})}
     \cup Options({"analyze", "buffers", "costs", "settings", "summary",
                   "timing", "verbose", "wal"},
                  {Null})]
CommentRules ==
  [CommentStmt |->
     {Node("CommentStmt", [object |-> {Leaf("String")}]),
      Node("CommentStmt", [object |-> {Of("any_name")}]),
      Node("CommentStmt", [object |-> {Of("function_name")}])},
   function_name |-> {Leaf("String")}]
IndexRules ==
  [IndexStmt |->
     {Node("IndexStmt",
           [index_params |-> {Of("index_params")},
            options |-> {Of("opt_reloptions")},
            relation |-> {As("RangeVar", "qualified_name")},
            where_clause |-> {Of("opt_where_clause")}])},
   opt_reloptions |-> {Empty, Of("reloptions")},
   ViewStmt |->
     {Node("ViewStmt",
           [aliases |-> {Of("opt_column_list")},
            options |-> {Of("opt_reloptions")}, query |-> {Of("SelectStmt")},
            view |-> {As("RangeVar", "qualified_name")}])}]
CreateAsRules ==
  [CreateAsStmt |->
     {Node("CreateAsStmt",
           [into |-> {As("IntoClause", "create_as_target")},
            query |-> {Of("SelectStmt")}])},
   create_as_target |->
     {Node("IntoClause",
           [col_names |-> {Of("opt_column_list")},
            rel |-> {As("RangeVar", "qualified_name")}])},
   CreateSchemaStmt |->
     {Node("CreateSchemaStmt",
           [authrole |-> {As("RoleSpec", "RoleSpec")},
            schema_elts |-> {Of("opt_schema_elements")}]),
      Node("CreateSchemaStmt", [schema_elts |-> {Of("opt_schema_elements")}])},
   opt_schema_elements |-> {Empty, Of("schema_stmts")},
   schema_stmts |-> {More("schema_stmts"), Of("schema_stmt")},
   schema_stmt |->
     Each({"CreateSeqStmt", "CreateStmt", "CreateTrigStmt", "GrantStmt",
           "IndexStmt", "ViewStmt"})]
AlterTableRules ==
  [AlterTableStmt |->
     {Node("AlterTableStmt",
           [cmds |-> {Of("alter_table_cmds")},
            relation |-> {As("RangeVar", "qualified_name")}]),
      Node("AlterTableStmt",
           [cmds |-> {Of("alter_table_cmds")},
            relation |-> {As("RangeVar", "relation_expr")}])},
   alter_table_cmds |-> {More("alter_table_cmds"), Of("alter_table_cmd")}]
AlterTableCmdRules ==
  [alter_table_cmd |->
     {Leaf("AlterTableCmd"),
      Node("AlterTableCmd", [def |-> {Of("Typename")}]),
      Node("AlterTableCmd", [def |-> {Of("a_expr")}]),
      Node("AlterTableCmd", [def |-> {Of("columnDef")}]),
      Node("AlterTableCmd", [newowner |-> {As("RoleSpec", "RoleSpec")}])}]
VacuumRules ==
  [VacuumStmt |->
     {Node("VacuumStmt",
           [options |-> {Of("opt_analyze_options")},
            rels |-> {Of("vacuum_relation_list")}]),
      Node("VacuumStmt", [options |-> {Of("opt_analyze_options")}])},
   opt_analyze_options |-> {Empty, Of("analyze_options")},
   vacuum_relation_list |->
     {More("vacuum_relation_list"), Of("vacuum_relation")},
   vacuum_relation |-> {With("qualified_name", "RangeVar", NoFields)},
   name_list |-> {Leaf("String"), More("name_list")}]
VariableRules ==
  [VariableSetStmt |-> {With("set_rest", "VariableSetStmt", NoFields)},
   VariableResetStmt |-> {Leaf("VariableSetStmt")},
   set_rest |->
     {Leaf("VariableSetStmt"),
      Node("VariableSetStmt", [args |-> {Of("var_list")}]),
      Node("VariableSetStmt", [args |-> {Of("zone_value")}])},
   var_list |-> {More("var_list"), Of("var_value")},
   var_value |-> {Const("String"), Of("a_expr")},
   zone_value |-> {Const("String"), Null, Of("interval_qualifier")}]
SessionRules ==
  [ClusterStmt |->
     {Leaf("ClusterStmt"),
      Node("ClusterStmt", [relation |-> {As("RangeVar", "qualified_name")}])},
   LockStmt |-> {Node("LockStmt", [relations |-> {Of("relation_expr_list")}])},
   DiscardStmt |-> {Leaf("DiscardStmt")}]
NotifyRules ==
  [NotifyStmt |-> {Leaf("NotifyStmt")},
   ListenStmt |-> {Leaf("ListenStmt")},
   UnlistenStmt |-> {Leaf("UnlistenStmt")},
   CheckPointStmt |-> {Leaf("CheckPointStmt")},
   ReindexStmt |-> {Leaf("ReindexStmt")}]
PrepareRules ==
  [DeallocateStmt |-> {Leaf("DeallocateStmt")},
   PrepareStmt |->
     {Node("PrepareStmt",
           [argtypes |-> {Of("opt_preparable_type")},
            query |-> {Of("DeleteStmt")}]),
      Node("PrepareStmt",
           [argtypes |-> {Of("opt_preparable_type")},
            query |-> {Of("InsertStmt")}]),
      Node("PrepareStmt",
           [argtypes |-> {Of("opt_preparable_type")},
            query |-> {Of("SelectStmt")}]),
      Node("PrepareStmt",
           [argtypes |-> {Of("opt_preparable_type")},
            query |-> {Of("UpdateStmt")}])},
   opt_preparable_type |-> {Empty, Of("preparable_type_list")},
   preparable_type_list |-> {More("preparable_type_list"), Of("Typename")},
   ExecuteStmt |->
     {Node("ExecuteStmt", [params |-> {Of("opt_execute_param_clause")}])},
   opt_execute_param_clause |-> {Empty, Of("expr_list")},
   LoadStmt |-> {Leaf("LoadStmt")},
   CallStmt |-> {Node("CallStmt", [funccall |-> {Of("func_application")}])}]
RenameRules ==
  [RenameStmt |->
     {Node("RenameStmt", [object |-> {Leaf("String")}]),
      Node("RenameStmt", [relation |-> {As("RangeVar", "qualified_name")}]),
      Node("RenameStmt", [relation |-> {As("RangeVar", "relation_expr")}])},
   AlterOwnerStmt |->
     {Node("AlterOwnerStmt",
           [newowner |-> {As("RoleSpec", "RoleSpec")},
            object |-> {Leaf("String")}]),
      Node("AlterOwnerStmt",
           [newowner |-> {As("RoleSpec", "RoleSpec")},
            object |-> {Of("qualified_name")}]),
      Node("AlterOwnerStmt",
           [newowner |-> {As("RoleSpec", "RoleSpec")},
            object |-> {Of("relation_expr")}])}]
SequenceRules ==
  [CreateSeqStmt |->
     {Node("CreateSeqStmt",
           [options |-> {Of("OptSeqOptList")},
            sequence |-> {As("RangeVar", "qualified_name")}])},
   OptSeqOptList |-> {Empty, Of("SeqOptList")},
   SeqOptList |-> {More("SeqOptList"), Of("SeqOptElem")},
   SeqOptElem |->
     {Option("as", {Of("Typename")})}
     \cup Options({"cache", "cycle", "increment", "maxvalue", "minvalue",
                   "restart", "start"},
                  {Const("Integer")})
     \cup Options({"owned_by", "sequence_name"}, {First("any_name")})
     \cup Options({"cycle", "maxvalue", "minvalue", "restart"}, {Null}),
   AlterSeqStmt |->
     {Node("AlterSeqStmt",
           [options |-> {Of("SeqOptList")},
            sequence |-> {As("RangeVar", "qualified_name")}])}]
FunctionRules ==
  [CreateFunctionStmt |->
     {Node("CreateFunctionStmt",
           [funcname |-> {Of("function_name")},
            options |-> {Of("opt_createfunc_opt_list"),
                         Option("as", {More("func_as")})},
            parameters |-> {Of("func_args_with_defaults")},
            return_type |-> {As("TypeName", "opt_createfunc_return_type")}]),
      Node("CreateFunctionStmt",
           [funcname |-> {Of("function_name")},
            options |-> {Of("opt_createfunc_opt_list"),
                         Option("as", {More("func_as")})},
            parameters |-> {Of("func_args_with_defaults")}])},
   func_args_with_defaults |-> {Empty, Of("func_args_with_defaults_list")},
   func_args_with_defaults_list |->
     {More("func_args_with_defaults_list"), Of("func_arg_with_default")},
   func_arg_with_default |-> {Of("func_arg")},
   func_arg |-> {Of("Typename"), Of("func_arg_info")},
   func_arg_info |-> {Of("Typename")},
   opt_createfunc_return_type |->
     {Null, Of("Typename"), With("Typename", "TypeName", NoFields)},
   func_as |-> {Of("func_as_list")},
   func_as_list |-> {Leaf("String"), More("func_as_list")},
   opt_createfunc_opt_list |-> {Empty, Of("createfunc_opt_list")},
   createfunc_opt_list |->
     {More("createfunc_opt_list"), Of("createfunc_opt_item")},
   createfunc_opt_item |->
     {Option("support", {First("any_name")})}
     \cup Options({"leakproof", "security_definer", "strict", "window"},
                  {Const("Integer")})
     \cup Options({"language", "parallel", "volatility"}, {Leaf("String")})
     \cup Options({"cost", "rows"}, {Of("NumericOnly")})]
AlterFunctionRules ==
  [NumericOnly |-> {Const("Float"), Const("Integer")},
   AlterFunctionStmt |->
     {Node("AlterFunctionStmt",
           [actions |-> {Of("alter_function_opt_list")},
            args |-> {Of("func_args")}, funcname |-> {Of("function_name")}])},
   func_args |-> {Empty, Of("func_args_list")},
   func_args_list |-> {More("func_args_list"), Of("Typename")},
   alter_function_opt_list |->
     {More("alter_function_opt_list"), Of("alter_function_opt_item")},
   alter_function_opt_item |->
     {Option("volatility", {Leaf("String")})}
     \cup Options({"leakproof", "security_definer", "strict"}, {Const("Integer")})
     \cup Options({"cost", "rows"}, {Of("NumericOnly")}),
   CreateTrigStmt |->
     {Node("CreateTrigStmt",
           [funcname |-> {Of("function_name")},
            relation |-> {As("RangeVar", "qualified_name")}])}]
LanguageRules ==
  [CreateLanguageStmt |->
     {Node("CreateLanguageStmt",
           [inline_handler |-> {Of("opt_language_inline")},
            plhandler |-> {Of("opt_language_handler")},
            validator |-> {Of("opt_language_validator")}])},
   opt_language_handler |-> {Empty, Of("function_name")},
   opt_language_inline |-> {Empty, Of("function_name")},
   opt_language_validator |-> {Empty, Of("function_name")},
   DropLanguageStmt |-> {Leaf("DropLanguageStmt")},
   DoStmt |-> {Leaf("DoStmt")}]
ExtensionRules ==
  [CreateExtensionStmt |-> {Leaf("CreateExtensionStmt")},
   DropExtensionStmt |-> {Leaf("DropExtensionStmt")}]
RoleRules ==
  [CreateRoleStmt |->
     {Node("CreateRoleStmt", [options |-> {Of("opt_role_options")}])},
   opt_role_options |-> {Empty, Of("role_options")},
   role_options |-> {More("role_options"), Of("role_option")},
   role_option |->
     Options({"canlogin", "connectionlimit", "createdb", "createrole",
              "replication", "superuser", "sysid"},
             {Const("Integer")})
     \cup Options({"password", "valid_until"}, {Const("String")})
     \cup Options({"adminmembers", "inrole", "password", "rolemembers"}, {Null}),
   AlterRoleStmt |->
     {Node("AlterRoleStmt", [options |-> {Of("opt_role_options")}])},
   DropRoleStmt |-> {Node("DropRoleStmt", [roles |-> {Of("name_list")}])}]
GrantRules ==
  [GrantStmt |->
     {Node("GrantStmt",
           [grantees |-> {Of("grantee_list")}, privileges |-> {Of("privileges")}])},
   RevokeStmt |-> {Node("GrantStmt", [privileges |-> {Of("privileges")}])},
   privileges |-> {Empty, Of("privilege_list")},
   privilege_list |-> {More("privilege_list"), Of("privilege")},
   privilege |-> {Leaf("AccessPriv")},
   grantee_list |-> {More("grantee_list"), Of("grantee")},
   grantee |-> {Of("RoleSpec")},
   RoleSpec |-> {Leaf("RoleSpec")}]
CopyRules ==
  [CopyStmt |->
     {Node("CopyStmt",
           [attlist |-> {Of("opt_column_list")},
            options |-> {Of("copy_options")},
            relation |-> {As("RangeVar", "qualified_name")}]),
      Node("CopyStmt",
           [options |-> {Of("copy_options")},
            query |-> {Of("select_with_parens")}])},
   copy_options |-> {Empty, Of("copy_opt_list")},
   copy_opt_list |-> {More("copy_opt_list"), Of("copy_opt_item")},
   copy_opt_item |->
     {Option("format", {Leaf("String")})}
     \cup Options({"freeze", "header", "oids"}, {Const("Integer")})
     \cup Options({"delimiter", "null"}, {Const("String")})]
TablespaceRules ==
  [RefreshMatViewStmt |->
     {Node("RefreshMatViewStmt",
           [relation |-> {As("RangeVar", "qualified_name")}])},
   CreateTableSpaceStmt |->
     {Node("CreateTableSpaceStmt", [options |-> {Of("opt_reloptions")}])},
   DropTableSpaceStmt |-> {Leaf("DropTableSpaceStmt")}]
DatabaseRules ==
  [CreatedbStmt |->
     {Node("CreatedbStmt", [options |-> {Of("opt_createdb_opt_list")}])},
   opt_createdb_opt_list |-> {Empty, Of("createdb_opt_list")},
   createdb_opt_list |-> {More("createdb_opt_list"), Of("createdb_opt_item")},
   createdb_opt_item |->
     {Option("connectionlimit", {Const("Integer")})}
     \cup Options({"encoding", "lc_collate", "lc_ctype"}, {Const("String")})
     \cup Options({"owner", "tablespace", "template"}, {Leaf("String")}),
   DropdbStmt |->
     {Leaf("DropdbStmt"),
      Node("DropdbStmt", [options |-> {Of("createdb_opt_list")}])},
   AlterDatabaseStmt |->
     {Node("AlterDatabaseStmt", [options |-> {Of("opt_createdb_opt_list")}]),
      Node("AlterDatabaseStmt",
           [options |-> {Option("tablespace", {Leaf("String")})}])}]
NameRules ==
  [any_name_list |->
     {First("any_name"), More("any_name_list"), Of("any_name")},
   any_name |-> {Leaf("String"), Of("attrs")},
   attrs |-> {Leaf("String"), More("attrs")},
   target_list |-> {More("target_list"), Of("target_el")},
   target_el |->
     {Node("ResTarget", [val |-> {Leaf("AStar")}]),
      Node("ResTarget", [val |-> {Of("a_expr")}])}]
ExpressionRules ==
  [a_expr |->
     {Const("Integer"),
      Expr("kIn",
           [lexpr |-> {Of("a_expr")}, name |-> {Leaf("String")},
            rexpr |-> {Of("in_expr")}]),
      Expr("kOp",
           [lexpr |-> {Null}, name |-> {Of("qual_Op")}, rexpr |-> {Of("a_expr")}]),
      Expr("kOp",
           [lexpr |-> {Of("a_expr")}, name |-> {Leaf("String")},
            rexpr |-> {Null}]),
      Expr("kOp",
           [lexpr |-> {Of("a_expr")}, name |-> {Of("qual_Op")},
            rexpr |-> {Of("a_expr")}]),
      Node("CollateClause",
           [arg |-> {Of("a_expr")}, collname |-> {Of("any_name")}]),
      Node("NullTest", [arg |-> {Of("a_expr")}]),
      Node("TypeCast",
           [arg |-> {Of("a_expr")}, type_name |-> {As("TypeName", "Typename")}]),
      Of("a_expr"), Of("c_expr")}
     \cup Exprs({"NOT", "kOp"},
                [lexpr |-> {Null}, name |-> {Leaf("String")},
                 rexpr |-> {Of("a_expr")}])
     \cup Exprs({"AND", "OR", "kDistinct", "kIlike", "kLike", "kNotDistinct",
                 "kOp", "kSimilar"},
                [lexpr |-> {Of("a_expr")}, name |-> {Leaf("String")},
                 rexpr |-> {Of("a_expr")}])
     \cup Exprs({"kBetween", "kBetweenSym", "kNotBetween", "kNotBetweenSym"},
                [lexpr |-> {Of("a_expr")}, name |-> {Leaf("String")},
                 rexpr |-> {Of("b_expr")}])]
BoundExpressionRules ==
  [b_expr |->
     {Const("Integer"),
      Expr("kOp",
           [lexpr |-> {Null}, name |-> {Leaf("String")},
            rexpr |-> {Of("b_expr")}]),
      Expr("kOp",
           [lexpr |-> {Null}, name |-> {Of("qual_Op")}, rexpr |-> {Of("b_expr")}]),
      Expr("kOp",
           [lexpr |-> {Of("b_expr")}, name |-> {Leaf("String")},
            rexpr |-> {Null}]),
      Expr("kOp",
           [lexpr |-> {Of("b_expr")}, name |-> {Of("qual_Op")},
            rexpr |-> {Of("b_expr")}]),
      Node("NullTest", [arg |-> {Of("b_expr")}]),
      Node("TypeCast",
           [arg |-> {Of("b_expr")}, type_name |-> {As("TypeName", "Typename")}]),
      Of("b_expr"), Of("c_expr")}
     \cup Exprs({"kDistinct", "kNotDistinct", "kOp"},
                [lexpr |-> {Of("b_expr")}, name |-> {Leaf("String")},
                 rexpr |-> {Of("b_expr")}])]
PrimaryRules ==
  [c_expr |->
     Each({"AexprConst", "a_expr", "array_expr", "case_expr", "columnref",
           "func_expr"})
     \cup {Leaf("ParamRef"),
           Node("AIndirection",
                [arg |-> {Leaf("ParamRef")},
                 indirection |-> {More("opt_indirection")}]),
           Node("AIndirection",
                [arg |-> {Of("select_with_parens")},
                 indirection |-> {Of("indirection")}]),
           Node("FuncCall",
                [args |-> {Of("select_with_parens")},
                 funcname |-> {Leaf("String")}]),
           Node("SubLink", [subselect |-> {Of("select_with_parens")}])},
   columnref |->
     {Node("ColumnRef", [fields |-> {Leaf("String"), Of("indirection")}]),
      Node("ColumnRef", [fields |-> {Leaf("String")}])},
   indirection_el |->
     {Leaf("AStar"), Leaf("String"),
      Node("AIndices",
           [lidx |-> {Of("opt_slice_bound")}, uidx |-> {Of("opt_slice_bound")}]),
      Node("AIndices", [uidx |-> {Of("a_expr")}])},
   opt_slice_bound |-> {Null, Of("a_expr")},
   indirection |-> {More("indirection"), Of("indirection_el")}]
CaseRules ==
  [case_expr |->
     {Node("CaseExpr",
           [arg |-> {Of("case_arg")}, args |-> {Of("when_clause_list")},
            defresult |-> {Of("case_default")}])},
   case_arg |-> {Null, Of("a_expr")},
   when_clause_list |-> {More("when_clause_list"), Of("when_clause")},
   when_clause |->
     {Node("CaseWhen", [expr |-> {Of("a_expr")}, result |-> {Of("a_expr")}])},
   case_default |-> {Null, Of("a_expr")}]
CallRules ==
  [func_application |->
     {Node("FuncCall",
           [agg_order |-> {Of("opt_sort_clause")},
            args |-> {Of("func_arg_list")}, funcname |-> {Of("func_name")}]),
      Node("FuncCall", [args |-> {Empty}, funcname |-> {Of("func_name")}]),
      Node("FuncCall",
           [args |-> {Of("func_arg_expr")}, funcname |-> {Of("func_name")}]),
      Node("FuncCall",
           [args |-> {Of("func_arg_list")}, funcname |-> {Of("func_name")}])},
   func_arg_list |-> {More("func_arg_list"), Of("func_arg_expr")},
   func_arg_expr |-> {Of("a_expr")},
   func_expr |->
     {Of("func_expr_common_subexpr"),
      With("func_application", "FuncCall",
           [agg_filter |-> {Of("opt_filter_clause")},
            over |-> {As("WindowDef", "opt_over_clause")}])}]
CommonCallRules ==
  [func_expr_common_subexpr |->
     {Expr("kNullif",
           [lexpr |-> {Of("a_expr")}, name |-> {Leaf("String")},
            rexpr |-> {Of("a_expr")}]),
      Node("CoalesceExpr", [args |-> {Of("expr_list")}]),
      Node("FuncCall",
           [args |-> {Const("String"), Of("a_expr")},
            funcname |-> {Leaf("String")}]),
      Node("FuncCall", [args |-> {Empty}, funcname |-> {Leaf("String")}]),
      Node("FuncCall", [args |-> {Of("a_expr")}, funcname |-> {Leaf("String")}]),
      Node("FuncCall",
           [args |-> {Of("expr_list")}, funcname |-> {Leaf("String")}]),
      Node("FuncCall",
           [args |-> {Of("overlay_list")}, funcname |-> {Leaf("String")}]),
      Node("FuncCall",
           [args |-> {Of("position_list")}, funcname |-> {Leaf("String")}]),
      Node("FuncCall",
           [args |-> {Of("substr_list")}, funcname |-> {Leaf("String")}]),
      Node("FuncCall",
           [args |-> {Of("trim_list")}, funcname |-> {Leaf("String")}]),
      Node("MinMaxExpr", [args |-> {Of("expr_list")}]),
      Node("TypeCast",
           [arg |-> {Of("a_expr")}, type_name |-> {As("TypeName", "Typename")}])}]
ArgumentRules ==
  [filter_clause |-> {Of("a_expr")},
   opt_filter_clause |-> {Null, Of("filter_clause")},
   overlay_list |-> {Of("a_expr")},
   position_list |-> {Null, Of("b_expr")},
   substr_list |-> {Null, Of("a_expr")},
   trim_list |-> {More("expr_list"), Of("a_expr"), Of("expr_list")},
   in_expr |->
     {Node("AArrayExpr", [elements |-> {Of("expr_list")}]),
      Of("select_with_parens")}]
ConstantRules ==
  [qual_Op |-> {Leaf("String")},
   AexprConst |->
     {Const("Float"), Const("Integer"), Const("String"), Leaf("AConst"),
      Node("TypeCast",
           [arg |-> {Const("String")},
            type_name |-> {Node("TypeName", [names |-> {Of("func_name")}])}])},
   array_expr |->
     {Leaf("AArrayExpr"), Node("AArrayExpr", [elements |-> {Of("expr_list")}])},
   expr_list |-> {More("expr_list"), Of("a_expr")}]
TypeRules ==
  [Typename |->
     {Of("SimpleTypename"), With("SimpleTypename", "TypeName", NoFields),
      With("SimpleTypename", "TypeName", [array_bounds |-> {Leaf("Integer")}])},
   SimpleTypename |->
     Each({"Bit", "Character", "ConstDatetime", "ConstInterval",
           "ConstTypename", "GenericType", "Numeric"}),
   ConstTypename |->
     Each({"ConstBit", "ConstCharacter", "ConstDatetime", "Numeric"}),
   GenericType |->
     {Node("TypeName",
           [names |-> {Leaf("String"), Of("attrs")},
            typmods |-> {Of("opt_type_modifiers")}]),
      Node("TypeName",
           [names |-> {Leaf("String")}, typmods |-> {Of("opt_type_modifiers")}])},
   opt_type_modifiers |-> {Empty, Of("expr_list")},
   Numeric |->
     {Node("TypeName",
           [names |-> {Leaf("String")}, typmods |-> {Of("opt_type_modifiers")}]),
      Node("TypeName", [names |-> {Leaf("String")}])}]
TextTypeRules ==
  [Bit |->
     {Node("TypeName",
           [names |-> {Leaf("String")}, typmods |-> {Of("opt_type_modifiers")}])},
   ConstBit |->
     {Node("TypeName",
           [names |-> {Leaf("String")}, typmods |-> {Of("opt_type_modifiers")}])},
   Character |-> {Of("character")},
   ConstCharacter |-> {Of("character")},
   character |->
     {Node("TypeName",
           [names |-> {Leaf("String")}, typmods |-> {Of("opt_type_modifiers")}])},
   ConstDatetime |->
     {Node("TypeName",
           [names |-> {Leaf("String")}, typmods |-> {Leaf("Integer")}]),
      Node("TypeName", [names |-> {Leaf("String")}])},
   ConstInterval |-> {Node("TypeName", [names |-> {Leaf("String")}])},
   interval_qualifier |-> {Const("String"), Null},
   func_name |-> {Leaf("String"), Of("indirection")}]

(***************************************************************************)
(* The nonterminals by name                                                *)
(***************************************************************************)
Grammar ==
  StatementRules @@ TypeAndCastRules @@ PolicyRules @@ PublicationRules @@
  SubscriptionRules @@ ServerRules @@ RewriteRules @@ SystemRules @@
  SelectRules @@ WithRules @@ SortRules @@ LimitRules @@ GroupRules @@
  FromRules @@ WindowRules @@ InsertRules @@ UpdateRules @@ RelationRules @@
  TableRules @@ ConstraintRules @@ OptionRules @@ PartitionRules @@ DropRules
  @@ TransactionRules @@ ExplainRules @@ CommentRules @@ IndexRules @@
  CreateAsRules @@ AlterTableRules @@ AlterTableCmdRules @@ VacuumRules @@
  VariableRules @@ SessionRules @@ NotifyRules @@ PrepareRules @@ RenameRules
  @@ SequenceRules @@ FunctionRules @@ AlterFunctionRules @@ LanguageRules @@
  ExtensionRules @@ RoleRules @@ GrantRules @@ CopyRules @@ TablespaceRules @@
  DatabaseRules @@ NameRules @@ ExpressionRules @@ BoundExpressionRules @@
  PrimaryRules @@ CaseRules @@ CallRules @@ CommonCallRules @@ ArgumentRules
  @@ ConstantRules @@ TypeRules @@ TextTypeRules
=============================================================================
