----------------------------- MODULE NodeTypes -----------------------------
(***************************************************************************)
(* The parse-tree and expression node classes: the fields each declares,   *)
(* those its Clone() copies deeply after the copy constructor has copied   *)
(* them all, and those its Equals() compares.                              *)
(*                                                                         *)
(* A field holds a value (a number, a flag, a text, an opaque pointer that *)
(* is copied and compared as one), a pointer to a node, or a list of such  *)
(* pointers; a list of lists counts as a list.                             *)
(***************************************************************************)
EXTENDS TLC

Class(values, nodes, lists) == [values |-> values, nodes |-> nodes, lists |-> lists]

(***************************************************************************)
(* The declarations                                                        *)
(***************************************************************************)
ExpressionClasses ==
  [TypeName |-> Class({"type_oid", "setof", "pct_type", "typemod",
     "location"}, {}, {"names", "typmods", "array_bounds"}),
   ColumnRef |-> Class({"location"}, {}, {"fields"}),
   ParamRef |-> Class({"number", "location"}, {}, {}),
   AExpr |-> Class({"kind", "location"}, {"lexpr", "rexpr"}, {"name"}),
   AConst |-> Class({"isnull", "isbool", "location"}, {"val"}, {}),
   TypeCast |-> Class({"location"}, {"arg", "type_name"}, {}),
   CollateClause |-> Class({"location"}, {"arg"}, {"collname"}),
   RoleSpec |-> Class({"roletype", "rolename", "location"}, {}, {}),
   FuncCall |-> Class({"agg_within_group", "agg_star", "agg_distinct",
     "func_variadic", "funcformat", "location"}, {"agg_filter", "over"},
     {"funcname", "args", "agg_order"})]
TargetClasses ==
  [AStar |-> Class({}, {}, {}),
   AIndices |-> Class({"is_slice"}, {"lidx", "uidx"}, {}),
   AIndirection |-> Class({}, {"arg"}, {"indirection"}),
   AArrayExpr |-> Class({"location"}, {}, {"elements"}),
   ResTarget |-> Class({"name", "location"}, {"val"}, {"indirection"}),
   MultiAssignRef |-> Class({"colno", "ncolumns"}, {"source"}, {}),
   SortBy |-> Class({"sortby_dir", "sortby_nulls", "location"}, {"node"},
     {"use_op"}),
   WindowDef |-> Class({"name", "refname", "frame_options", "location"},
     {"start_offset", "end_offset"}, {"partition_clause", "order_clause"})]
DefinitionClasses ==
  [RangeSubselect |-> Class({"lateral"}, {"subquery", "alias"}, {}),
   RangeFunction |-> Class({"lateral", "ordinality", "is_rowsfrom"},
     {"alias"}, {"functions", "coldeflist"}),
   ColumnDef |-> Class({"colname", "compression", "inhcount", "is_local",
     "is_not_null", "is_from_type", "storage", "identity", "generated",
     "coll_oid", "location"}, {"type_name", "raw_default", "cooked_default",
     "identity_sequence", "coll_clause"}, {"constraints", "fdwoptions"}),
   IndexElem |-> Class({"name", "indexcolname", "ordering", "nulls_ordering"},
     {"expr"}, {"collation", "opclass", "opclassopts"}),
   DefElem |-> Class({"defnamespace", "defname", "defaction", "location"},
     {"arg"}, {})]
ConstraintClasses ==
  [Constraint |-> Class({"contype", "conname", "fk_matchtype",
     "fk_upd_action", "fk_del_action", "access_method", "deferrable",
     "initdeferred", "is_no_inherit", "skip_validation", "initially_valid",
     "location"}, {"raw_expr", "cooked_expr", "pktable", "where_clause"},
     {"keys", "including_keys", "fk_attrs", "fk_del_set_cols"}),
   LockingClause |-> Class({"strength", "wait_policy"}, {}, {"locked_rels"}),
   XmlSerialize |-> Class({"xmloption", "location"}, {"expr", "type_name"},
     {})]
PartitionClasses ==
  [PartitionElem |-> Class({"name", "location"}, {"expr"}, {"collation",
     "opclass"}),
   PartitionSpec |-> Class({"strategy", "location"}, {}, {"part_params"}),
   PartitionBoundSpec |-> Class({"strategy", "is_default", "modulus",
     "remainder", "location"}, {}, {"listdatums", "lowerdatums",
     "upperdatums"}),
   PartitionRangeDatum |-> Class({"kind", "location"}, {"value"}, {}),
   PartitionCmd |-> Class({"concurrent"}, {"name", "bound"}, {})]
RangeTableClasses ==
  [RangeTblEntry |-> Class({"rtekind", "relid", "relkind", "rellockmode",
     "security_barrier", "jointype", "joinmergedcols", "funcordinality",
     "ctename", "ctelevelsup", "self_reference", "enrname", "enrtuples",
     "lateral", "inh", "in_from_cl", "required_perms", "check_as_user",
     "selected_cols", "inserted_cols", "updated_cols", "extra_updated_cols"},
     {"tablesample", "subquery", "join_using_alias", "tablefunc", "alias",
     "eref"}, {"joinaliasvars", "joinleftcols", "joinrightcols", "functions",
     "coltypes", "coltypmods", "colcollations", "security_quals",
     "values_lists"}),
   RangeTblFunction |-> Class({"funccolcount", "funcparams"}, {"funcexpr"},
     {"funccolnames", "funccoltypes", "funccoltypmods", "funccolcollations"}),
   TableSampleClause |-> Class({"tsmhandler"}, {"repeatable"}, {"args"}),
   WithCheckOption |-> Class({"kind", "relname", "polname", "cascaded"},
     {"qual"}, {})]
ClauseClasses ==
  [SortGroupClause |-> Class({"tle_sort_group_ref", "eqop", "sortop",
     "nulls_first", "hashable"}, {}, {}),
   GroupingSet |-> Class({"kind", "location"}, {}, {"content"}),
   WindowClause |-> Class({"name", "refname", "frame_options",
     "start_in_range_func", "end_in_range_func", "in_range_coll",
     "in_range_asc", "in_range_nulls_first", "winref", "copied_order"},
     {"start_offset", "end_offset"}, {"partition_clause", "order_clause",
     "run_condition"}),
   RowMarkClause |-> Class({"rti", "strength", "wait_policy", "pushed_down"},
     {}, {}),
   WithClause |-> Class({"recursive", "location"}, {}, {"ctes"}),
   InferClause |-> Class({"conname", "location"}, {"where_clause"},
     {"index_elems"}),
   OnConflictClause |-> Class({"action", "location"}, {"infer",
     "where_clause"}, {"target_list"}),
   CommonTableExpr |-> Class({"ctename", "ctematerialized", "location",
     "cterecursive", "cterefcount"}, {"ctequery", "search_clause",
     "cycle_clause"}, {"aliascolnames", "ctecolnames", "ctecoltypes",
     "ctecoltypmods", "ctecolcollations"})]
MergeClasses ==
  [MergeWhenClause |-> Class({"matched", "command_type", "override_kind"},
     {"condition"}, {"target_list", "values"}),
   MergeAction |-> Class({"matched", "command_type", "override_kind"},
     {"qual"}, {"target_list", "update_colnos"}),
   TriggerTransition |-> Class({"name", "is_new", "is_table"}, {}, {}),
   AccessPriv |-> Class({"priv_name"}, {}, {"cols"}),
   Alias |-> Class({"aliasname"}, {}, {"colnames"}),
   RangeVar |-> Class({"catalogname", "schemaname", "relname", "inh",
     "relpersistence", "location"}, {"alias"}, {}),
   IntoClause |-> Class({"access_method", "on_commit", "table_space_name",
     "skip_data"}, {"rel", "view_query"}, {"col_names", "options"})]
QueryClasses ==
  [RawStmt |-> Class({"stmt_location", "stmt_len"}, {"stmt"}, {}),
   InsertStmt |-> Class({"override_kind"}, {"relation", "select_stmt",
     "on_conflict_clause", "with_clause"}, {"cols", "returning_list"}),
   DeleteStmt |-> Class({}, {"relation", "where_clause", "with_clause"},
     {"using_clause", "returning_list"}),
   UpdateStmt |-> Class({}, {"relation", "where_clause", "with_clause"},
     {"target_list", "from_clause", "returning_list"}),
   SelectStmt |-> Class({"group_distinct", "limit_option", "op", "all"},
     {"into_clause", "where_clause", "having_clause", "limit_offset",
     "limit_count", "with_clause", "larg", "rarg"}, {"distinct_clause",
     "target_list", "from_clause", "group_clause", "window_clause",
     "sort_clause", "locking_clause", "values_lists"})]
TableClasses ==
  [CreateStmt |-> Class({"oncommit", "tablespacename", "access_method",
     "if_not_exists"}, {"relation", "partbound", "partspec", "of_typename"},
     {"table_elts", "inh_relations", "constraints", "options"}),
   CreateSchemaStmt |-> Class({"schemaname", "if_not_exists"}, {"authrole"},
     {"schema_elts"}),
   AlterTableStmt |-> Class({"objtype", "missing_ok"}, {"relation"}, {"cmds"}),
   AlterTableCmd |-> Class({"subtype", "name", "newname", "num", "behavior",
     "missing_ok", "recurse"}, {"newowner", "def"}, {}),
   DropStmt |-> Class({"remove_type", "behavior", "missing_ok", "concurrent"},
     {}, {"objects"})]
UtilityClasses ==
  [TransactionStmt |-> Class({"kind", "savepoint_name", "gid"}, {},
     {"options"}),
   TruncateStmt |-> Class({"restart_seqs", "behavior"}, {}, {"relations"}),
   ExplainStmt |-> Class({}, {"query"}, {"options"}),
   CommentStmt |-> Class({"objtype", "comment"}, {}, {"object"}),
   IndexStmt |-> Class({"idxname", "access_method", "unique", "primary",
     "concurrent", "if_not_exists", "reset_default_tblspc"}, {"relation"},
     {"index_params", "index_including_params", "options", "where_clause"}),
   ViewStmt |-> Class({"replace", "with_check_option"}, {"view", "query"},
     {"aliases", "options"}),
   CreateAsStmt |-> Class({"is_select_into", "if_not_exists"}, {"into",
     "query"}, {}),
   VacuumStmt |-> Class({"is_vacuumcmd", "full", "freeze"}, {}, {"options",
     "rels"})]
SessionClasses ==
  [VariableSetStmt |-> Class({"kind", "name", "is_local"}, {}, {"args"}),
   ClusterStmt |-> Class({"indexname", "verbose"}, {"relation"}, {}),
   LockStmt |-> Class({"mode", "nowait"}, {}, {"relations"}),
   DiscardStmt |-> Class({"target"}, {}, {}),
   NotifyStmt |-> Class({"conditionname", "payload"}, {}, {}),
   ListenStmt |-> Class({"conditionname"}, {}, {}),
   UnlistenStmt |-> Class({"conditionname"}, {}, {}),
   CheckPointStmt |-> Class({}, {}, {}),
   ReindexStmt |-> Class({"kind", "name", "concurrently"}, {}, {"options"})]
PreparedClasses ==
  [DeallocateStmt |-> Class({"name"}, {}, {}),
   PrepareStmt |-> Class({"name"}, {"query"}, {"argtypes"}),
   ExecuteStmt |-> Class({"name"}, {}, {"params"}),
   LoadStmt |-> Class({"filename"}, {}, {}),
   CallStmt |-> Class({}, {"funccall"}, {})]
SequenceClasses ==
  [RenameStmt |-> Class({"rename_type", "relation_type", "subname", "newname",
     "behavior", "missing_ok"}, {"relation"}, {"object"}),
   AlterOwnerStmt |-> Class({"object_type"}, {"newowner"}, {"object"}),
   CreateSeqStmt |-> Class({"for_identity", "if_not_exists"}, {"sequence"},
     {"options"}),
   AlterSeqStmt |-> Class({"for_identity", "missing_ok"}, {"sequence"},
     {"options"}),
   CreateFunctionStmt |-> Class({"is_procedure", "replace"}, {"return_type"},
     {"funcname", "parameters", "options"}),
   AlterFunctionStmt |-> Class({}, {}, {"funcname", "args", "actions"})]
ExtensionClasses ==
  [CreateLanguageStmt |-> Class({"replace", "trusted", "lanname"}, {},
     {"plhandler", "inline_handler", "validator"}),
   DropLanguageStmt |-> Class({"lanname", "missing_ok"}, {}, {}),
   DoStmt |-> Class({"code", "lanname"}, {}, {}),
   CreateExtensionStmt |-> Class({"if_not_exists", "extname", "schema",
     "version", "cascade"}, {}, {}),
   DropExtensionStmt |-> Class({"extnames", "missing_ok", "cascade"}, {}, {}),
   CreateTrigStmt |-> Class({"replace", "isconstraint", "trigname", "row",
     "timing", "events", "deferrable", "initdeferred", "constrrel"},
     {"relation", "when_clause"}, {"funcname", "args", "columns",
     "transition_rels"})]
RoleClasses ==
  [CreateRoleStmt |-> Class({"stmt_type", "role"}, {}, {"options"}),
   AlterRoleStmt |-> Class({"action"}, {"role"}, {"options"}),
   DropRoleStmt |-> Class({"missing_ok"}, {}, {"roles"}),
   GrantStmt |-> Class({"is_grant", "targtype", "objtype", "grant_option",
     "behavior"}, {}, {"privileges", "targobjs", "grantees"}),
   GrantRoleStmt |-> Class({"is_grant", "admin_opt", "behavior"}, {"grantor"},
     {"granted_roles", "grantee_roles"}),
   CopyStmt |-> Class({"is_from", "is_program", "filename"}, {"relation",
     "query"}, {"attlist", "options"})]
StorageClasses ==
  [RefreshMatViewStmt |-> Class({"concurrent", "skip_data"}, {"relation"}, {}),
   CreateTableSpaceStmt |-> Class({"tablespacename", "location"}, {"owner"},
     {"options"}),
   DropTableSpaceStmt |-> Class({"tablespacename", "missing_ok"}, {}, {}),
   CreatedbStmt |-> Class({"dbname"}, {}, {"options"}),
   DropdbStmt |-> Class({"dbname", "missing_ok"}, {}, {"options"}),
   AlterDatabaseStmt |-> Class({"dbname"}, {}, {"options"}),
   CreateTypeStmt |-> Class({"labels"}, {}, {"type_name"}),
   CreateDomainStmt |-> Class({"not_null"}, {"type_name"}, {"domainname"}),
   CreateCastStmt |-> Class({"without_function", "context"}, {"sourcetype",
     "targettype"}, {"func"})]
PolicyClasses ==
  [CreatePolicyStmt |-> Class({"policy_name", "permissive", "cmd", "replace"},
     {"table", "qual", "with_check"}, {"roles"}),
   AlterPolicyStmt |-> Class({"policy_name"}, {"table", "qual", "with_check"},
     {"roles"}),
   DropPolicyStmt |-> Class({"policy_name", "missing_ok", "behavior"},
     {"table"}, {}),
   CreatePublicationStmt |-> Class({"pubname", "for_all_tables"}, {},
     {"publications", "options"}),
   AlterPublicationStmt |-> Class({"pubname", "action"}, {}, {"tables",
     "options"}),
   DropPublicationStmt |-> Class({"pubnames", "missing_ok", "behavior"}, {},
     {}),
   CreateSubscriptionStmt |-> Class({"subname", "conninfo", "publications"},
     {}, {"options"}),
   AlterSubscriptionStmt |-> Class({"subname", "kind", "conninfo",
     "publications"}, {}, {"options"}),
   DropSubscriptionStmt |-> Class({"subname", "missing_ok", "behavior"}, {},
     {})]
ForeignClasses ==
  [CreateForeignTableStmt |-> Class({"servername", "if_not_exists"},
     {"relation"}, {"tableElts", "options"}),
   CreateServerStmt |-> Class({"servername", "servertype", "fdwname",
     "version", "if_not_exists"}, {"owner"}, {"options"}),
   AlterServerStmt |-> Class({"servername", "kind", "version", "has_version"},
     {"owner"}, {"options"}),
   DropServerStmt |-> Class({"servernames", "missing_ok", "behavior"}, {}, {}),
   CreateRuleStmt |-> Class({"replace", "rule_name", "event", "instead",
     "nothing"}, {"relation", "where_clause"}, {"actions"}),
   AlterRuleStmt |-> Class({"rule_name", "nothing"}, {"relation", "action"},
     {}),
   DropRuleStmt |-> Class({"rule_names", "missing_ok", "behavior"},
     {"relation"}, {})]
SystemClasses ==
  [SecLabelStmt |-> Class({"provider", "objtype", "label"}, {}, {"object"}),
   AlterSystemStmt |-> Class({"name", "kind"}, {}, {"args"}),
   ImportForeignSchemaStmt |-> Class({"remote_schema", "local_schema",
     "server_name", "kind"}, {}, {"table_list", "options"}),
   Query |-> Class({"command_type", "query_source", "query_id", "can_set_tag",
     "result_relation", "has_aggs", "has_window_funcs", "has_target_srfs",
     "has_sub_links", "has_distinct_on", "has_recursive", "has_modifying_cte",
     "has_for_update", "has_row_security", "is_return",
     "merge_use_outer_join", "override_kind", "group_distinct",
     "limit_option", "stmt_location", "stmt_len"}, {"utility_stmt",
     "jointree", "on_conflict", "having_qual", "limit_offset", "limit_count",
     "set_operations"}, {"cte_list", "rtable", "merge_action_list",
     "target_list", "returning_list", "group_clause", "grouping_sets",
     "window_clause", "distinct_clause", "sort_clause", "row_marks",
     "constraint_deps", "with_check_options"})]
PrimitiveClasses ==
  [Var |-> Class({"varno", "varattno", "vartype", "vartypmod", "varcollid",
     "varlevelsup", "varnosyn", "varattnosyn", "location"}, {}, {}),
   Const |-> Class({"consttype", "consttypmod", "constcollid", "constlen",
     "constvalue", "constisnull", "constbyval", "location"}, {}, {}),
   Param |-> Class({"paramkind", "paramid", "paramtype", "paramtypmod",
     "paramcollid", "location"}, {}, {}),
   OpExpr |-> Class({"opno", "opfuncid", "opresulttype", "opretset",
     "opcollid", "inputcollid", "location"}, {}, {"args"}),
   FuncExpr |-> Class({"funcid", "funcresulttype", "funcretset",
     "funcvariadic", "funcformat", "funccollid", "inputcollid", "location"},
     {}, {"args"}),
   Aggref |-> Class({"aggfnoid", "aggtype", "aggcollid", "inputcollid",
     "aggtranstype", "aggstar", "aggvariadic", "aggkind", "agglevelsup",
     "aggsplit", "aggno", "aggtransno", "location"}, {"aggfilter"},
     {"aggargtypes", "aggdirectargs", "args", "aggorder", "aggdistinct"})]
BooleanClasses ==
  [BoolExpr |-> Class({"boolop", "location"}, {}, {"args"}),
   NullTest |-> Class({"nulltesttype", "argisrow", "location"}, {"arg"}, {}),
   BooleanTest |-> Class({"booltesttype", "location"}, {"arg"}, {}),
   CaseExpr |-> Class({"casetype", "casecollid", "location"}, {"arg",
     "defresult"}, {"args"}),
   CaseWhen |-> Class({"location"}, {"expr", "result"}, {}),
   SubLink |-> Class({"sublinktype", "sublinkid", "location"}, {"testexpr",
     "subselect"}, {"opername"}),
   RelabelType |-> Class({"resulttype", "resulttypmod", "resultcollid",
     "relabelformat", "location"}, {"arg"}, {}),
   CoerceViaIO |-> Class({"resulttype", "resultcollid", "coerceformat",
     "location"}, {"arg"}, {})]
CoercionClasses ==
  [ScalarArrayOpExpr |-> Class({"opno", "opfuncid", "hashfuncid", "negfuncid",
     "use_or", "inputcollid", "location"}, {}, {"args"}),
   CoerceToDomain |-> Class({"resulttype", "resulttypmod", "resultcollid",
     "coercionformat", "location"}, {"arg"}, {}),
   CoalesceExpr |-> Class({"coalescetype", "coalescecollid", "location"}, {},
     {"args"}),
   MinMaxExpr |-> Class({"minmaxtype", "minmaxcollid", "inputcollid",
     "location"}, {}, {"args"})]
JoinClasses ==
  [NullIfExpr |-> Class({"opno", "opresulttype", "opretset", "opcollid",
     "inputcollid", "location"}, {}, {"args"}),
   SQLValueFunction |-> Class({"op", "type", "location"}, {}, {}),
   TargetEntry |-> Class({"resno", "resname", "ressortgroupref", "resorigtbl",
     "resorigcol", "resjunk"}, {"expr"}, {}),
   RangeTblRef |-> Class({"rtindex"}, {}, {}),
   JoinExpr |-> Class({"jointype", "is_natural", "rtindex"}, {"larg", "rarg",
     "join_using_alias", "quals", "alias"}, {"using_clause"}),
   FromExpr |-> Class({}, {"quals"}, {"fromlist"})]

Declared ==
  ExpressionClasses @@ TargetClasses @@ DefinitionClasses @@ ConstraintClasses
  @@ PartitionClasses @@ RangeTableClasses @@ ClauseClasses @@ MergeClasses @@
  QueryClasses @@ TableClasses @@ UtilityClasses @@ SessionClasses @@
  PreparedClasses @@ SequenceClasses @@ ExtensionClasses @@ RoleClasses @@
  StorageClasses @@ PolicyClasses @@ ForeignClasses @@ SystemClasses @@
  PrimitiveClasses @@ BooleanClasses @@ CoercionClasses @@ JoinClasses

(***************************************************************************)
(* The pointers Clone() copies deeply and the fields Equals() compares     *)
(***************************************************************************)
Methods(clone, equals) == [clone |-> clone, equals |-> equals]

NameMethods ==
  [TypeName |-> Methods({"names", "typmods", "array_bounds"}, {"names",
     "type_oid", "setof", "pct_type", "typmods", "typemod", "array_bounds",
     "location"}),
   ColumnRef |-> Methods({"fields"}, {"fields", "location"}),
   ParamRef |-> Methods({}, {"number", "location"})]
(* Mutant: the right operand is not copied.                                *)
AExprCopiesLeft ==
  [AExpr |-> Methods({"name", "lexpr"}, {"kind", "name", "lexpr", "rexpr", "location"})]
AExprMethods ==
  [AExpr |-> Methods({"name", "lexpr", "rexpr"}, {"kind", "name", "lexpr",
     "rexpr", "location"})]
ExpressionMethods ==
  [AConst |-> Methods({"val"}, {"val", "isnull", "isbool", "location"}),
   TypeCast |-> Methods({"arg", "type_name"}, {"arg", "type_name",
     "location"}),
   CollateClause |-> Methods({"arg", "collname"}, {"arg", "collname",
     "location"}),
   RoleSpec |-> Methods({}, {"roletype", "rolename", "location"}),
   FuncCall |-> Methods({"funcname", "args", "agg_order", "agg_filter",
     "over"}, {"funcname", "args", "agg_order", "agg_filter", "over",
     "agg_within_group", "agg_star", "agg_distinct", "func_variadic",
     "funcformat", "location"})]
TargetMethods ==
  [AStar |-> Methods({}, {}),
   AIndices |-> Methods({"lidx", "uidx"}, {"is_slice", "lidx", "uidx"}),
   AIndirection |-> Methods({"arg", "indirection"}, {"arg", "indirection"}),
   AArrayExpr |-> Methods({"elements"}, {"elements", "location"}),
   ResTarget |-> Methods({"indirection", "val"}, {"name", "indirection",
     "val", "location"}),
   MultiAssignRef |-> Methods({"source"}, {"source", "colno", "ncolumns"}),
   SortBy |-> Methods({"node", "use_op"}, {"node", "sortby_dir",
     "sortby_nulls", "use_op", "location"}),
   WindowDef |-> Methods({"partition_clause", "order_clause", "start_offset",
     "end_offset"}, {"name", "refname", "partition_clause", "order_clause",
     "frame_options", "start_offset", "end_offset", "location"})]
DefinitionMethods ==
  [RangeSubselect |-> Methods({"subquery", "alias"}, {"lateral", "subquery",
     "alias"}),
   RangeFunction |-> Methods({"functions", "alias", "coldeflist"}, {"lateral",
     "ordinality", "is_rowsfrom", "functions", "alias", "coldeflist"}),
   ColumnDef |-> Methods({"type_name", "raw_default", "cooked_default",
     "identity_sequence", "coll_clause", "constraints", "fdwoptions"},
     {"colname", "type_name", "compression", "inhcount", "is_local",
     "is_not_null", "is_from_type", "storage", "raw_default",
     "cooked_default", "identity", "identity_sequence", "generated",
     "coll_clause", "coll_oid", "constraints", "fdwoptions", "location"}),
   IndexElem |-> Methods({"expr", "collation", "opclass", "opclassopts"},
     {"name", "expr", "indexcolname", "collation", "opclass", "opclassopts",
     "ordering", "nulls_ordering"}),
   DefElem |-> Methods({"arg"}, {"defnamespace", "defname", "arg",
     "defaction", "location"})]
ConstraintMethods ==
  [Constraint |-> Methods({"raw_expr", "cooked_expr", "keys",
     "including_keys", "fk_attrs", "fk_del_set_cols", "where_clause"},
     {"contype", "conname", "raw_expr", "cooked_expr", "keys",
     "including_keys", "pktable", "fk_attrs", "fk_matchtype", "fk_upd_action",
     "fk_del_action", "fk_del_set_cols", "access_method", "where_clause",
     "deferrable", "initdeferred", "is_no_inherit", "skip_validation",
     "initially_valid", "location"}),
   LockingClause |-> Methods({"locked_rels"}, {"locked_rels", "strength",
     "wait_policy"}),
   XmlSerialize |-> Methods({"expr", "type_name"}, {"xmloption", "expr",
     "type_name", "location"})]
PartitionMethods ==
  [PartitionElem |-> Methods({"expr", "collation", "opclass"}, {"name",
     "expr", "collation", "opclass", "location"}),
   PartitionSpec |-> Methods({"part_params"}, {"strategy", "part_params",
     "location"}),
   PartitionBoundSpec |-> Methods({"listdatums", "lowerdatums",
     "upperdatums"}, {"strategy", "is_default", "modulus", "remainder",
     "listdatums", "lowerdatums", "upperdatums", "location"}),
   PartitionRangeDatum |-> Methods({"value"}, {"kind", "value", "location"}),
   PartitionCmd |-> Methods({"name", "bound"}, {"name", "bound",
     "concurrent"})]
RangeTableMethods ==
  [RangeTblEntry |-> Methods({"tablesample", "subquery", "joinaliasvars",
     "joinleftcols", "joinrightcols", "join_using_alias", "functions",
     "tablefunc", "coltypes", "coltypmods", "colcollations", "alias", "eref",
     "security_quals", "values_lists"}, {"rtekind", "relid", "relkind",
     "rellockmode", "tablesample", "subquery", "security_barrier", "jointype",
     "joinmergedcols", "joinaliasvars", "joinleftcols", "joinrightcols",
     "join_using_alias", "functions", "funcordinality", "tablefunc",
     "ctename", "ctelevelsup", "self_reference", "coltypes", "coltypmods",
     "colcollations", "enrname", "enrtuples", "alias", "eref", "lateral",
     "inh", "in_from_cl", "required_perms", "check_as_user", "selected_cols",
     "inserted_cols", "updated_cols", "extra_updated_cols", "security_quals",
     "values_lists"}),
   RangeTblFunction |-> Methods({"funcexpr", "funccolnames", "funccoltypes",
     "funccoltypmods", "funccolcollations"}, {"funcexpr", "funccolcount",
     "funccolnames", "funccoltypes", "funccoltypmods", "funccolcollations",
     "funcparams"}),
   TableSampleClause |-> Methods({"args", "repeatable"}, {"tsmhandler",
     "args", "repeatable"}),
   WithCheckOption |-> Methods({"qual"}, {"kind", "relname", "polname",
     "qual", "cascaded"})]
ClauseMethods ==
  [SortGroupClause |-> Methods({}, {"tle_sort_group_ref", "eqop", "sortop",
     "nulls_first", "hashable"}),
   GroupingSet |-> Methods({"content"}, {"kind", "content", "location"}),
   WindowClause |-> Methods({"partition_clause", "order_clause",
     "start_offset", "end_offset", "run_condition"}, {"name", "refname",
     "partition_clause", "order_clause", "frame_options", "start_offset",
     "end_offset", "run_condition", "start_in_range_func",
     "end_in_range_func", "in_range_coll", "in_range_asc",
     "in_range_nulls_first", "winref", "copied_order"}),
   RowMarkClause |-> Methods({}, {"rti", "strength", "wait_policy",
     "pushed_down"}),
   WithClause |-> Methods({"ctes"}, {"ctes", "recursive", "location"}),
   InferClause |-> Methods({"index_elems", "where_clause"}, {"index_elems",
     "where_clause", "conname", "location"}),
   OnConflictClause |-> Methods({"infer", "target_list", "where_clause"},
     {"action", "infer", "target_list", "where_clause", "location"}),
   CommonTableExpr |-> Methods({"aliascolnames", "ctequery", "search_clause",
     "cycle_clause", "ctecolnames", "ctecoltypes", "ctecoltypmods",
     "ctecolcollations"}, {"ctename", "aliascolnames", "ctematerialized",
     "ctequery", "search_clause", "cycle_clause", "location", "cterecursive",
     "cterefcount", "ctecolnames", "ctecoltypes", "ctecoltypmods",
     "ctecolcollations"})]
MergeMethods ==
  [MergeWhenClause |-> Methods({"condition", "target_list", "values"},
     {"matched", "command_type", "override_kind", "condition", "target_list",
     "values"}),
   MergeAction |-> Methods({"qual", "target_list", "update_colnos"},
     {"matched", "command_type", "override_kind", "qual", "target_list",
     "update_colnos"}),
   TriggerTransition |-> Methods({}, {"name", "is_new", "is_table"}),
   AccessPriv |-> Methods({"cols"}, {"priv_name", "cols"}),
   Alias |-> Methods({"colnames"}, {"aliasname", "colnames"}),
   RangeVar |-> Methods({"alias"}, {"catalogname", "schemaname", "relname",
     "inh", "relpersistence", "alias", "location"}),
   IntoClause |-> Methods({"rel", "col_names", "options", "view_query"},
     {"rel", "col_names", "access_method", "options", "on_commit",
     "table_space_name", "view_query", "skip_data"})]
QueryMethods ==
  [RawStmt |-> Methods({"stmt"}, {"stmt", "stmt_location", "stmt_len"}),
   InsertStmt |-> Methods({"relation", "cols", "select_stmt",
     "on_conflict_clause", "returning_list", "with_clause"}, {"relation",
     "cols", "select_stmt", "on_conflict_clause", "returning_list",
     "with_clause", "override_kind"}),
   DeleteStmt |-> Methods({"relation", "using_clause", "where_clause",
     "returning_list", "with_clause"}, {"relation", "using_clause",
     "where_clause", "returning_list", "with_clause"}),
   UpdateStmt |-> Methods({"relation", "target_list", "where_clause",
     "from_clause", "returning_list", "with_clause"}, {"relation",
     "target_list", "where_clause", "from_clause", "returning_list",
     "with_clause"}),
   SelectStmt |-> Methods({"distinct_clause", "into_clause", "target_list",
     "from_clause", "where_clause", "group_clause", "having_clause",
     "window_clause", "sort_clause", "limit_offset", "limit_count",
     "locking_clause", "with_clause", "larg", "rarg", "values_lists"},
     {"distinct_clause", "into_clause", "target_list", "from_clause",
     "where_clause", "group_clause", "group_distinct", "having_clause",
     "window_clause", "sort_clause", "limit_offset", "limit_count",
     "limit_option", "locking_clause", "with_clause", "op", "all", "larg",
     "rarg", "values_lists"})]
TableMethods ==
  [CreateStmt |-> Methods({"relation", "table_elts", "inh_relations",
     "partbound", "partspec", "of_typename", "constraints", "options"},
     {"relation", "table_elts", "inh_relations", "partbound", "partspec",
     "of_typename", "constraints", "options", "oncommit", "tablespacename",
     "access_method", "if_not_exists"}),
   CreateSchemaStmt |-> Methods({"authrole", "schema_elts"}, {"schemaname",
     "authrole", "schema_elts", "if_not_exists"}),
   AlterTableStmt |-> Methods({"relation", "cmds"}, {"relation", "cmds",
     "objtype", "missing_ok"}),
   AlterTableCmd |-> Methods({"newowner", "def"}, {"subtype", "name",
     "newname", "num", "newowner", "def", "behavior", "missing_ok",
     "recurse"}),
   DropStmt |-> Methods({"objects"}, {"objects", "remove_type", "behavior",
     "missing_ok", "concurrent"})]
UtilityMethods ==
  [TransactionStmt |-> Methods({"options"}, {"kind", "savepoint_name",
     "options", "gid"}),
   TruncateStmt |-> Methods({"relations"}, {"relations", "restart_seqs",
     "behavior"}),
   ExplainStmt |-> Methods({"query", "options"}, {"query", "options"}),
   CommentStmt |-> Methods({"object"}, {"objtype", "object", "comment"}),
   IndexStmt |-> Methods({"relation", "index_params",
     "index_including_params", "options", "where_clause"}, {"idxname",
     "relation", "access_method", "index_params", "index_including_params",
     "options", "where_clause", "unique", "primary", "concurrent",
     "if_not_exists"}),
   ViewStmt |-> Methods({"view", "aliases", "query", "options"}, {"view",
     "aliases", "query", "replace", "options", "with_check_option"}),
   CreateAsStmt |-> Methods({"into", "query"}, {"into", "query",
     "is_select_into", "if_not_exists"}),
   VacuumStmt |-> Methods({"options", "rels"}, {"options", "rels",
     "is_vacuumcmd", "full", "freeze"})]
SessionMethods ==
  [VariableSetStmt |-> Methods({"args"}, {"kind", "name", "args", "is_local"}),
   ClusterStmt |-> Methods({"relation"}, {"relation", "indexname", "verbose"}),
   LockStmt |-> Methods({"relations"}, {"relations", "mode", "nowait"}),
   DiscardStmt |-> Methods({}, {"target"}),
   NotifyStmt |-> Methods({}, {"conditionname", "payload"}),
   ListenStmt |-> Methods({}, {"conditionname"}),
   UnlistenStmt |-> Methods({}, {"conditionname"}),
   CheckPointStmt |-> Methods({}, {}),
   ReindexStmt |-> Methods({"options"}, {"kind", "name", "options",
     "concurrently"})]
PreparedMethods ==
  [DeallocateStmt |-> Methods({}, {"name"}),
   PrepareStmt |-> Methods({"argtypes", "query"}, {"name", "argtypes",
     "query"}),
   ExecuteStmt |-> Methods({"params"}, {"name", "params"}),
   LoadStmt |-> Methods({}, {"filename"}),
   CallStmt |-> Methods({"funccall"}, {"funccall"})]
SequenceMethods ==
  [RenameStmt |-> Methods({"relation", "object"}, {"rename_type",
     "relation_type", "relation", "object", "subname", "newname", "behavior",
     "missing_ok"}),
   AlterOwnerStmt |-> Methods({"object", "newowner"}, {"object_type",
     "object", "newowner"}),
   CreateSeqStmt |-> Methods({"sequence", "options"}, {"sequence", "options",
     "for_identity", "if_not_exists"}),
   AlterSeqStmt |-> Methods({"sequence", "options"}, {"sequence", "options",
     "for_identity", "missing_ok"}),
   CreateFunctionStmt |-> Methods({"funcname", "parameters", "return_type",
     "options"}, {"is_procedure", "replace", "funcname", "parameters",
     "return_type", "options"}),
   AlterFunctionStmt |-> Methods({"funcname", "args", "actions"}, {"funcname",
     "args", "actions"})]
ExtensionMethods ==
  [CreateLanguageStmt |-> Methods({"plhandler", "inline_handler",
     "validator"}, {"replace", "trusted", "lanname", "plhandler",
     "inline_handler", "validator"}),
   DropLanguageStmt |-> Methods({}, {"lanname", "missing_ok"}),
   DoStmt |-> Methods({}, {"code", "lanname"}),
   CreateExtensionStmt |-> Methods({}, {"if_not_exists", "extname", "schema",
     "version", "cascade"}),
   DropExtensionStmt |-> Methods({}, {"extnames", "missing_ok", "cascade"}),
   CreateTrigStmt |-> Methods({"relation", "funcname", "args", "columns",
     "when_clause", "transition_rels"}, {"replace", "isconstraint",
     "trigname", "relation", "funcname", "args", "row", "timing", "events",
     "columns", "when_clause", "transition_rels", "deferrable",
     "initdeferred", "constrrel"})]
RoleMethods ==
  [CreateRoleStmt |-> Methods({"options"}, {"stmt_type", "role", "options"}),
   AlterRoleStmt |-> Methods({"role", "options"}, {"role", "options",
     "action"}),
   DropRoleStmt |-> Methods({"roles"}, {"roles", "missing_ok"}),
   GrantStmt |-> Methods({"privileges", "targobjs", "grantees"}, {"is_grant",
     "targtype", "objtype", "privileges", "targobjs", "grant_option",
     "grantees", "behavior"}),
   GrantRoleStmt |-> Methods({"granted_roles", "grantee_roles", "grantor"},
     {"granted_roles", "grantee_roles", "is_grant", "admin_opt", "grantor",
     "behavior"}),
   CopyStmt |-> Methods({"relation", "attlist", "options", "query"},
     {"relation", "attlist", "is_from", "is_program", "filename", "options",
     "query"})]
StorageMethods ==
  [RefreshMatViewStmt |-> Methods({"relation"}, {"concurrent", "skip_data",
     "relation"}),
   CreateTableSpaceStmt |-> Methods({"owner", "options"}, {"tablespacename",
     "owner", "location", "options"}),
   DropTableSpaceStmt |-> Methods({}, {"tablespacename", "missing_ok"}),
   CreatedbStmt |-> Methods({"options"}, {"dbname", "options"}),
   DropdbStmt |-> Methods({"options"}, {"dbname", "missing_ok", "options"}),
   AlterDatabaseStmt |-> Methods({"options"}, {"dbname", "options"}),
   CreateTypeStmt |-> Methods({"type_name"}, {"type_name", "labels"}),
   CreateDomainStmt |-> Methods({"domainname", "type_name"}, {"domainname",
     "not_null"}),
   CreateCastStmt |-> Methods({"sourcetype", "targettype", "func"}, {"func",
     "without_function", "context"})]
PolicyMethods ==
  [CreatePolicyStmt |-> Methods({"table", "roles", "qual", "with_check"},
     {"policy_name", "table", "permissive", "cmd", "roles", "qual",
     "with_check", "replace"}),
   AlterPolicyStmt |-> Methods({"table", "roles", "qual", "with_check"},
     {"policy_name", "table", "roles", "qual", "with_check"}),
   DropPolicyStmt |-> Methods({"table"}, {"policy_name", "table",
     "missing_ok", "behavior"}),
   CreatePublicationStmt |-> Methods({"publications", "options"}, {"pubname",
     "publications", "for_all_tables", "options"}),
   AlterPublicationStmt |-> Methods({"tables", "options"}, {"pubname",
     "action", "tables", "options"}),
   DropPublicationStmt |-> Methods({}, {"pubnames", "missing_ok", "behavior"}),
   CreateSubscriptionStmt |-> Methods({"options"}, {"subname", "conninfo",
     "publications", "options"}),
   AlterSubscriptionStmt |-> Methods({"options"}, {"subname", "kind",
     "conninfo", "publications", "options"}),
   DropSubscriptionStmt |-> Methods({}, {"subname", "missing_ok", "behavior"})]
ForeignMethods ==
  [CreateForeignTableStmt |-> Methods({"relation", "tableElts", "options"},
     {"relation", "tableElts", "options", "servername", "if_not_exists"}),
   CreateServerStmt |-> Methods({"options", "owner"}, {"servername",
     "servertype", "fdwname", "version", "options", "if_not_exists", "owner"}),
   AlterServerStmt |-> Methods({"options", "owner"}, {"servername", "kind",
     "version", "options", "owner", "has_version"}),
   DropServerStmt |-> Methods({}, {"servernames", "missing_ok", "behavior"}),
   CreateRuleStmt |-> Methods({"relation", "where_clause", "actions"},
     {"replace", "rule_name", "relation", "event", "where_clause", "instead",
     "actions", "nothing"}),
   AlterRuleStmt |-> Methods({"relation", "action"}, {"rule_name", "relation",
     "action", "nothing"}),
   DropRuleStmt |-> Methods({"relation"}, {"rule_names", "relation",
     "missing_ok", "behavior"})]
SystemMethods ==
  [SecLabelStmt |-> Methods({"object"}, {"provider", "objtype", "object",
     "label"}),
   AlterSystemStmt |-> Methods({"args"}, {"name", "args", "kind"}),
   ImportForeignSchemaStmt |-> Methods({"table_list", "options"},
     {"remote_schema", "local_schema", "server_name", "kind", "table_list",
     "options"}),
   Query |-> Methods({"utility_stmt", "cte_list", "rtable", "jointree",
     "merge_action_list", "target_list", "on_conflict", "returning_list",
     "group_clause", "grouping_sets", "having_qual", "window_clause",
     "distinct_clause", "sort_clause", "limit_offset", "limit_count",
     "row_marks", "set_operations", "constraint_deps", "with_check_options"},
     {"command_type", "query_source", "query_id", "can_set_tag",
     "utility_stmt", "result_relation", "has_aggs", "has_window_funcs",
     "has_target_srfs", "has_sub_links", "has_distinct_on", "has_recursive",
     "has_modifying_cte", "has_for_update", "has_row_security", "is_return",
     "cte_list", "rtable", "jointree", "merge_action_list",
     "merge_use_outer_join", "target_list", "override_kind", "on_conflict",
     "returning_list", "group_clause", "group_distinct", "grouping_sets",
     "having_qual", "window_clause", "distinct_clause", "sort_clause",
     "limit_offset", "limit_count", "limit_option", "row_marks",
     "set_operations", "constraint_deps", "with_check_options",
     "stmt_location", "stmt_len"})]
PrimitiveMethods ==
  [Var |-> Methods({}, {"varno", "varattno", "vartype", "vartypmod",
     "varcollid", "varlevelsup", "varnosyn", "varattnosyn", "location"}),
   Const |-> Methods({}, {"consttype", "consttypmod", "constcollid",
     "constlen", "constvalue", "constisnull", "constbyval", "location"}),
   Param |-> Methods({}, {"paramkind", "paramid", "paramtype", "paramtypmod",
     "paramcollid", "location"}),
   OpExpr |-> Methods({"args"}, {"opno", "opfuncid", "opresulttype",
     "opretset", "opcollid", "inputcollid", "args", "location"}),
   FuncExpr |-> Methods({"args"}, {"funcid", "funcresulttype", "funcretset",
     "funcvariadic", "funcformat", "funccollid", "inputcollid", "args",
     "location"}),
   Aggref |-> Methods({"aggargtypes", "aggdirectargs", "args", "aggorder",
     "aggdistinct", "aggfilter"}, {"aggfnoid", "aggtype", "aggcollid",
     "inputcollid", "aggtranstype", "aggargtypes", "aggdirectargs", "args",
     "aggorder", "aggdistinct", "aggfilter", "aggstar", "aggvariadic",
     "aggkind", "agglevelsup", "aggsplit", "aggno", "aggtransno", "location"})]
BooleanMethods ==
  [BoolExpr |-> Methods({"args"}, {"boolop", "args", "location"}),
   NullTest |-> Methods({"arg"}, {"arg", "nulltesttype", "argisrow",
     "location"}),
   BooleanTest |-> Methods({"arg"}, {"arg", "booltesttype", "location"}),
   CaseExpr |-> Methods({"arg", "args", "defresult"}, {"casetype",
     "casecollid", "arg", "args", "defresult", "location"}),
   CaseWhen |-> Methods({"expr", "result"}, {"expr", "result", "location"}),
   SubLink |-> Methods({"testexpr", "opername", "subselect"}, {"sublinktype",
     "sublinkid", "testexpr", "opername", "subselect", "location"}),
   RelabelType |-> Methods({"arg"}, {"arg", "resulttype", "resulttypmod",
     "resultcollid", "relabelformat", "location"}),
   CoerceViaIO |-> Methods({"arg"}, {"arg", "resulttype", "resultcollid",
     "coerceformat", "location"})]
CoercionMethods ==
  [ScalarArrayOpExpr |-> Methods({"args"}, {"opno", "opfuncid", "hashfuncid",
     "negfuncid", "use_or", "inputcollid", "args", "location"}),
   CoerceToDomain |-> Methods({"arg"}, {"arg", "resulttype", "resulttypmod",
     "resultcollid", "coercionformat", "location"})]
InlineMethods ==
  [CoalesceExpr |-> Methods({"args"}, {"coalescetype", "args", "location"}),
   MinMaxExpr |-> Methods({"args"}, {"minmaxtype", "minmaxcollid", "args",
     "location"}),
   NullIfExpr |-> Methods({"args"}, {"opno", "opresulttype", "opretset",
     "opcollid", "inputcollid", "args", "location"}),
   SQLValueFunction |-> Methods({}, {"op", "type", "location"})]
JoinMethods ==
  [TargetEntry |-> Methods({"expr"}, {"expr", "resno", "resname",
     "ressortgroupref", "resorigtbl", "resorigcol", "resjunk"}),
   RangeTblRef |-> Methods({}, {"rtindex"}),
   JoinExpr |-> Methods({"larg", "rarg", "using_clause", "quals"},
     {"jointype", "is_natural", "larg", "rarg", "using_clause", "quals",
     "rtindex"}),
   FromExpr |-> Methods({"fromlist", "quals"}, {"fromlist", "quals"})]

MethodsOf ==
  NameMethods @@ AExprMethods @@ ExpressionMethods @@ TargetMethods @@
  DefinitionMethods @@ ConstraintMethods @@ PartitionMethods @@
  RangeTableMethods @@ ClauseMethods @@ MergeMethods @@ QueryMethods @@
  TableMethods @@ UtilityMethods @@ SessionMethods @@ PreparedMethods @@
  SequenceMethods @@ ExtensionMethods @@ RoleMethods @@ StorageMethods @@
  PolicyMethods @@ ForeignMethods @@ SystemMethods @@ PrimitiveMethods @@
  BooleanMethods @@ CoercionMethods @@ InlineMethods @@ JoinMethods
=============================================================================
