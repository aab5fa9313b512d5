---------------------------- MODULE Expressions ----------------------------
(***************************************************************************)
(* Evaluation of expressions: the interpreter of the executor              *)
(* (src/executor/exec_expr.cpp) and the functions that the LLVM provider   *)
(* compiles in its place (src/jit/).                                       *)
(*                                                                         *)
(* A behaviour builds an expression around a column, one node per step, as *)
(* the parser would type it; the properties are about its value for a row. *)
(* A Datum is a machine word.  int4 and int8 are kInt4Bits and kInt8Bits   *)
(* wide, an int4 being zero-extended in its Datum; the Datum of a float8   *)
(* or a text is its rank among the values at hand.  Signed overflow wraps, *)
(* as it does in the build.                                                *)
(***************************************************************************)
EXTENDS Integers, Sequences, FiniteSets, FiniteSetsExt, SequencesExt, TLC

CONSTANTS Types,       \* types of the columns
          Columns,     \* Datums a column may have, besides NULL
          Operators,   \* names of the operators that are applied
          Functions,   \* names of the functions that are called
          kInt4Bits,
          kInt8Bits,
          MaxNodes     \* bound: nodes put around the column

VARIABLES expr,        \* the expression
          type,        \* its type
          coltype,     \* the type of the columns and of the parameter
          row,         \* ecxt_scantuple: the two columns, each [val, isNull]
          params,      \* g_param_values and g_param_isnull
          nodes        \* nodes put around the column

vars == <<expr, type, coltype, row, params, nodes>>

Comparisons == {"=", "<>", "<", "<=", ">", ">="}
Arithmetic == {"+", "-", "*", "/"}

Value(d) == [val |-> d, isNull |-> FALSE]
SqlNull == [val |-> 0, isNull |-> TRUE]

(* Nodes.  A column is a Var of the scan tuple.                            *)
Var(n, t) == [tag |-> "Var", attno |-> n, type |-> t]
Const(v, t) == [tag |-> "Const", value |-> v, type |-> t]
Param(n, t) == [tag |-> "Param", paramid |-> n, type |-> t]
OpExpr(name, left, l, r) == [tag |-> "OpExpr", name |-> name, left |-> left, args |-> <<l, r>>]
ScalarArrayOpExpr(name, left, use_or, x, elements) ==
  [tag |-> "ScalarArrayOpExpr", name |-> name, left |-> left, use_or |-> use_or, arg |-> x,
   elements |-> elements]
FuncExpr(name, argtype, args) ==
  [tag |-> "FuncExpr", name |-> name, argtype |-> argtype, args |-> args]
BoolExpr(op, args) == [tag |-> "BoolExpr", op |-> op, args |-> args]
NullTest(is_null, x) == [tag |-> "NullTest", is_null |-> is_null, arg |-> x]
CaseExpr(whens, defresult) == [tag |-> "CaseExpr", whens |-> whens, defresult |-> defresult]
CoalesceExpr(args) == [tag |-> "CoalesceExpr", args |-> args]
MinMaxExpr(op, args) == [tag |-> "MinMaxExpr", op |-> op, args |-> args]
NullIfExpr(left, a, b) == [tag |-> "NullIfExpr", left |-> left, args |-> <<a, b>>]
RelabelType(x) == [tag |-> "RelabelType", arg |-> x]

---------------------------------------------------------------------------
(* Datums.                                                                 *)

Signed(d, bits) == LET low == d % 2^bits IN IF low < 2^(bits - 1) THEN low ELSE low - 2^bits
DatumGetInt32(d) == Signed(d, kInt4Bits)
DatumGetInt64(d) == Signed(d, kInt8Bits)
Int32GetDatum(i) == i % 2^kInt4Bits
Int64GetDatum(i) == i % 2^kInt8Bits
BoolGetDatum(b) == IF b THEN 1 ELSE 0
DatumGetBool(d) == d # 0

(* What the branch for a type reads from a Datum.                          *)
Read(t, d) ==
  CASE t \in {"int4", "date"} -> DatumGetInt32(d)
    [] t \in {"int8", "timestamp"} -> DatumGetInt64(d)
    [] t = "bool" -> BoolGetDatum(DatumGetBool(d))
    [] OTHER -> d

Holds(name, l, r) ==
  CASE name = "=" -> l = r
    [] name = "<>" -> l # r
    [] name = "<" -> l < r
    [] name = "<=" -> l <= r
    [] name = ">" -> l > r
    [] name = ">=" -> l >= r

(* A type without a branch, and an order on bool, compare as false.        *)
ApplyComparison(name, t, l, r) ==
  BoolGetDatum(
    /\ t \in {"int4", "date", "int8", "timestamp", "float8", "text", "bool"}
    /\ t = "bool" => name \in {"=", "<>"}
    /\ Holds(name, Read(t, l), Read(t, r)))

(* C++ division rounds towards zero.                                       *)
Quotient(l, r) ==
  LET abs(i) == IF i < 0 THEN -i ELSE i
  IN IF (l < 0) = (r < 0) THEN abs(l) \div abs(r) ELSE -(abs(l) \div abs(r))
Compute(name, l, r) ==
  CASE name = "+" -> l + r
    [] name = "-" -> l - r
    [] name = "*" -> l * r
    [] name = "/" -> IF r # 0 THEN Quotient(l, r) ELSE 0

ApplyArithmetic(name, t, l, r) ==
  CASE t = "int4" -> Int32GetDatum(Compute(name, DatumGetInt32(l), DatumGetInt32(r)))
    [] t = "int8" -> Int64GetDatum(Compute(name, DatumGetInt64(l), DatumGetInt64(r)))
    [] t = "float8" -> Compute(name, l, r)
    [] OTHER -> 0

---------------------------------------------------------------------------
(* The interpreter.                                                        *)

GetSlotAttr(slot, attno) == IF attno \in DOMAIN slot THEN slot[attno] ELSE SqlNull

(* Of a function that is called by name, the arguments that are looked at  *)
(* for NULL.  What the library returns otherwise is some value; here the   *)
(* first argument.                                                         *)
NullChecked ==
  [f \in {"length", "abs", "ceil", "floor", "round", "sqrt", "log", "log10", "exp", "sign",
          "trunc", "substr", "trim", "btrim", "ltrim", "rtrim"} |-> {1}] @@
  [f \in {"extract", "date_trunc", "substring", "power", "mod", "position", "lpad",
          "rpad"} |-> {1, 2}] @@
  [f \in {"regexp_replace", "replace", "split_part"} |-> {1, 2, 3}]

(* The first non-NULL value of a sequence of results.                      *)
FirstValue(args) ==
  IF \A i \in DOMAIN args : args[i].isNull THEN SqlNull
  ELSE args[Min({i \in DOMAIN args : ~args[i].isNull})]

RECURSIVE Best(_, _, _, _)
(* The loop of GREATEST and LEAST over results, best being the best so far.*)
Best(name, t, args, best) ==
  IF args = <<>> THEN best
  ELSE LET x == Head(args) IN
       Best(name, t, Tail(args),
            IF x.isNull THEN best
            ELSE IF best.isNull \/ DatumGetBool(ApplyComparison(name, t, x.val, best.val))
                 THEN x ELSE best)

nullif(a, b, equal) == IF a.isNull \/ (~b.isNull /\ equal) THEN SqlNull ELSE a

CallFunction(f, argtype, args) ==
  CASE f = "coalesce" -> FirstValue(args)
    [] f = "nullif" -> IF Len(args) # 2 THEN SqlNull
                       ELSE nullif(args[1], args[2], args[1].val = args[2].val)
    [] f \in {"greatest", "least"} ->
         Best(IF f = "greatest" THEN ">" ELSE "<", argtype, args, SqlNull)
    [] f \in DOMAIN NullChecked ->
         IF \E i \in NullChecked[f] : args[i].isNull THEN SqlNull ELSE Value(args[1].val)
    [] OTHER -> SqlNull

(* OpExpr on two results.                                                  *)
CallOperator(name, t, l, r) ==
  IF l.isNull \/ r.isNull THEN SqlNull
  ELSE CASE name \in Comparisons -> Value(ApplyComparison(name, t, l.val, r.val))
         [] name \in Arithmetic -> Value(ApplyArithmetic(name, t, l.val, r.val))
         [] OTHER -> SqlNull

(* Mutant: an IN list that matches nothing is false although it has a NULL.*)
ScanIgnoringNulls(name, t, use_or, x, elements) ==
  LET matched(e) == DatumGetBool(ApplyComparison(name, t, x.val, e.val))
      decides(e) == ~e.isNull /\ (matched(e) = use_or)
  IN IF x.isNull THEN SqlNull
     ELSE Value(BoolGetDatum(use_or = (\E i \in DOMAIN elements : decides(elements[i]))))

(* The loop over an IN list: the first element that decides, else NULL     *)
(* where an element is.                                                    *)
ScanElements(name, t, use_or, x, elements) ==
  LET matched(e) == DatumGetBool(ApplyComparison(name, t, x.val, e.val))
      decides(e) == ~e.isNull /\ (matched(e) = use_or)
  IN IF x.isNull THEN SqlNull
     ELSE IF \E i \in DOMAIN elements : decides(elements[i])
          THEN Value(BoolGetDatum(use_or))
     ELSE IF \E i \in DOMAIN elements : elements[i].isNull THEN SqlNull
     ELSE Value(BoolGetDatum(~use_or))

(* AND stops at the first false argument, OR at the first true one; NULL   *)
(* arguments are passed over.                                              *)
EvalBool(op, args) ==
  LET true(i) == ~args[i].isNull /\ DatumGetBool(args[i].val)
      false(i) == ~args[i].isNull /\ ~DatumGetBool(args[i].val)
  IN CASE op = "and" -> Value(BoolGetDatum(\A i \in DOMAIN args : ~false(i)))
       [] op = "or" -> Value(BoolGetDatum(\E i \in DOMAIN args : true(i)))
       [] op = "not" -> IF args = <<>> \/ args[1].isNull THEN SqlNull
                        ELSE Value(BoolGetDatum(false(1)))

RECURSIVE ExecEvalExpr(_)
ExecEvalExpr(e) ==
  LET eval(x) == ExecEvalExpr(x)
      all(xs) == [i \in DOMAIN xs |-> eval(xs[i])]
      true(x) == LET v == eval(x) IN ~v.isNull /\ DatumGetBool(v.val)
  IN CASE e.tag = "Var" -> GetSlotAttr(row, e.attno)
       [] e.tag = "Const" -> e.value
       [] e.tag = "Param" -> GetSlotAttr(params, e.paramid)
       [] e.tag = "OpExpr" -> CallOperator(e.name, e.left, eval(e.args[1]), eval(e.args[2]))
       [] e.tag = "ScalarArrayOpExpr" ->
            ScanElements(e.name, e.left, e.use_or, eval(e.arg), all(e.elements))
       [] e.tag = "FuncExpr" -> CallFunction(e.name, e.argtype, all(e.args))
       [] e.tag = "BoolExpr" -> EvalBool(e.op, all(e.args))
       [] e.tag = "NullTest" -> Value(BoolGetDatum(eval(e.arg).isNull = e.is_null))
       [] e.tag = "CaseExpr" ->
            LET hits == {i \in DOMAIN e.whens : true(e.whens[i].cond)}
            IN eval(IF hits = {} THEN e.defresult ELSE e.whens[Min(hits)].result)
       [] e.tag = "CoalesceExpr" -> FirstValue(all(e.args))
       [] e.tag = "MinMaxExpr" ->
            Best(IF e.op = "greatest" THEN ">" ELSE "<", "int4", all(e.args), SqlNull)
       [] e.tag = "NullIfExpr" ->
            LET a == eval(e.args[1])
                b == eval(e.args[2])
            IN nullif(a, b, DatumGetBool(ApplyComparison("=", e.left, a.val, b.val)))
       [] e.tag = "RelabelType" -> eval(e.arg)

---------------------------------------------------------------------------
(* The LLVM provider.                                                      *)

IsSupportedOp(name, t) ==
  t \in {"int4", "int8", "float8"} /\ name \in Comparisons \cup Arithmetic

RECURSIVE AnalyzeNode(_)
AnalyzeNode(e) ==
  \/ e.tag \in {"Var", "Const"}
  \/ /\ e.tag = "OpExpr"
     /\ IsSupportedOp(e.name, e.left)
     /\ \A i \in DOMAIN e.args : AnalyzeNode(e.args[i])

(* ExprAnalysis.leaves, in the order of the walk.                          *)
RECURSIVE Leaves(_)
Leaves(e) ==
  IF e.tag = "OpExpr" THEN Leaves(e.args[1]) \o Leaves(e.args[2]) ELSE <<e>>

GetLeafIndex(e, leaves) == Min({i \in DOMAIN leaves : leaves[i] = e})

(* LLVMBuildTrunc to i32.                                                  *)
Trunc(d) == d % 2^kInt4Bits

(* Mutant: an int4 result is sign-extended into the Datum.                 *)
InstructionSignExtends(name, t, l, r) ==
  LET at(d) == CASE t = "int4" -> Signed(Trunc(d), kInt4Bits)
                 [] t = "int8" -> Signed(d, kInt8Bits)
                 [] t = "float8" -> d
  IN IF name \in Comparisons THEN BoolGetDatum(Holds(name, at(l), at(r)))
     ELSE Compute(name, at(l), at(r)) % 2^kInt8Bits

(* The instructions for an operator.  SDiv by zero has no result: see      *)
(* Raises.                                                                 *)
Instruction(name, t, l, r) ==
  LET at(d) == CASE t = "int4" -> Signed(Trunc(d), kInt4Bits)
                 [] t = "int8" -> Signed(d, kInt8Bits)
                 [] t = "float8" -> d
  IN IF name \in Comparisons THEN BoolGetDatum(Holds(name, at(l), at(r)))
     ELSE CASE t = "int4" -> Compute(name, at(l), at(r)) % 2^kInt4Bits
            [] t = "int8" -> Compute(name, at(l), at(r)) % 2^kInt8Bits
            [] t = "float8" -> Compute(name, at(l), at(r))

RECURSIVE GenIr(_, _, _)
GenIr(e, leaves, values) ==
  IF e.tag = "OpExpr"
  THEN Instruction(e.name, e.left, GenIr(e.args[1], leaves, values),
                   GenIr(e.args[2], leaves, values))
  ELSE values[GetLeafIndex(e, leaves)]

(* JitCompileExpr with the LLVM provider gives a context.  A function that *)
(* would return a double does not pass LLVMVerifyModule.                   *)
LlvmCompileExpr(e) ==
  /\ e.tag = "OpExpr"
  /\ AnalyzeNode(e)
  /\ e.left = "float8" => e.name \in Comparisons

LlvmEvalWrapper(e) ==
  LET leaves == Leaves(e)
      results == [i \in DOMAIN leaves |-> ExecEvalExpr(leaves[i])]
  IN IF \E i \in DOMAIN results : results[i].isNull THEN SqlNull
     ELSE Value(GenIr(e, leaves, [i \in DOMAIN results |-> results[i].val]))

(* An expression's value, as ExecProject stores it, and whether a row      *)
(* passes a qual.                                                          *)
Evaluate(e, jit) == IF jit /\ LlvmCompileExpr(e) THEN LlvmEvalWrapper(e) ELSE ExecEvalExpr(e)
ExecQual(e, jit) == LET v == Evaluate(e, jit) IN ~v.isNull /\ DatumGetBool(v.val)

---------------------------------------------------------------------------
(* Building expressions.                                                   *)

Constants(t) == {Const(v, t) : v \in {Value(1), SqlNull}}
Operands(t) ==
  Constants(t) \cup
  IF t = coltype THEN {Var(2, t), Param(1, t)} ELSE {}

Init ==
  /\ coltype \in Types
  /\ type = coltype
  /\ expr = Var(1, coltype)
  /\ LET datums == IF coltype = "bool" THEN {0, 1} ELSE Columns
     IN row \in [1 .. 2 -> {Value(d) : d \in datums} \cup {SqlNull}]
  /\ params \in {<<>>, <<Value(1)>>}
  /\ nodes = 0

Around(e, t) ==
  /\ nodes < MaxNodes
  /\ nodes' = nodes + 1
  /\ expr' = e
  /\ type' = t
  /\ UNCHANGED <<coltype, row, params>>

(* The catalog also orders bool, which ApplyComparison does not.           *)
Compare ==
  \E name \in Operators \cap Comparisons, x \in Operands(type) :
    /\ type = "bool" => name \in {"=", "<>"}
    /\ Around(OpExpr(name, type, expr, x), "bool")

Calculate ==
  /\ type \in {"int4", "int8", "float8"}
  /\ \E name \in Operators \cap Arithmetic, x \in Operands(type) :
       \/ Around(OpExpr(name, type, expr, x), type)
       \/ Around(OpExpr(name, type, x, expr), type)

InList ==
  \E use_or \in BOOLEAN, x \in Operands(type), y \in Constants(type) :
    Around(ScalarArrayOpExpr(IF use_or THEN "=" ELSE "<>", type, use_or, expr, <<x, y>>),
           "bool")

(* pg_proc has "greatest" and "least" for int4 only.                       *)
Call ==
  type # "bool" /\ \E f \in Functions, x \in Operands(type) :
    /\ f \in {"greatest", "least"} => type = "int4"
    /\ Around(FuncExpr(f, type, IF f = "nullif" THEN <<expr, x>> ELSE <<x, expr, x>>), type)

Logic ==
  /\ type = "bool"
  /\ \/ Around(BoolExpr("not", <<expr>>), "bool")
     \/ \E op \in {"and", "or"}, x \in Operands("bool") :
          Around(BoolExpr(op, <<x, expr>>), "bool")

Test == \E is_null \in BOOLEAN : Around(NullTest(is_null, expr), "bool")

Case ==
  /\ type = "bool"
  /\ \E x \in Operands(coltype), y \in Constants(coltype) :
       Around(CaseExpr(<<[cond |-> expr, result |-> x]>>, y), coltype)

Choose ==
  \E x \in Operands(type) :
    \/ Around(CoalesceExpr(<<expr, x>>), type)
    \/ Around(NullIfExpr(type, expr, x), type)
    \/ /\ type = "int4"
       /\ \E op \in {"greatest", "least"} : Around(MinMaxExpr(op, <<x, expr>>), type)

Relabel == Around(RelabelType(expr), type)

Next ==
  Compare \/ Calculate \/ InList \/ Call \/ Logic \/ Test \/ Case \/ Choose \/ Relabel

Spec == Init /\ [][Next]_vars

---------------------------------------------------------------------------
(* What SQL says.  Truth values are ordered false, unknown, true; AND is   *)
(* the least of its arguments, OR the greatest.                            *)

Truth(v) == IF v.isNull THEN 1 ELSE 2 * v.val
FromTruth(n) == IF n = 1 THEN SqlNull ELSE Value(n \div 2)

RECURSIVE SqlValue(_)
SqlValue(e) ==
  LET sql(x) == SqlValue(x)
      values(xs) == {sql(xs[i]) : i \in DOMAIN xs}
      known(xs) == {v.val : v \in {w \in values(xs) : ~w.isNull}}
      op(name, a, b) ==
        IF a.isNull \/ b.isNull THEN SqlNull
        ELSE IF name \in Comparisons THEN Value(BoolGetDatum(Holds(name, a.val, b.val)))
        ELSE Value(Compute(name, a.val, b.val))
      leaf(v) == IF v.isNull THEN SqlNull ELSE Value(Read(e.type, v.val))
      first(xs) == IF known(xs) = {} THEN SqlNull
                   ELSE CHOOSE v \in values(xs) : \E i \in DOMAIN xs :
                          /\ sql(xs[i]) = v /\ ~v.isNull
                          /\ \A j \in 1 .. i - 1 : sql(xs[j]).isNull
      different(x, y) == IF op("=", sql(x), sql(y)) = Value(1) THEN SqlNull ELSE sql(x)
      extreme(greatest, xs) ==
        IF known(xs) = {} THEN SqlNull
        ELSE Value(IF greatest THEN Max(known(xs)) ELSE Min(known(xs)))
  IN CASE e.tag = "Var" -> leaf(row[e.attno])
       [] e.tag = "Const" -> leaf(e.value)
       [] e.tag = "Param" -> IF params = <<>> THEN SqlNull ELSE leaf(params[e.paramid])
       [] e.tag = "OpExpr" -> op(e.name, sql(e.args[1]), sql(e.args[2]))
       [] e.tag = "ScalarArrayOpExpr" ->
            LET truths == {Truth(op(e.name, sql(e.arg), v)) : v \in values(e.elements)}
            IN FromTruth(IF e.use_or THEN Max(truths) ELSE Min(truths))
       [] e.tag = "FuncExpr" ->
            (CASE e.name = "coalesce" -> first(e.args)
               [] e.name = "nullif" -> different(e.args[1], e.args[2])
               [] e.name \in {"greatest", "least"} -> extreme(e.name = "greatest", e.args)
               [] OTHER -> IF SqlNull \in values(e.args) THEN SqlNull ELSE sql(e.args[1]))
       [] e.tag = "BoolExpr" ->
            LET truths == {Truth(v) : v \in values(e.args)}
            IN FromTruth(CASE e.op = "and" -> Min(truths)
                           [] e.op = "or" -> Max(truths)
                           [] e.op = "not" -> 2 - Max(truths))
       [] e.tag = "NullTest" -> Value(BoolGetDatum(sql(e.arg).isNull = e.is_null))
       [] e.tag = "CaseExpr" ->
            IF sql(e.whens[1].cond) = Value(1) THEN sql(e.whens[1].result) ELSE sql(e.defresult)
       [] e.tag = "CoalesceExpr" -> first(e.args)
       [] e.tag = "MinMaxExpr" -> extreme(e.op = "greatest", e.args)
       [] e.tag = "NullIfExpr" -> different(e.args[1], e.args[2])
       [] e.tag = "RelabelType" -> sql(e.arg)

Children(e) ==
  CASE e.tag \in {"Var", "Const", "Param"} -> <<>>
    [] e.tag = "ScalarArrayOpExpr" -> <<e.arg>> \o e.elements
    [] e.tag \in {"NullTest", "RelabelType"} -> <<e.arg>>
    [] e.tag = "CaseExpr" -> <<e.whens[1].cond, e.whens[1].result, e.defresult>>
    [] OTHER -> e.args

RECURSIVE NodesOf(_)
NodesOf(e) == {e} \cup UNION {NodesOf(x) : x \in Range(Children(e))}

(* Where SQL raises an error, an integer out of range or a division by     *)
(* zero, the code has no such check.                                       *)
Raises(e) ==
  /\ e.tag = "OpExpr" /\ e.name \in Arithmetic
  /\ LET a == SqlValue(e.args[1])
         b == SqlValue(e.args[2])
         c == Compute(e.name, a.val, b.val)
     IN /\ ~a.isNull /\ ~b.isNull
        /\ \/ e.name = "/" /\ b.val = 0
           \/ e.left # "float8" /\ Read(e.left, c) # c

(* AND or OR of arguments that leave it unknown, and a NULL among the      *)
(* arguments of a function that the code does not look at.                 *)
LosesNull(e) ==
  \/ e.tag = "BoolExpr" /\ e.op # "not" /\ SqlValue(e).isNull
  \/ /\ e.tag = "FuncExpr" /\ e.name \in DOMAIN NullChecked
     /\ \E i \in DOMAIN e.args \ NullChecked[e.name] : SqlValue(e.args[i]).isNull

(* The interpreter gives every expression the value SQL gives it: the      *)
(* shortcuts of CASE, COALESCE, IN and the loops of GREATEST and LEAST     *)
(* treat NULL as unknown, whatever they are nested in.  Left out are the   *)
(* expressions for which SQL has an error instead of a value, and those    *)
(* with a node that loses a NULL (NullQualFails).                          *)
EvaluatesAsSql ==
  (\A e \in NodesOf(expr) : ~Raises(e) /\ ~LosesNull(e)) =>
    LET v == ExecEvalExpr(expr)
        s == SqlValue(expr)
    IN /\ v.isNull = s.isNull
       /\ ~v.isNull => Read(type, v.val) = s.val

(* The compiled function returns the very Datum that the interpreter       *)
(* returns, and NULL where it does, unless the expression divides by zero. *)
CompiledAgrees ==
  (\A e \in NodesOf(expr) : ~Raises(e)) =>
    LET v == Evaluate(expr, TRUE)
        w == ExecEvalExpr(expr)
    IN /\ v.isNull = w.isNull
       /\ ~v.isNull => v.val = w.val

(* A row passes a qual only if the qual is true.  AND forgets its NULL     *)
(* arguments: a row whose column is NULL passes "column = 1 AND true".     *)
NullQualFails ==
  (type = "bool" /\ \A e \in NodesOf(expr) : ~Raises(e)) =>
    (ExecQual(expr, FALSE) => SqlValue(expr) = Value(1))
===========================================================================
