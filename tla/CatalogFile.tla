---------------------------- MODULE CatalogFile ----------------------------
(***************************************************************************)
(* The catalog's file: Catalog::Save writes the user rows of every table   *)
(* as lines of tab-separated fields, Catalog::Load reads them back.        *)
(*                                                                         *)
(* Text is a sequence of symbols.  The characters the format gives a       *)
(* meaning to are symbols of their own; a numeral, which contains none of  *)
(* them, is one symbol.  A row is the sequence of its fields.  Of a        *)
(* serialiser the model keeps the order of the fields and the formatter    *)
(* each goes through, of a deserialiser the order and the parsers.         *)
(***************************************************************************)
EXTENDS Integers, Sequences, SequencesExt, FiniteSetsExt, TLC

CONSTANTS Chars,                 \* characters of a text field
          MaxLen,                \* bound: length of a text field
          kFirstNormalObjectId   \* the first OID of a user's row

VARIABLES table, row, file, loaded, pc

vars == <<table, row, file, loaded, pc>>

None == "none"

(***************************************************************************)
(* Text                                                                    *)
(***************************************************************************)
Special == ("\\" :> "\\") @@ [TAB |-> "t", NL |-> "n", CR |-> "r"]

(* A loop over the positions of s.                                         *)
Loop(Step(_, _), first, s) ==
  LET after[i \in 0 .. Len(s)] ==
        IF i = 0 THEN first ELSE Step(after[i - 1], i)
  IN after[Len(s)]

(* Mutant: the escape character itself is written as it is.                *)
EscapeSeparators(s) ==
  FlattenSeq([i \in DOMAIN s |->
    IF s[i] \in {"TAB", "NL", "CR"} THEN <<"\\", Special[s[i]]>> ELSE <<s[i]>>])

EscapeStr(s) ==
  FlattenSeq([i \in DOMAIN s |->
    IF s[i] \in DOMAIN Special THEN <<"\\", Special[s[i]]>> ELSE <<s[i]>>])

(* A sequence that means nothing stays: the backslash now, the character   *)
(* after it on its own turn.                                               *)
UnescapeStr(s) ==
  LET Meant(c) == {e \in DOMAIN Special : Special[e] = c}
      Step(acc, i) ==
        IF i = acc.skip THEN acc
        ELSE IF s[i] = "\\" /\ i < Len(s) /\ Meant(s[i + 1]) # {}
             THEN [out |-> Append(acc.out, CHOOSE e \in Meant(s[i + 1]) : TRUE),
                   skip |-> i + 1]
             ELSE [acc EXCEPT !.out = Append(@, s[i])]
  IN Loop(Step, [out |-> <<>>, skip |-> 0], s).out

(* The numbers of a set, ascending.                                        *)
InOrder(N) ==
  SelectSeq([i \in 1 .. Max({0} \cup N) |-> i], LAMBDA i : i \in N)

(* The second character of a pair: an odd number of escapes before it.     *)
Escaped(s, i) ==
  (i - 1 - Max({0} \cup {j \in 1 .. i - 1 : s[j] # "\\"})) % 2 = 1

(* s cut at the positions in cuts, without the characters in dropped.      *)
Pieces(s, cuts, dropped) ==
  LET ends == InOrder(cuts)
      Start(k) == IF k = 1 THEN 1 ELSE ends[k - 1] + 1
      Piece(k) == LET kept == InOrder((Start(k) .. ends[k] - 1) \ dropped)
                  IN [i \in DOMAIN kept |-> s[kept[i]]]
  IN [k \in DOMAIN ends |-> Piece(k)]

Separators(s, c) == {i \in DOMAIN s : s[i] = c /\ ~Escaped(s, i)} \cup {Len(s) + 1}

Join(parts, separator) ==
  FlattenSeq([i \in DOMAIN parts |->
    IF i = 1 THEN parts[i] ELSE <<separator>> \o parts[i]])

SplitTab(line) ==
  LET fields == Pieces(line, Separators(line, "TAB"), {})
  IN [i \in DOMAIN fields |-> UnescapeStr(fields[i])]

JoinTab(fields) == Join(fields, "TAB")

(* std::getline until the end of the file.                                 *)
Lines(text) ==
  Pieces(text,
         {i \in DOMAIN text : text[i] = "NL"}
           \cup {i \in {Len(text) + 1} : text # <<>> /\ Last(text) # "NL"},
         {})

(***************************************************************************)
(* Fields.  A float is counted in tenths of the last decimal to_string     *)
(* writes.                                                                 *)
(***************************************************************************)
U == "uint32"
I == "int"
B == "bool"
F == "float"
S == "string"
E == "enum"
C == "char"
Z == "char or nothing"
O == "integers"
V == "strings"

Numbers == -1 .. 20
Numeral(n) == <<ToString(n)>>
IsNumeral(s) == \E n \in Numbers : s = Numeral(n)
ParseNumber(s) == CHOOSE n \in Numbers : s = Numeral(n)

FmtOidVec(v) == Join([i \in DOMAIN v |-> Numeral(v[i])], ",")

FmtStrVec(v) ==
  Join([i \in DOMAIN v |->
         FlattenSeq([j \in DOMAIN v[i] |->
           IF v[i][j] \in {"\\", ","} THEN <<"\\", v[i][j]>> ELSE <<v[i][j]>>])],
       ",")

Fmt(kind, v) ==
  CASE kind \in {U, I} -> Numeral(v)
    [] kind = F -> Numeral(10 * ((v + 5) \div 10))
    [] kind = B -> Numeral(IF v THEN 1 ELSE 0)
    [] kind \in {E, C, Z} -> <<v>>
    [] kind = S -> EscapeStr(v)
    [] kind = O -> FmtOidVec(v)
    [] kind = V -> FmtStrVec(v)

(* An element that is not a number is dropped.                             *)
ParseOidVec(s) ==
  LET parts == SelectSeq(Pieces(s, Separators(s, ","), {}), IsNumeral)
  IN [i \in DOMAIN parts |-> ParseNumber(parts[i])]

ParseStrVec(s) ==
  Pieces(s, Separators(s, ","), {i \in 1 .. Len(s) - 1 : s[i] = "\\" /\ ~Escaped(s, i)})

Parses(kind, s) ==
  CASE kind \in {U, I, F} -> IsNumeral(s)
    [] kind = B -> s \in {Numeral(0), Numeral(1)}
    [] kind \in {E, C} -> s # <<>>
    [] OTHER -> TRUE

Parse(kind, s) ==
  CASE kind \in {U, I, F} -> ParseNumber(s)
    [] kind = B -> s = Numeral(1)
    [] kind \in {E, C} -> s[1]
    [] kind = Z -> IF s = <<>> THEN "NUL" ELSE s[1]
    [] kind = S -> s
    [] kind = O -> ParseOidVec(s)
    [] kind = V -> ParseStrVec(s)

(***************************************************************************)
(* The row types.  A character field of pg_attribute may be empty in the   *)
(* file.                                                                   *)
(***************************************************************************)
FormData_pg_class ==
  [oid |-> U, relname |-> S, relnamespace |-> U, reltype |-> U, reloftype |-> U,
   relowner |-> U, relam |-> U, relfilenode |-> U, reltablespace |-> U,
   relpages |-> I, reltuples |-> F, reltoastrelid |-> U, relhasindex |-> B,
   relisshared |-> B, relpersistence |-> E, relkind |-> E, relnatts |-> I,
   relchecks |-> I, relhasrules |-> B, relhastriggers |-> B,
   relrowsecurity |-> B, relforcerowsecurity |-> B, relispopulated |-> B,
   relreplident |-> C, relispartition |-> B, relfrozenxid |-> U,
   relminmxid |-> U]

FormData_pg_attribute ==
  [attrelid |-> U, attname |-> S, atttypid |-> U, attstattarget |-> I,
   attlen |-> I, attnum |-> I, attndims |-> I, attcacheoff |-> I, atttypmod |-> I,
   attbyval |-> B, attstorage |-> E, attalign |-> E, attnotnull |-> B,
   atthasdef |-> B, atthasmissing |-> B, attidentity |-> Z, attgenerated |-> Z,
   attisdropped |-> B, attislocal |-> B, attinhcount |-> I, attcollation |-> U]

FormData_pg_type ==
  [oid |-> U, typname |-> S, typnamespace |-> U, typowner |-> U, typlen |-> I,
   typbyval |-> B, typtype |-> E, typcategory |-> E, typispreferred |-> B,
   typisdefined |-> B, typdelim |-> C, typrelid |-> U, typelem |-> U,
   typarray |-> U, typinput |-> U, typoutput |-> U, typreceive |-> U,
   typsend |-> U, typmodin |-> U, typmodout |-> U, typanalyze |-> U,
   typalign |-> E, typstorage |-> E, typnotnull |-> B, typbasetype |-> U,
   typtypmod |-> I, typndims |-> I, typcollation |-> U, typdefault |-> S,
   typdefaultbin |-> S]

FormData_pg_operator ==
  [oid |-> U, oprname |-> S, oprnamespace |-> U, oprowner |-> U, oprkind |-> E,
   oprcanmerge |-> B, oprcanhash |-> B, oprleft |-> U, oprright |-> U,
   oprresult |-> U, oprcom |-> U, oprnegate |-> U, oprcode |-> U, oprrest |-> U,
   oprjoin |-> U]

FormData_pg_proc ==
  [oid |-> U, proname |-> S, pronamespace |-> U, proowner |-> U, prolang |-> U,
   procost |-> F, prorows |-> F, provariadic |-> U, prosupport |-> U,
   prokind |-> E, prosecdef |-> B, proleakproof |-> B, proisstrict |-> B,
   proretset |-> B, provolatile |-> E, proparallel |-> E, pronargs |-> I,
   pronargdefaults |-> I, prorettype |-> U, proargtypes |-> O,
   proallargtypes |-> O, proargmodes |-> S, proargnames |-> S,
   proargdefaults |-> S, protrftypes |-> O, prosrc |-> S, probin |-> S,
   prosqlbody |-> S, proconfig |-> V, proacl |-> V]

FormData_pg_cast ==
  [oid |-> U, castsource |-> U, casttarget |-> U, castfunc |-> U,
   castcontext |-> E, castmethod |-> E]

FormData_pg_aggregate ==
  [aggfnoid |-> U, aggkind |-> E, aggnumdirectargs |-> I, aggtransfn |-> U,
   aggfinalfn |-> U, aggcombinefn |-> U, aggserialfn |-> U,
   aggdeserialfn |-> U, aggmtransfn |-> U, aggminvtransfn |-> U,
   aggmfinalfn |-> U, aggfinalextra |-> B, aggmfinalextra |-> B,
   aggfinalmodify |-> E, aggmfinalmodify |-> E, aggsortop |-> U,
   aggtranstype |-> U, aggtransspace |-> I, aggmtranstype |-> U,
   aggmtransspace |-> I, agginitval |-> S, aggminitval |-> S]

FormData_pg_collation ==
  [oid |-> U, collname |-> S, collnamespace |-> U, collowner |-> U,
   collprovider |-> E, collisdeterministic |-> B, collencoding |-> I,
   collcollate |-> S, collctype |-> S, colliculocale |-> S, collversion |-> S]

FormData_pg_namespace == [oid |-> U, nspname |-> S, nspowner |-> U, nspacl |-> B]

FormData_pg_database ==
  [oid |-> U, datname |-> S, datdba |-> U, encoding |-> I, datcollate |-> S,
   datctype |-> S, datistemplate |-> B, datallowconn |-> B, datconnlimit |-> I,
   datlastsysoid |-> U, datsize |-> I, datacl |-> B, datfrozenxid |-> U,
   datminmxid |-> U]

FormData_pg_index ==
  [indexrelid |-> U, indrelid |-> U, indnatts |-> I, indnkeyatts |-> I,
   indisunique |-> B, indisprimary |-> B, indisexclusion |-> B,
   indisimmediate |-> B, indisclustered |-> B, indisvalid |-> B,
   indcheckxmin |-> B, indisready |-> B, indislive |-> B, indisreplident |-> B,
   indkey |-> O, indcollation |-> O, indclass |-> O, indoption |-> O,
   indpred |-> U, indexprs |-> U]

FormData_pg_constraint ==
  [oid |-> U, conname |-> S, connamespace |-> U, contype |-> E,
   condeferrable |-> B, condeferred |-> B, convalidated |-> B, conrelid |-> U,
   contypid |-> U, conindid |-> U, conparentid |-> U, conkey |-> O, confkey |-> O,
   conpfeqop |-> O, conppeqop |-> O, conffeqop |-> O, confdelsetcols |-> O,
   confupdtype |-> E, confdeltype |-> E, confmatchtype |-> E, conislocal |-> B,
   coninhcount |-> I, connoinherit |-> B, conbin |-> S, consrc |-> S]

FormData_pg_attrdef == [oid |-> U, adrelid |-> U, adnum |-> I, adbin |-> S, adsrc |-> S]

FormData_pg_depend ==
  [classid |-> U, objid |-> U, objsubid |-> I, refclassid |-> U, refobjid |-> U,
   refobjsubid |-> I, deptype |-> E]

FormData_pg_statistic ==
  [starelid |-> U, staattnum |-> I, stainherit |-> B, stanullfrac |-> F,
   stawidth |-> I, stadistinct |-> I, stakind1 |-> I, stakind2 |-> I,
   stakind3 |-> I, stakind4 |-> I, stakind5 |-> I, staop1 |-> U, staop2 |-> U,
   staop3 |-> U, staop4 |-> U, staop5 |-> U, stacoll1 |-> U, stacoll2 |-> U,
   stacoll3 |-> U, stacoll4 |-> U, stacoll5 |-> U, stavalues1 |-> S,
   stavalues2 |-> S, stavalues3 |-> S, stavalues4 |-> S, stavalues5 |-> S]

FormData_pg_inherits == [inhrelid |-> U, inhparent |-> U, inhseqnum |-> I]

FormData_pg_am ==
  [oid |-> U, amname |-> S, amtype |-> E, amhandler |-> U, amcanorder |-> B,
   amcanorderbyop |-> B, amcanbackward |-> B, amcanunique |-> B,
   amcanmulticol |-> B, amoptionalkey |-> B, amsearcharray |-> B,
   amsearchnulls |-> B, amstorage |-> B, amclusterable |-> B,
   ampredlocks |-> B, amkeytype |-> B, amsummarizing |-> B, amcaninclude |-> B,
   amusemaintenanceworkmem |-> B]

FormData_pg_tablespace ==
  [oid |-> U, spcname |-> S, spcowner |-> U, spcacl |-> B, spcmaxsize |-> I,
   spclocation |-> S, spcoptions |-> S]

FormData_pg_trigger ==
  [oid |-> U, tgrelid |-> U, tgparentid |-> U, tgname |-> S, tgfoid |-> U,
   tgenabled |-> E, tgisinternal |-> B, tgnargs |-> I, tgargs |-> S, tgattr |-> O,
   tgconstrrelid |-> U, tgconstrindid |-> U, tgconstraint |-> U,
   tgdeferrable |-> B, tginitdeferred |-> B, tgqual |-> U, tgnewtable |-> S,
   tgoldtable |-> S]

FormData_pg_rewrite ==
  [oid |-> U, ev_class |-> U, rulename |-> S, ev_type |-> C, ev_enabled |-> B,
   is_instead |-> B, ev_qual |-> U, ev_action |-> U]

FormData_pg_language ==
  [oid |-> U, lanname |-> S, lanpltrusted |-> B, lanplcallfoid |-> U,
   laninlinefoid |-> U, lanvalidator |-> U, lanispl |-> B, lanacl |-> V]

FormData_pg_extension ==
  [oid |-> U, extname |-> S, extowner |-> U, extnamespace |-> U,
   extrelocatable |-> B, extversion |-> S, extconfig |-> O, extcondition |-> V]

(***************************************************************************)
(* The order in which a row's fields are written, and the order in which   *)
(* they are read.                                                          *)
(***************************************************************************)
SerPgClass ==
  <<"oid", "relname", "relnamespace", "reltype", "reloftype", "relowner",
    "relam", "relfilenode", "reltablespace", "relpages", "reltuples",
    "reltoastrelid", "relhasindex", "relisshared", "relpersistence",
    "relkind", "relnatts", "relchecks", "relhasrules", "relhastriggers",
    "relrowsecurity", "relforcerowsecurity", "relispopulated", "relreplident",
    "relispartition", "relfrozenxid", "relminmxid">>

SerPgAttribute ==
  <<"attrelid", "attname", "atttypid", "attstattarget", "attlen", "attnum",
    "attndims", "attcacheoff", "atttypmod", "attbyval", "attstorage",
    "attalign", "attnotnull", "atthasdef", "atthasmissing", "attidentity",
    "attgenerated", "attisdropped", "attislocal", "attinhcount",
    "attcollation">>

SerPgType ==
  <<"oid", "typname", "typnamespace", "typowner", "typlen", "typbyval",
    "typtype", "typcategory", "typispreferred", "typisdefined", "typdelim",
    "typrelid", "typelem", "typarray", "typinput", "typoutput", "typreceive",
    "typsend", "typmodin", "typmodout", "typanalyze", "typalign",
    "typstorage", "typnotnull", "typbasetype", "typtypmod", "typndims",
    "typcollation", "typdefault", "typdefaultbin">>

SerPgOperator ==
  <<"oid", "oprname", "oprnamespace", "oprowner", "oprkind", "oprcanmerge",
    "oprcanhash", "oprleft", "oprright", "oprresult", "oprcom", "oprnegate",
    "oprcode", "oprrest", "oprjoin">>

SerPgProc ==
  <<"oid", "proname", "pronamespace", "proowner", "prolang", "procost",
    "prorows", "provariadic", "prosupport", "prokind", "prosecdef",
    "proleakproof", "proisstrict", "proretset", "provolatile", "proparallel",
    "pronargs", "pronargdefaults", "prorettype", "proargtypes",
    "proallargtypes", "proargmodes", "proargnames", "proargdefaults",
    "protrftypes", "prosrc", "probin", "prosqlbody", "proconfig", "proacl">>

SerPgCast ==
  <<"oid", "castsource", "casttarget", "castfunc", "castcontext", "castmethod">>

SerPgAggregate ==
  <<"aggfnoid", "aggkind", "aggnumdirectargs", "aggtransfn", "aggfinalfn",
    "aggcombinefn", "aggserialfn", "aggdeserialfn", "aggmtransfn",
    "aggminvtransfn", "aggmfinalfn", "aggfinalextra", "aggmfinalextra",
    "aggfinalmodify", "aggmfinalmodify", "aggsortop", "aggtranstype",
    "aggtransspace", "aggmtranstype", "aggmtransspace", "agginitval",
    "aggminitval">>

SerPgCollation ==
  <<"oid", "collname", "collnamespace", "collowner", "collprovider",
    "collisdeterministic", "collencoding", "collcollate", "collctype",
    "colliculocale", "collversion">>

SerPgNamespace == <<"oid", "nspname", "nspowner", "nspacl">>

SerPgDatabase ==
  <<"oid", "datname", "datdba", "encoding", "datcollate", "datctype",
    "datistemplate", "datallowconn", "datconnlimit", "datlastsysoid",
    "datsize", "datacl", "datfrozenxid", "datminmxid">>

SerPgIndex ==
  <<"indexrelid", "indrelid", "indnatts", "indnkeyatts", "indisunique",
    "indisprimary", "indisexclusion", "indisimmediate", "indisclustered",
    "indisvalid", "indcheckxmin", "indisready", "indislive", "indisreplident",
    "indkey", "indcollation", "indclass", "indoption", "indpred", "indexprs">>

SerPgConstraint ==
  <<"oid", "conname", "connamespace", "contype", "condeferrable",
    "condeferred", "convalidated", "conrelid", "contypid", "conindid",
    "conparentid", "conkey", "confkey", "conpfeqop", "conppeqop", "conffeqop",
    "confdelsetcols", "confupdtype", "confdeltype", "confmatchtype",
    "conislocal", "coninhcount", "connoinherit", "conbin", "consrc">>

SerPgAttrdef == <<"oid", "adrelid", "adnum", "adbin", "adsrc">>

SerPgDepend ==
  <<"classid", "objid", "objsubid", "refclassid", "refobjid", "refobjsubid",
    "deptype">>

SerPgStatistic ==
  <<"starelid", "staattnum", "stainherit", "stanullfrac", "stawidth",
    "stadistinct", "stakind1", "stakind2", "stakind3", "stakind4", "stakind5",
    "staop1", "staop2", "staop3", "staop4", "staop5", "stacoll1", "stacoll2",
    "stacoll3", "stacoll4", "stacoll5", "stavalues1", "stavalues2",
    "stavalues3", "stavalues4", "stavalues5">>

SerPgInherits == <<"inhrelid", "inhparent", "inhseqnum">>

SerPgAm ==
  <<"oid", "amname", "amtype", "amhandler", "amcanorder", "amcanorderbyop",
    "amcanbackward", "amcanunique", "amcanmulticol", "amoptionalkey",
    "amsearcharray", "amsearchnulls", "amstorage", "amclusterable",
    "ampredlocks", "amkeytype", "amsummarizing", "amcaninclude",
    "amusemaintenanceworkmem">>

SerPgTablespace ==
  <<"oid", "spcname", "spcowner", "spcacl", "spcmaxsize", "spclocation",
    "spcoptions">>

SerPgTrigger ==
  <<"oid", "tgrelid", "tgparentid", "tgname", "tgfoid", "tgenabled",
    "tgisinternal", "tgnargs", "tgargs", "tgattr", "tgconstrrelid",
    "tgconstrindid", "tgconstraint", "tgdeferrable", "tginitdeferred",
    "tgqual", "tgnewtable", "tgoldtable">>

SerPgRewrite ==
  <<"oid", "ev_class", "rulename", "ev_type", "ev_enabled", "is_instead",
    "ev_qual", "ev_action">>

SerPgLanguage ==
  <<"oid", "lanname", "lanpltrusted", "lanplcallfoid", "laninlinefoid",
    "lanvalidator", "lanispl">>

SerPgExtension ==
  <<"oid", "extname", "extowner", "extnamespace", "extrelocatable",
    "extversion", "extconfig", "extcondition">>

DeserPgClass ==
  <<"oid", "relname", "relnamespace", "reltype", "reloftype", "relowner",
    "relam", "relfilenode", "reltablespace", "relpages", "reltuples",
    "reltoastrelid", "relhasindex", "relisshared", "relpersistence",
    "relkind", "relnatts", "relchecks", "relhasrules", "relhastriggers",
    "relrowsecurity", "relforcerowsecurity", "relispopulated", "relreplident",
    "relispartition", "relfrozenxid", "relminmxid">>

DeserPgAttribute ==
  <<"attrelid", "attname", "atttypid", "attstattarget", "attlen", "attnum",
    "attndims", "attcacheoff", "atttypmod", "attbyval", "attstorage",
    "attalign", "attnotnull", "atthasdef", "atthasmissing", "attidentity",
    "attgenerated", "attisdropped", "attislocal", "attinhcount",
    "attcollation">>

DeserPgType ==
  <<"oid", "typname", "typnamespace", "typowner", "typlen", "typbyval",
    "typtype", "typcategory", "typispreferred", "typisdefined", "typdelim",
    "typrelid", "typelem", "typarray", "typinput", "typoutput", "typreceive",
    "typsend", "typmodin", "typmodout", "typanalyze", "typalign",
    "typstorage", "typnotnull", "typbasetype", "typtypmod", "typndims",
    "typcollation", "typdefault", "typdefaultbin">>

DeserPgOperator ==
  <<"oid", "oprname", "oprnamespace", "oprowner", "oprkind", "oprcanmerge",
    "oprcanhash", "oprleft", "oprright", "oprresult", "oprcom", "oprnegate",
    "oprcode", "oprrest", "oprjoin">>

DeserPgProc ==
  <<"oid", "proname", "pronamespace", "proowner", "prolang", "procost",
    "prorows", "provariadic", "prosupport", "prokind", "prosecdef",
    "proleakproof", "proisstrict", "proretset", "provolatile", "proparallel",
    "pronargs", "pronargdefaults", "prorettype", "proargtypes",
    "proallargtypes", "proargmodes", "proargnames", "proargdefaults",
    "protrftypes", "prosrc", "probin", "prosqlbody", "proconfig", "proacl">>

DeserPgCast ==
  <<"oid", "castsource", "casttarget", "castfunc", "castcontext", "castmethod">>

DeserPgAggregate ==
  <<"aggfnoid", "aggkind", "aggnumdirectargs", "aggtransfn", "aggfinalfn",
    "aggcombinefn", "aggserialfn", "aggdeserialfn", "aggmtransfn",
    "aggminvtransfn", "aggmfinalfn", "aggfinalextra", "aggmfinalextra",
    "aggfinalmodify", "aggmfinalmodify", "aggsortop", "aggtranstype",
    "aggtransspace", "aggmtranstype", "aggmtransspace", "agginitval",
    "aggminitval">>

DeserPgCollation ==
  <<"oid", "collname", "collnamespace", "collowner", "collprovider",
    "collisdeterministic", "collencoding", "collcollate", "collctype",
    "colliculocale", "collversion">>

DeserPgNamespace == <<"oid", "nspname", "nspowner", "nspacl">>

DeserPgDatabase ==
  <<"oid", "datname", "datdba", "encoding", "datcollate", "datctype",
    "datistemplate", "datallowconn", "datconnlimit", "datlastsysoid",
    "datsize", "datacl", "datfrozenxid", "datminmxid">>

DeserPgIndex ==
  <<"indexrelid", "indrelid", "indnatts", "indnkeyatts", "indisunique",
    "indisprimary", "indisexclusion", "indisimmediate", "indisclustered",
    "indisvalid", "indcheckxmin", "indisready", "indislive", "indisreplident",
    "indkey", "indcollation", "indclass", "indoption", "indpred", "indexprs">>

DeserPgConstraint ==
  <<"oid", "conname", "connamespace", "contype", "condeferrable",
    "condeferred", "convalidated", "conrelid", "contypid", "conindid",
    "conparentid", "conkey", "confkey", "conpfeqop", "conppeqop", "conffeqop",
    "confdelsetcols", "confupdtype", "confdeltype", "confmatchtype",
    "conislocal", "coninhcount", "connoinherit", "conbin", "consrc">>

DeserPgAttrdef == <<"oid", "adrelid", "adnum", "adbin", "adsrc">>

DeserPgDepend ==
  <<"classid", "objid", "objsubid", "refclassid", "refobjid", "refobjsubid",
    "deptype">>

DeserPgStatistic ==
  <<"starelid", "staattnum", "stainherit", "stanullfrac", "stawidth",
    "stadistinct", "stakind1", "stakind2", "stakind3", "stakind4", "stakind5",
    "staop1", "staop2", "staop3", "staop4", "staop5", "stacoll1", "stacoll2",
    "stacoll3", "stacoll4", "stacoll5", "stavalues1", "stavalues2",
    "stavalues3", "stavalues4", "stavalues5">>

DeserPgInherits == <<"inhrelid", "inhparent", "inhseqnum">>

DeserPgAm ==
  <<"oid", "amname", "amtype", "amhandler", "amcanorder", "amcanorderbyop",
    "amcanbackward", "amcanunique", "amcanmulticol", "amoptionalkey",
    "amsearcharray", "amsearchnulls", "amstorage", "amclusterable",
    "ampredlocks", "amkeytype", "amsummarizing", "amcaninclude",
    "amusemaintenanceworkmem">>

DeserPgTablespace ==
  <<"oid", "spcname", "spcowner", "spcacl", "spcmaxsize", "spclocation",
    "spcoptions">>

DeserPgTrigger ==
  <<"oid", "tgrelid", "tgparentid", "tgname", "tgfoid", "tgenabled",
    "tgisinternal", "tgnargs", "tgargs", "tgattr", "tgconstrrelid",
    "tgconstrindid", "tgconstraint", "tgdeferrable", "tginitdeferred",
    "tgqual", "tgnewtable", "tgoldtable">>

DeserPgRewrite ==
  <<"oid", "ev_class", "rulename", "ev_type", "ev_enabled", "is_instead",
    "ev_qual", "ev_action">>

DeserPgLanguage ==
  <<"oid", "lanname", "lanpltrusted", "lanplcallfoid", "laninlinefoid",
    "lanvalidator", "lanispl">>

DeserPgExtension ==
  <<"oid", "extname", "extowner", "extnamespace", "extrelocatable",
    "extversion", "extconfig", "extcondition">>

Tables ==
  {"pg_class", "pg_attribute", "pg_type", "pg_operator", "pg_proc", "pg_cast",
   "pg_aggregate", "pg_collation", "pg_namespace", "pg_database", "pg_index",
   "pg_constraint", "pg_attrdef", "pg_depend", "pg_statistic", "pg_inherits",
   "pg_am", "pg_tablespace", "pg_trigger", "pg_rewrite", "pg_language",
   "pg_extension"}

FormData(t) ==
  CASE t = "pg_class" -> FormData_pg_class
    [] t = "pg_attribute" -> FormData_pg_attribute
    [] t = "pg_type" -> FormData_pg_type
    [] t = "pg_operator" -> FormData_pg_operator
    [] t = "pg_proc" -> FormData_pg_proc [] t = "pg_cast" -> FormData_pg_cast
    [] t = "pg_aggregate" -> FormData_pg_aggregate
    [] t = "pg_collation" -> FormData_pg_collation
    [] t = "pg_namespace" -> FormData_pg_namespace
    [] t = "pg_database" -> FormData_pg_database
    [] t = "pg_index" -> FormData_pg_index
    [] t = "pg_constraint" -> FormData_pg_constraint
    [] t = "pg_attrdef" -> FormData_pg_attrdef
    [] t = "pg_depend" -> FormData_pg_depend
    [] t = "pg_statistic" -> FormData_pg_statistic
    [] t = "pg_inherits" -> FormData_pg_inherits
    [] t = "pg_am" -> FormData_pg_am
    [] t = "pg_tablespace" -> FormData_pg_tablespace
    [] t = "pg_trigger" -> FormData_pg_trigger
    [] t = "pg_rewrite" -> FormData_pg_rewrite
    [] t = "pg_language" -> FormData_pg_language
    [] t = "pg_extension" -> FormData_pg_extension

Ser(t) ==
  CASE t = "pg_class" -> SerPgClass [] t = "pg_attribute" -> SerPgAttribute
    [] t = "pg_type" -> SerPgType [] t = "pg_operator" -> SerPgOperator
    [] t = "pg_proc" -> SerPgProc [] t = "pg_cast" -> SerPgCast
    [] t = "pg_aggregate" -> SerPgAggregate
    [] t = "pg_collation" -> SerPgCollation
    [] t = "pg_namespace" -> SerPgNamespace
    [] t = "pg_database" -> SerPgDatabase [] t = "pg_index" -> SerPgIndex
    [] t = "pg_constraint" -> SerPgConstraint
    [] t = "pg_attrdef" -> SerPgAttrdef [] t = "pg_depend" -> SerPgDepend
    [] t = "pg_statistic" -> SerPgStatistic
    [] t = "pg_inherits" -> SerPgInherits [] t = "pg_am" -> SerPgAm
    [] t = "pg_tablespace" -> SerPgTablespace
    [] t = "pg_trigger" -> SerPgTrigger [] t = "pg_rewrite" -> SerPgRewrite
    [] t = "pg_language" -> SerPgLanguage
    [] t = "pg_extension" -> SerPgExtension

Deser(t) ==
  CASE t = "pg_class" -> DeserPgClass
    [] t = "pg_attribute" -> DeserPgAttribute [] t = "pg_type" -> DeserPgType
    [] t = "pg_operator" -> DeserPgOperator [] t = "pg_proc" -> DeserPgProc
    [] t = "pg_cast" -> DeserPgCast [] t = "pg_aggregate" -> DeserPgAggregate
    [] t = "pg_collation" -> DeserPgCollation
    [] t = "pg_namespace" -> DeserPgNamespace
    [] t = "pg_database" -> DeserPgDatabase [] t = "pg_index" -> DeserPgIndex
    [] t = "pg_constraint" -> DeserPgConstraint
    [] t = "pg_attrdef" -> DeserPgAttrdef [] t = "pg_depend" -> DeserPgDepend
    [] t = "pg_statistic" -> DeserPgStatistic
    [] t = "pg_inherits" -> DeserPgInherits [] t = "pg_am" -> DeserPgAm
    [] t = "pg_tablespace" -> DeserPgTablespace
    [] t = "pg_trigger" -> DeserPgTrigger
    [] t = "pg_rewrite" -> DeserPgRewrite
    [] t = "pg_language" -> DeserPgLanguage
    [] t = "pg_extension" -> DeserPgExtension

(* The order in which Save writes the tables.                              *)
Sections ==
  <<"pg_class", "pg_attribute", "pg_type", "pg_operator", "pg_proc",
    "pg_cast", "pg_aggregate", "pg_collation", "pg_namespace",
    "pg_database", "pg_index", "pg_constraint", "pg_attrdef", "pg_depend",
    "pg_statistic", "pg_inherits", "pg_am", "pg_tablespace", "pg_trigger",
    "pg_rewrite", "pg_language", "pg_extension">>

(* The field whose OID makes a row a user's row.                           *)
KeyField(t) == IF t = "pg_depend" THEN Ser(t)[2] ELSE Ser(t)[1]

(***************************************************************************)
(* Save and Load                                                           *)
(***************************************************************************)
Line(t, r) ==
  JoinTab([i \in DOMAIN Ser(t) |-> Fmt(FormData(t)[Ser(t)[i]], r[Ser(t)[i]])])

(* The text of a catalog that has the row r in table t, and next_oid.      *)
Text(t, r) ==
  <<"magic", "NL", "next_oid", "TAB", ToString(r[KeyField(t)]), "NL">>
    \o FlattenSeq([i \in DOMAIN Sections |->
         <<"[", Sections[i], "NL">> \o
         IF Sections[i] = t /\ r[KeyField(t)] >= kFirstNormalObjectId
         THEN Line(t, r) \o <<"NL">> ELSE <<>>])

Default(kind) ==
  CASE kind = U -> 9 [] kind \in {I, F} -> 0 [] kind = B -> FALSE
    [] kind = E -> "r" [] kind = C -> "d" [] kind = Z -> "NUL"
    [] OTHER -> <<>>

Accepts(t, fields) ==
  /\ Len(fields) >= Len(Deser(t))
  /\ \A i \in DOMAIN Deser(t) : Parses(FormData(t)[Deser(t)[i]], fields[i])

(* The rows of a file, each with its table: a line that does not parse is  *)
(* skipped, and a file with another header has none.                       *)
Rows(text) ==
  LET lines == Lines(text)
      IsSection(i) == lines[i] # <<>> /\ lines[i][1] = "["
      header == /\ Len(lines) >= 2
                /\ lines[1] = <<"magic">>
                /\ LET f == SplitTab(lines[2])
                   IN Len(f) >= 2 /\ f[1] = <<"next_oid">> /\ IsNumeral(f[2])
      Section(i) ==
        LET before == {j \in 3 .. i : IsSection(j)}
        IN IF before = {} THEN None ELSE lines[Max(before)][2]
      data == {i \in 3 .. Len(lines) :
                 /\ lines[i] # <<>> /\ ~IsSection(i)
                 /\ Section(i) \in Tables
                 /\ Accepts(Section(i), SplitTab(lines[i]))}
      Row(i) ==
        LET fields == SplitTab(lines[i])
            t == Section(i)
        IN <<t, [f \in DOMAIN FormData(t) |->
                   IF f \in Range(Deser(t))
                   THEN Parse(FormData(t)[f], fields[SelectInSeq(Deser(t), LAMBDA g : g = f)])
                   ELSE Default(FormData(t)[f])]>>
      order == InOrder(data)
  IN IF header THEN [k \in DOMAIN order |-> Row(order[k])] ELSE <<>>

(***************************************************************************)
(* The rows the model saves: defaults in all fields but one, which takes   *)
(* every value of its kind.                                                *)
(***************************************************************************)
Values(kind) ==
  CASE kind = U -> {0, 9} [] kind = I -> {-1, 3} [] kind = B -> BOOLEAN
    [] kind = F -> {0, 14} [] kind = E -> {"r", "p"} [] kind = C -> {"d", ","}
    [] kind = Z -> {"NUL", "a"}
    [] kind = S -> BoundedSeq(Chars, MaxLen)
    [] kind = O -> BoundedSeq({0, 9}, 2)
    [] kind = V -> BoundedSeq(BoundedSeq(Chars, 1), 2)

Init ==
  /\ table \in Tables
  /\ \E f \in DOMAIN FormData(table) : \E v \in Values(FormData(table)[f]) :
       row = [g \in DOMAIN FormData(table) |->
               IF g = f THEN v ELSE Default(FormData(table)[g])]
  /\ file = <<>>
  /\ loaded = <<>>
  /\ pc = "save"

Save ==
  /\ pc = "save"
  /\ pc' = "load"
  /\ file' = Text(table, row)
  /\ UNCHANGED <<table, row, loaded>>

Load ==
  /\ pc = "load"
  /\ pc' = "done"
  /\ loaded' = Rows(file)
  /\ UNCHANGED <<table, row, file>>

Next == Save \/ Load

Spec == Init /\ [][Next]_vars

-----------------------------------------------------------------------------
(* A row without string lists, whose floats have six decimals.             *)
Exact(t, r) ==
  \A f \in DOMAIN r : /\ FormData(t)[f] # V
                      /\ FormData(t)[f] = F => r[f] % 10 = 0

(* What was saved is what is loaded, whatever characters its names and     *)
(* texts contain: a user's row comes back once, in its table and field by  *)
(* field, a built-in row (which bootstrap recreates) not at all.           *)
LoadInvertsSave ==
  pc = "done" /\ Exact(table, row) =>
    loaded = IF row[KeyField(table)] >= kFirstNormalObjectId
             THEN << <<table, row>> >> ELSE <<>>

(* The same of every row, as the format's description claims: "every       *)
(* physical line is exactly one row or one section header".                *)
EveryLineIsARow ==
  pc = "done" /\ row[KeyField(table)] >= kFirstNormalObjectId =>
    Len(loaded) = 1
=============================================================================
