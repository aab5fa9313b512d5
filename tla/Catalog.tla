------------------------------ MODULE Catalog ------------------------------
(***************************************************************************)
(* The system catalog of one process: the row vectors of the 22 catalog    *)
(* tables and the functions that insert, find and delete rows              *)
(* (catalog/catalog.cpp), the undo copy that makes DDL transactional, the  *)
(* relation cache and the system cache that keep pointers to rows          *)
(* (access/rel.cpp, catalog/syscache.cpp), and the DDL commands            *)
(* (commands/) as the utility dispatcher runs them in a transaction.       *)
(*                                                                         *)
(* A row is kept with the epoch it was allocated in. A rollback frees and  *)
(* reallocates every user row, and so begins a new epoch: a pointer taken  *)
(* in an earlier one dangles. Names are sequences, so that the names the   *)
(* commands derive from other names can be told apart.                     *)
(***************************************************************************)
EXTENDS Integers, Sequences, SequencesExt, FiniteSets, TLC

CONSTANTS Names,                 \* names a client uses for relations and types
          NewNames,              \* names it gives to what it renames or derives
          kFirstNormalObjectId,  \* smaller OIDs belong to built-in rows
          MaxOid,                \* bound on OIDs handed out
          MaxCalls,              \* bound on commands and lookups
          MaxAborts,             \* bound on rollbacks
          Requires               \* extension name -> the extensions it requires

VARIABLES cat,    \* the catalog, its caches and the files of relations
          start,  \* history: the catalog when the transaction began
          calls   \* commands and lookups so far

vars == <<cat, start, calls>>

kInvalidOid == 0

None == << >>

(***************************************************************************)
(* The interface of each table: its key column, whether the insert         *)
(* function assigns an OID to a row that has none ("assigned") and also    *)
(* rejects one that is taken ("unique"), the columns the lookups go by,    *)
(* and the columns deletions go by: of the first row that matches, or of   *)
(* all.                                                                    *)
(***************************************************************************)
Accessors(key, insert, lookups, deleteFirst, deleteAll) ==
    [key |-> key, insert |-> insert, lookups |-> lookups,
     deleteFirst |-> deleteFirst, deleteAll |-> deleteAll]

pg_class == Accessors("oid", "unique", {{"oid"}, {"relname"}}, {{"oid"}}, {})
pg_attribute == Accessors("attrelid", "given", {{"attrelid", "attnum"}, {"attrelid"}}, {}, {{"attrelid"}})
pg_type == Accessors("oid", "unique", {{"oid"}, {"typname"}}, {}, {})
pg_operator == Accessors("oid", "assigned", {{"oid"}, {"oprname"}, {"oprname", "oprleft", "oprright"}}, {}, {})
pg_proc == Accessors("oid", "assigned", {{"oid"}, {"proname"}}, {}, {})
pg_cast == Accessors("oid", "assigned", {{"castsource", "casttarget"}, {"castsource"}}, {}, {})
pg_aggregate == Accessors("aggfnoid", "given", {{"aggfnoid"}}, {}, {})
pg_collation == Accessors("oid", "assigned", {{"oid"}, {"collname"}}, {}, {})
pg_namespace == Accessors("oid", "assigned", {{"oid"}, {"nspname"}}, {{"oid"}}, {})
pg_database == Accessors("oid", "assigned", {{"oid"}, {"datname"}}, {{"oid"}}, {})
pg_index == Accessors("indexrelid", "assigned", {{"indexrelid"}, {"indrelid"}}, {{"indexrelid"}}, {{"indrelid"}})
pg_constraint == Accessors("oid", "assigned", {{"oid"}, {"conrelid"}}, {{"oid"}}, {{"conrelid"}})
pg_attrdef == Accessors("oid", "assigned", {{"adrelid", "adnum"}, {"adrelid"}}, {{"oid"}}, {{"adrelid"}})
pg_depend == Accessors("objid", "given", {{"refclassid", "refobjid"}, {"classid", "objid"}},
                       {}, {{"classid", "objid"}, {"refclassid", "refobjid"}})
pg_statistic == Accessors("starelid", "given", {{"starelid", "staattnum"}}, {}, {{"starelid"}})
pg_inherits == Accessors("inhrelid", "given", {{"inhparent"}, {"inhrelid"}}, {{"inhrelid"}}, {})
pg_am == Accessors("oid", "assigned", {{"oid"}, {"amname"}}, {}, {})
pg_tablespace == Accessors("oid", "assigned", {{"oid"}, {"spcname"}}, {{"oid"}}, {})
pg_trigger == Accessors("oid", "assigned", {{"oid"}, {"tgrelid"}}, {{"oid"}}, {{"tgrelid"}})
pg_rewrite == Accessors("oid", "assigned", {{"oid"}, {"ev_class"}}, {{"oid"}}, {{"ev_class"}})
pg_language == Accessors("oid", "assigned", {{"oid"}, {"lanname"}}, {{"oid"}}, {})
pg_extension == Accessors("oid", "assigned", {{"oid"}, {"extname"}}, {{"oid"}}, {})

Interface(t) ==
    CASE t = "pg_class" -> pg_class [] t = "pg_attribute" -> pg_attribute
      [] t = "pg_type" -> pg_type [] t = "pg_operator" -> pg_operator
      [] t = "pg_proc" -> pg_proc [] t = "pg_cast" -> pg_cast
      [] t = "pg_aggregate" -> pg_aggregate
      [] t = "pg_collation" -> pg_collation
      [] t = "pg_namespace" -> pg_namespace
      [] t = "pg_database" -> pg_database [] t = "pg_index" -> pg_index
      [] t = "pg_constraint" -> pg_constraint
      [] t = "pg_attrdef" -> pg_attrdef [] t = "pg_depend" -> pg_depend
      [] t = "pg_statistic" -> pg_statistic
      [] t = "pg_inherits" -> pg_inherits [] t = "pg_am" -> pg_am
      [] t = "pg_tablespace" -> pg_tablespace
      [] t = "pg_trigger" -> pg_trigger [] t = "pg_rewrite" -> pg_rewrite
      [] t = "pg_language" -> pg_language
      [] t = "pg_extension" -> pg_extension

Tables ==
    {"pg_class", "pg_attribute", "pg_type", "pg_operator", "pg_proc",
     "pg_cast", "pg_aggregate", "pg_collation", "pg_namespace",
     "pg_database", "pg_index", "pg_constraint", "pg_attrdef", "pg_depend",
     "pg_statistic", "pg_inherits", "pg_am", "pg_tablespace", "pg_trigger",
     "pg_rewrite", "pg_language", "pg_extension"}

\* Mutant: columns are told apart by their number instead of their relation.
SnapshotKeyColumnNumber(t) ==
    CASE t = "pg_attribute" -> "attnum"
      [] t = "pg_aggregate" -> "aggfnoid"
      [] t = "pg_index" -> "indexrelid"
      [] t = "pg_depend" -> "objid"
      [] t = "pg_statistic" -> "starelid"
      [] t = "pg_inherits" -> "inhrelid"
      [] OTHER -> "oid"

\* The column by which the undo copy decides whether a row is a user's.
SnapshotKey(t) ==
    CASE t = "pg_attribute" -> "attrelid"
      [] t = "pg_aggregate" -> "aggfnoid"
      [] t = "pg_index" -> "indexrelid"
      [] t = "pg_depend" -> "objid"
      [] t = "pg_statistic" -> "starelid"
      [] t = "pg_inherits" -> "inhrelid"
      [] OTHER -> "oid"

---------------------------------------------------------------------------
(* Rows *)

\* Positions of the rows of t whose columns have the values of key, for a
\* lookup the table offers.
Matching(c, t, key) ==
    {i \in DOMAIN c.rows[t] :
        /\ DOMAIN key \in Interface(t).lookups \cup Interface(t).deleteFirst
                                               \cup Interface(t).deleteAll
        /\ \A col \in DOMAIN key : c.rows[t][i].v[col] = key[col]}

Exists(c, t, key) == Matching(c, t, key) # {}

\* The first match: what the Get functions return.
Get(c, t, key) == c.rows[t][Min(Matching(c, t, key))].v

\* A relation's columns in the order of their numbers.
GetAttributes(c, relid) ==
    SortSeq(SelectSeq(c.rows["pg_attribute"], LAMBDA r : r.v.attrelid = relid),
            LAMBDA a, b : a.v.attnum < b.v.attnum)

\* ereport(kError): what was done so far stays until the rollback.
Error(c) == [c EXCEPT !.ok = FALSE]

\* A step of a command, on the catalog its earlier steps left: it is taken only
\* if none of them raised an error.
Step(c, Taken(_)) == CHOOSE r \in {IF d.ok THEN Taken(d) ELSE d : d \in {c}} : TRUE

\* Only changes inside a transaction count as changes.
PreWrite(c) == [c EXCEPT !.dirty = @ \/ c.undo # None]

AllocateOid(c) == [c EXCEPT !.next = @ + 1]

Insert(c, t, v) == Step(c, LAMBDA d :
    LET key == Interface(t).key
        assign == Interface(t).insert # "given" /\ v[key] = kInvalidOid
        row == IF assign THEN [v EXCEPT ![key] = d.next] ELSE v
        d1 == IF assign THEN AllocateOid(PreWrite(d)) ELSE PreWrite(d)
    IN  IF /\ Interface(t).insert = "unique"
           /\ \E i \in DOMAIN d.rows[t] : d.rows[t][i].v[key] = row[key]
        THEN Error(d1)
        ELSE [d1 EXCEPT !.rows[t] = Append(@, [at |-> d.epoch, v |-> row])])

\* The deletions erase the pointer; the row itself is not freed.
DeleteFirst(c, t, key) == Step(c, LAMBDA d :
    IF Exists(d, t, key)
    THEN [PreWrite(d) EXCEPT !.rows[t] = RemoveAt(@, Min(Matching(d, t, key)))]
    ELSE PreWrite(d))

DeleteAll(c, t, key) == Step(c, LAMBDA d :
    [PreWrite(d) EXCEPT !.rows[t] =
        SelectSeq(@, LAMBDA r : \E col \in DOMAIN key : r.v[col] # key[col])])

\* A change in place, through a const_cast of what a lookup returned: no
\* function of the catalog sees it.
Change(c, t, key, col, val) == Step(c, LAMBDA d :
    IF Exists(d, t, key)
    THEN [d EXCEPT !.rows[t][Min(Matching(d, t, key))].v[col] = val]
    ELSE d)

UpdateClass(c, oid, col, val) == Change(PreWrite(c), "pg_class", [oid |-> oid], col, val)

---------------------------------------------------------------------------
(* The undo copy *)

IsUser(t, row) == row.v[SnapshotKey(t)] >= kFirstNormalObjectId

TakeSnapshot(c) ==
    [c EXCEPT !.undo = [t \in Tables |-> SelectSeq(c.rows[t], LAMBDA r : IsUser(t, r))]]

\* Mutant: the OID counter goes back as well.
RestoreSnapshotAndOid(c) ==
    [c EXCEPT
        !.rows = [t \in Tables |->
                     SelectSeq(c.rows[t], LAMBDA r : ~IsUser(t, r)) \o
                     FoldLeft(LAMBDA s, r : Append(s, [r EXCEPT !.at = c.epoch + 1]),
                              << >>, c.undo[t])],
        !.next = start.next,
        !.dirty = FALSE]

\* User rows are freed and those of the copy allocated anew. The OID counter
\* is not restored.
RestoreSnapshot(c) ==
    [c EXCEPT
        !.rows = [t \in Tables |->
                     SelectSeq(c.rows[t], LAMBDA r : ~IsUser(t, r)) \o
                     FoldLeft(LAMBDA s, r : Append(s, [r EXCEPT !.at = c.epoch + 1]),
                              << >>, c.undo[t])],
        !.dirty = FALSE]

DiscardSnapshot(c) == [c EXCEPT !.undo = None]

\* CommitDirty writes the whole catalog to the file.
CommitDirty(c) ==
    IF c.dirty
    THEN [c EXCEPT !.dirty = FALSE,
                   !.file = [t \in Tables |->
                       {r.v : r \in {x \in Range(c.rows[t]) : IsUser(t, x)}}]]
    ELSE c

---------------------------------------------------------------------------
(* The relation cache and the files of relations *)

\* A descriptor copies the columns, and points at the row of pg_class.
RelationBuildDesc(c, relid) ==
    LET i == Min(Matching(c, "pg_class", [oid |-> relid]))
        row == c.rows["pg_class"][i]
    IN  [at |-> row.at, natts |-> Len(GetAttributes(c, relid)),
         smgr |-> row.v.relfilenode]

RelationOpen(c, relid) == Step(c, LAMBDA d :
    IF relid \in DOMAIN d.rel \/ ~Exists(d, "pg_class", [oid |-> relid])
    THEN d
    ELSE [d EXCEPT !.rel = (relid :> RelationBuildDesc(d, relid)) @@ @])

\* The storage handle of an open relation, reopened when it was closed.
RelationGetSmgr(c, relid) ==
    IF c.rel[relid].smgr # kInvalidOid
    THEN c.rel[relid].smgr
    ELSE Get(c, "pg_class", [oid |-> relid]).relfilenode

\* smgrcreate fails if the file exists.
RelationCreateStorage(c, relfilenode) == Step(c, LAMBDA d :
    IF relfilenode \in d.storage
    THEN Error(d)
    ELSE [d EXCEPT !.storage = @ \cup {relfilenode}])

\* Buffers are dropped and the handle closed; the file stays.
RelationDropStorage(c, relid) == [c EXCEPT !.rel[relid].smgr = kInvalidOid]

ResetRelcache(c) == [c EXCEPT !.rel = << >>]

---------------------------------------------------------------------------
(* The system cache: filled on a miss, never updated, emptied as a whole *)

\* The cached pointer is known by the row's epoch.
Search(c, cache, key, t, found) ==
    IF <<cache, key>> \in DOMAIN c.sys \/ found = {}
    THEN c
    ELSE [c EXCEPT !.sys = (<<cache, key>> :> c.rows[t][Min(found)].at) @@ @]

SearchClassByOid(c, oid) ==
    Search(c, "kClassOid", <<oid>>, "pg_class", Matching(c, "pg_class", [oid |-> oid]))

SearchClassByName(c, name) ==
    Search(c, "kClassName", <<name>>, "pg_class", Matching(c, "pg_class", [relname |-> name]))

SearchAttributeByNum(c, relid, n) ==
    Search(c, "kAttributeRelidNum", <<relid, n>>, "pg_attribute",
           Matching(c, "pg_attribute", [attrelid |-> relid, attnum |-> n]))

SearchAttributeByName(c, relid, name) ==
    Search(c, "kAttributeRelidName", <<relid, name>>, "pg_attribute",
           {i \in Matching(c, "pg_attribute", [attrelid |-> relid]) :
                c.rows["pg_attribute"][i].v.attname = name})

SearchTypeByOid(c, oid) ==
    Search(c, "kTypeOid", <<oid>>, "pg_type", Matching(c, "pg_type", [oid |-> oid]))

SearchTypeByName(c, name) ==
    Search(c, "kTypeName", <<name>>, "pg_type", Matching(c, "pg_type", [typname |-> name]))

SearchOperatorByNameLRN(c, name, left, right) ==
    Search(c, "kOperatorNameLrN", <<name, left, right>>, "pg_operator",
           Matching(c, "pg_operator", [oprname |-> name, oprleft |-> left, oprright |-> right]))

SearchProcByNameArgsNsp(c, name) ==
    Search(c, "kProcNameArgsNsp", <<name>>, "pg_proc", Matching(c, "pg_proc", [proname |-> name]))

SearchCastBySourceTarget(c, source, target) ==
    Search(c, "kCastSourceTarget", <<source, target>>, "pg_cast",
           Matching(c, "pg_cast", [castsource |-> source, casttarget |-> target]))

Invalidate(c) == [c EXCEPT !.sys = << >>]

---------------------------------------------------------------------------
(* The DDL commands *)

ClassRow(name, kind, natts) ==
    [oid |-> kInvalidOid, relname |-> name, relkind |-> kind, relnatts |-> natts,
     relfilenode |-> kInvalidOid, relhastriggers |-> FALSE, reltuples |-> 0]

AttributeRow(relid, name, n) ==
    [attrelid |-> relid, attname |-> name, attnum |-> n, attisdropped |-> FALSE,
     attnotnull |-> FALSE, atthasdef |-> FALSE]

InsertAttributes(c, relid, columns) ==
    FoldLeft(LAMBDA d, n : Insert(d, "pg_attribute", AttributeRow(relid, columns[n], n)),
             c, [n \in 1..Len(columns) |-> n])

\* A new relation gets the OID as the number of its file.
InsertRelation(c, name, kind, columns) == Step(c, LAMBDA d :
    LET relid == d.next
        d1 == Insert(d, "pg_class", ClassRow(name, kind, Len(columns)))
        d2 == Change(d1, "pg_class", [oid |-> relid], "relfilenode", relid)
    IN  InsertAttributes(d2, relid, columns))

MakeConstraintName(relname, contype) ==
    relname \o <<CASE contype = "primary" -> "1_pkey" [] contype = "unique" -> "1_key"
                   [] contype = "check" -> "1_check" [] OTHER -> "1_fkey">>

\* CREATE INDEX: also for an index that a constraint needs.
DefineIndex(c, heapname, given, columns, method, if_not_exists) == Step(c, LAMBDA d :
    LET heap == Get(d, "pg_class", [relname |-> heapname])
        idxname == IF given = None THEN heapname \o <<"idx">> ELSE given
        oid == d.next
        d1 == InsertRelation(d, idxname, "i", columns)
        d2 == RelationOpen(RelationCreateStorage(d1, oid), oid)
        keys == {a \in Range(GetAttributes(d, heap.oid)) : a.v.attname \in Range(columns)}
    IN  IF ~Exists(d, "pg_class", [relname |-> heapname])
        THEN Error(d)
        ELSE IF Exists(d, "pg_class", [relname |-> idxname])
        THEN IF if_not_exists THEN d ELSE Error(d)
        ELSE IF ~Exists(d, "pg_am", [amname |-> method])
        THEN Error(d)
        ELSE Insert(d2, "pg_index", [indexrelid |-> oid, indrelid |-> heap.oid,
                                     indkey |-> {a.v.attnum : a \in keys}]))

CreateConstraintIndex(c, relname, contype, columns) ==
    DefineIndex(c, relname, MakeConstraintName(relname, contype), columns, <<"btree">>, FALSE)

RecordConstraint(c, relid, relname, contype, conindid) ==
    Insert(c, "pg_constraint",
           [oid |-> kInvalidOid, conrelid |-> relid, contype |-> contype,
            conname |-> MakeConstraintName(relname, contype), conindid |-> conindid])

\* One constraint on the first column; an index for it gets the next OID.
\* "missing" names a column that is not there; "notype" stands for a column
\* whose type is unknown.
DefineConstraint(c, relid, relname, contype, columns) == Step(c, LAMBDA d :
    LET first == [attrelid |-> relid, attnum |-> 1]
        d1 == CreateConstraintIndex(d, relname, contype, columns)
        indexed == RecordConstraint(d1, relid, relname, contype, d.next)
    IN  CASE contype = "none" -> d
          [] contype = "default" ->
                Change(Insert(d, "pg_attrdef",
                              [oid |-> kInvalidOid, adrelid |-> relid, adnum |-> 1]),
                       "pg_attribute", first, "atthasdef", TRUE)
          [] contype \in {"check", "foreign"} ->
                RecordConstraint(d, relid, relname, contype, kInvalidOid)
          [] contype = "primary" ->
                Change(indexed, "pg_attribute", first, "attnotnull", TRUE)
          [] contype = "unique" -> indexed
          [] contype = "missing" -> Error(d))

DefineRelation(c, relname, columns, contype, if_not_exists) ==
    LET relid == c.next
        c1 == InsertRelation(c, relname, "r", columns)
        c2 == DefineConstraint(c1, relid, relname, contype, columns)
    IN  IF Exists(c, "pg_class", [relname |-> relname])
        THEN IF if_not_exists THEN c ELSE Error(c)
        ELSE IF contype = "notype"
        THEN Error(c)
        ELSE RelationCreateStorage(c2, relid)

\* DROP TABLE, INDEX or VIEW: whatever the name stands for.
RemoveRelations(c, relname, missing_ok) ==
    LET relid == Get(c, "pg_class", [relname |-> relname]).oid
        c1 == RelationOpen(c, relid)
        c2 == RelationDropStorage(c1, relid)
        c3 == DeleteAll(c2, "pg_attribute", [attrelid |-> relid])
    IN  IF ~Exists(c, "pg_class", [relname |-> relname])
        THEN IF missing_ok THEN c ELSE Error(c)
        ELSE DeleteFirst(c3, "pg_class", [oid |-> relid])

AddColumn(c, relid, column) ==
    LET n == Get(c, "pg_class", [oid |-> relid]).relnatts + 1
    IN  Change(Insert(c, "pg_attribute", AttributeRow(relid, column, n)),
               "pg_class", [oid |-> relid], "relnatts", n)

\* The column is marked and the number of columns decremented, also when IF
\* EXISTS found no such column.
DropColumn(c, relid, column, missing_ok) ==
    LET found == {a \in Range(GetAttributes(c, relid)) : a.v.attname = column}
        n == Min({a.v.attnum : a \in found})
        c1 == IF found = {} THEN c
              ELSE Change(c, "pg_attribute", [attrelid |-> relid, attnum |-> n],
                          "attisdropped", TRUE)
        natts == Get(c, "pg_class", [oid |-> relid]).relnatts
    IN  IF found = {} /\ ~missing_ok
        THEN Error(c)
        ELSE Change(c1, "pg_class", [oid |-> relid], "relnatts",
                    IF natts > 0 THEN natts - 1 ELSE natts)

AlterTable(c, relname, cmd, column, missing_ok) ==
    LET relid == Get(c, "pg_class", [relname |-> relname]).oid
    IN  IF ~Exists(c, "pg_class", [relname |-> relname])
        THEN IF missing_ok THEN c ELSE Error(c)
        ELSE CASE cmd = "kAddColumn" -> AddColumn(c, relid, column)
               [] cmd = "kDropColumn" -> DropColumn(c, relid, column, missing_ok)
               [] OTHER -> Error(c)

\* The new name is not looked up first.
RenameRelation(c, relname, newname) ==
    IF Exists(c, "pg_class", [relname |-> relname])
    THEN Change(c, "pg_class", [relname |-> relname], "relname", newname)
    ELSE Error(c)

RenameColumn(c, relname, subname, newname) ==
    LET relid == Get(c, "pg_class", [relname |-> relname]).oid
        found == {a \in Range(GetAttributes(c, relid)) : a.v.attname = subname}
    IN  IF ~Exists(c, "pg_class", [relname |-> relname])
        THEN Error(c)
        ELSE IF found = {}
        THEN Error(c)
        ELSE Change(c, "pg_attribute",
                    [attrelid |-> relid, attnum |-> Min({a.v.attnum : a \in found})],
                    "attname", newname)

\* A new, empty file replaces the old one, which is unlinked at once.
ExecuteTruncate(c, relname) ==
    LET relid == Get(c, "pg_class", [relname |-> relname]).oid
        c1 == RelationOpen(c, relid)
        old == RelationGetSmgr(c1, relid)
        c2 == Change(AllocateOid(c1), "pg_class", [oid |-> relid], "relfilenode", c1.next)
        c3 == RelationCreateStorage(c2, c1.next)
    IN  IF ~Exists(c, "pg_class", [relname |-> relname])
        THEN Error(c)
        ELSE Step(c3, LAMBDA d : [d EXCEPT !.storage = @ \ {old},
                                           !.rel[relid].smgr = kInvalidOid])

DefineSequence(c, seqname, if_not_exists) ==
    LET c1 == InsertRelation(c, seqname, "S", << >>)
    IN  IF Exists(c, "pg_class", [relname |-> seqname])
        THEN IF if_not_exists THEN c ELSE Error(c)
        ELSE RelationCreateStorage(c1, c.next)

\* CREATE OR REPLACE VIEW drops whatever has the name. A query that cannot be
\* analysed is an error after the row was inserted.
DefineView(c, viewname, columns, replace, valid) ==
    LET old == Get(c, "pg_class", [relname |-> viewname]).oid
        exists == Exists(c, "pg_class", [relname |-> viewname])
        c1 == IF exists
              THEN DeleteAll(DeleteFirst(c, "pg_class", [oid |-> old]),
                             "pg_attribute", [attrelid |-> old])
              ELSE c
    IN  IF exists /\ ~replace THEN Error(c)
        ELSE IF valid THEN InsertRelation(c1, viewname, "v", columns)
        ELSE Error(InsertRelation(c1, viewname, "v", << >>))

CreateTrigger(c, relname) ==
    IF Exists(c, "pg_class", [relname |-> relname])
    THEN Change(c, "pg_class", [relname |-> relname], "relhastriggers", TRUE)
    ELSE Error(c)

DefineType(c, name) ==
    IF Exists(c, "pg_type", [typname |-> name])
    THEN Error(c)
    ELSE Insert(c, "pg_type", [oid |-> kInvalidOid, typname |-> name, typbasetype |-> kInvalidOid])

DefineDomain(c, name, base) ==
    IF ~Exists(c, "pg_type", [typname |-> base]) \/ Exists(c, "pg_type", [typname |-> name])
    THEN Error(c)
    ELSE Insert(c, "pg_type", [oid |-> kInvalidOid, typname |-> name,
                               typbasetype |-> Get(c, "pg_type", [typname |-> base]).oid])

CreateCast(c, source, target) ==
    LET types == [castsource |-> Get(c, "pg_type", [typname |-> source]).oid,
                  casttarget |-> Get(c, "pg_type", [typname |-> target]).oid]
    IN  IF \E n \in {source, target} : ~Exists(c, "pg_type", [typname |-> n])
        THEN Error(c)
        ELSE IF Exists(c, "pg_cast", types)
        THEN Error(c)
        ELSE Insert(c, "pg_cast", [oid |-> kInvalidOid] @@ types)

\* A type that does not exist is recorded as OID 0; a second function of the
\* same name is not refused.
CreateFunction(c, name, rettype) ==
    Insert(c, "pg_proc",
           [oid |-> kInvalidOid, proname |-> name,
            prorettype |-> IF Exists(c, "pg_type", [typname |-> rettype])
                           THEN Get(c, "pg_type", [typname |-> rettype]).oid
                           ELSE kInvalidOid])

\* plpgsql keeps its built-in OID.
CreateLanguage(c, name, replace) ==
    LET exists == Exists(c, "pg_language", [lanname |-> name])
        c1 == IF exists
              THEN DeleteFirst(c, "pg_language",
                               [oid |-> Get(c, "pg_language", [lanname |-> name]).oid])
              ELSE c
    IN  IF exists /\ ~replace
        THEN Error(c)
        ELSE Insert(c1, "pg_language",
                    [oid |-> IF name = <<"plpgsql">> THEN 1 ELSE kInvalidOid, lanname |-> name])

DropLanguage(c, name, missing_ok) ==
    IF Exists(c, "pg_language", [lanname |-> name])
    THEN DeleteFirst(c, "pg_language", [oid |-> Get(c, "pg_language", [lanname |-> name]).oid])
    ELSE IF missing_ok THEN c ELSE Error(c)

\* With CASCADE, what the extension requires is installed first.
RECURSIVE InstallExtension(_, _, _)
InstallExtension(c, extname, cascade) ==
    LET require(d, q) == IF ~d.ok \/ Exists(d, "pg_extension", [extname |-> q])
                         THEN d ELSE InstallExtension(d, q, TRUE)
        c1 == IF cascade THEN FoldLeft(require, c, Requires[extname]) ELSE c
    IN  IF extname \notin DOMAIN Requires
        THEN Error(c)
        ELSE Insert(c1, "pg_extension", [oid |-> kInvalidOid, extname |-> extname])

CreateExtension(c, extname, cascade, if_not_exists) ==
    IF Exists(c, "pg_extension", [extname |-> extname])
    THEN IF if_not_exists THEN c ELSE Error(c)
    ELSE InstallExtension(c, extname, cascade)

DropExtension(c, extname, missing_ok) ==
    IF Exists(c, "pg_extension", [extname |-> extname])
    THEN DeleteFirst(c, "pg_extension",
                     [oid |-> Get(c, "pg_extension", [extname |-> extname]).oid])
    ELSE IF missing_ok THEN c ELSE Error(c)

\* ANALYZE of a table that has columns; what it counts is left open.
AnalyzeRelation(c, relname, tuples) ==
    LET row == Get(c, "pg_class", [relname |-> relname])
        c1 == RelationOpen(c, row.oid)
        c2 == UpdateClass(c1, row.oid, "reltuples", tuples)
        c3 == DeleteAll(c2, "pg_statistic", [starelid |-> row.oid])
        attrs == GetAttributes(c, row.oid)
        counted == SelectSeq(attrs, LAMBDA a : a.v.attnum <= Len(attrs))
    IN  IF ~Exists(c, "pg_class", [relname |-> relname])
        THEN c
        ELSE IF row.relkind # "r"
        THEN c
        ELSE IF attrs = << >>
        THEN c1
        ELSE FoldLeft(LAMBDA d, a : Insert(d, "pg_statistic",
                                           [starelid |-> row.oid, staattnum |-> a.v.attnum]),
                      c3, counted)

---------------------------------------------------------------------------
(* Transactions *)

Builtin(v) == [at |-> -1, v |-> v]

BootstrapCatalog ==
    [t \in Tables |->
        CASE t = "pg_type" -> <<Builtin([oid |-> 1, typname |-> <<"int4">>, typbasetype |-> kInvalidOid])>>
          [] t = "pg_am" -> <<Builtin([oid |-> 1, amname |-> <<"btree">>])>>
          [] t = "pg_language" -> <<Builtin([oid |-> 1, lanname |-> <<"plpgsql">>])>>
          [] OTHER -> << >>]

Init == /\ cat = [rows |-> BootstrapCatalog, next |-> kFirstNormalObjectId, dirty |-> FALSE,
                  undo |-> None, file |-> [t \in Tables |-> {}], storage |-> {},
                  rel |-> << >>, sys |-> << >>, ok |-> TRUE, epoch |-> 0]
        /\ start = None
        /\ calls = 0

StartTransaction == /\ cat.undo = None
                    /\ calls < MaxCalls
                    /\ cat' = TakeSnapshot(cat)
                    /\ start' = cat
                    /\ UNCHANGED calls

CommitTransaction == /\ cat.undo # None
                     /\ cat' = DiscardSnapshot(CommitDirty(cat))
                     /\ start' = None
                     /\ UNCHANGED calls

\* Mutant: the relation cache survives a rollback.
AbortKeepsRelcache(c) ==
    [Invalidate(DiscardSnapshot(RestoreSnapshot(c))) EXCEPT !.epoch = @ + 1, !.ok = TRUE]

\* What AbortTransaction does to the catalog and to both caches.
UndoCatalog(c) ==
    [Invalidate(ResetRelcache(DiscardSnapshot(RestoreSnapshot(c))))
        EXCEPT !.epoch = @ + 1, !.ok = TRUE]

AbortTransaction == /\ cat.undo # None
                    /\ cat.epoch < MaxAborts
                    /\ cat' = UndoCatalog(cat)
                    /\ start' = None
                    /\ UNCHANGED calls

\* A statement inside a transaction; an error aborts the transaction.
Execute(c) == /\ cat.undo # None
              /\ calls < MaxCalls
              /\ c.next <= MaxOid
              /\ ~c.ok => cat.epoch < MaxAborts
              /\ cat' = IF c.ok THEN c ELSE UndoCatalog(c)
              /\ start' = IF c.ok THEN start ELSE None
              /\ calls' = calls + 1

ProcessUtility ==
    \E name \in Names, other \in NewNames, flag \in BOOLEAN :
        \/ \E con \in {"none", "default", "check", "foreign", "primary", "unique", "missing", "notype"} :
              Execute(DefineRelation(cat, name, <<"x">>, con, flag))
        \/ Execute(RemoveRelations(cat, name, flag))
        \/ \E cmd \in {"kAddColumn", "kDropColumn", "kOther"}, col \in {"x", "y"} :
              Execute(AlterTable(cat, name, cmd, col, flag))
        \/ Execute(RenameRelation(cat, name, other))
        \/ Execute(RenameColumn(cat, name, "x", "y"))
        \/ Execute(ExecuteTruncate(cat, name))
        \/ \E idx \in {None, other}, am \in {<<"btree">>, <<"none">>} :
              Execute(DefineIndex(cat, name, idx, <<"x">>, am, flag))
        \/ Execute(DefineSequence(cat, name, flag))
        \/ \E valid \in BOOLEAN : Execute(DefineView(cat, name, <<"x">>, flag, valid))
        \/ Execute(CreateTrigger(cat, name))
        \/ Execute(DefineType(cat, name))
        \/ Execute(DefineDomain(cat, name, <<"int4">>))
        \/ Execute(CreateCast(cat, <<"int4">>, name))
        \/ Execute(CreateFunction(cat, name, other))
        \/ \E lang \in {name, <<"plpgsql">>} :
              \/ Execute(CreateLanguage(cat, lang, flag))
              \/ Execute(DropLanguage(cat, lang, flag))
        \/ \E ext \in DOMAIN Requires, cascade \in BOOLEAN :
              Execute(CreateExtension(cat, ext, cascade, flag))
        \/ \E ext \in DOMAIN Requires : Execute(DropExtension(cat, ext, flag))
        \/ \E n \in 1..2 : Execute(AnalyzeRelation(cat, name, n))

\* A query opens a relation and looks names up.
Query ==
    \/ \E r \in Range(cat.rows["pg_class"]) :
          Execute(RelationOpen(SearchClassByName(SearchClassByOid(cat, r.v.oid), r.v.relname), r.v.oid))
    \/ \E r \in Range(cat.rows["pg_attribute"]) :
          Execute(SearchAttributeByName(SearchAttributeByNum(cat, r.v.attrelid, r.v.attnum),
                                        r.v.attrelid, r.v.attname))
    \/ \E r \in Range(cat.rows["pg_type"]) :
          Execute(SearchTypeByName(SearchTypeByOid(cat, r.v.oid), r.v.typname))
    \/ \E r \in Range(cat.rows["pg_proc"]) : Execute(SearchProcByNameArgsNsp(cat, r.v.proname))
    \/ \E r \in Range(cat.rows["pg_cast"]) :
          Execute(SearchCastBySourceTarget(cat, r.v.castsource, r.v.casttarget))
    \/ \E r \in Range(cat.rows["pg_operator"]) :
          Execute(SearchOperatorByNameLRN(cat, r.v.oprname, r.v.oprleft, r.v.oprright))

\* Rows for the tables no command writes yet, which belong to the first user
\* object where they belong to one.
Row ==
    LET obj == kFirstNormalObjectId
    IN  [pg_operator |-> [oid |-> kInvalidOid, oprname |-> "=", oprleft |-> 1, oprright |-> 1],
         pg_aggregate |-> [aggfnoid |-> obj],
         pg_collation |-> [oid |-> kInvalidOid, collname |-> "C"],
         pg_namespace |-> [oid |-> kInvalidOid, nspname |-> "n"],
         pg_database |-> [oid |-> kInvalidOid, datname |-> "d"],
         pg_depend |-> [classid |-> 1, objid |-> obj, refclassid |-> 1, refobjid |-> 1],
         pg_inherits |-> [inhrelid |-> obj, inhparent |-> obj],
         pg_am |-> [oid |-> kInvalidOid, amname |-> <<"am">>],
         pg_tablespace |-> [oid |-> kInvalidOid, spcname |-> "s"],
         pg_trigger |-> [oid |-> kInvalidOid, tgrelid |-> obj],
         pg_rewrite |-> [oid |-> kInvalidOid, ev_class |-> obj]]

InsertRow == /\ cat.next > kFirstNormalObjectId
             /\ \E t \in DOMAIN Row : Execute(Insert(cat, t, Row[t]))

\* Deletions by each key the interface offers.
DeleteRow ==
    \E t \in Tables : \E r \in Range(cat.rows[t]) :
        \/ \E cols \in Interface(t).deleteFirst :
              Execute(DeleteFirst(cat, t, [col \in cols |-> r.v[col]]))
        \/ \E cols \in Interface(t).deleteAll :
              Execute(DeleteAll(cat, t, [col \in cols |-> r.v[col]]))

Next == \/ StartTransaction
        \/ CommitTransaction
        \/ AbortTransaction
        \/ ProcessUtility
        \/ Query
        \/ InsertRow
        \/ DeleteRow

Spec == Init /\ [][Next]_vars

---------------------------------------------------------------------------
(* Properties *)

Contents(c) == [t \in Tables |-> FoldLeft(LAMBDA s, r : Append(s, r.v), << >>, c.rows[t])]

UserContents(c) ==
    [t \in Tables |->
        SelectSeq(Contents(c)[t], LAMBDA v : v[Interface(t).key] >= kFirstNormalObjectId)]

\* A rollback brings every user row of every table back to what it was when
\* the transaction began, the rows changed in place included
\* (Catalog::RestoreSnapshot, called by AbortTransaction).
RollbackStep == cat'.epoch # cat.epoch => UserContents(cat') = UserContents(start)
RollbackUndoes == [][RollbackStep]_vars

\* No pointer in the relation cache or the system cache leads to a row that a
\* rollback freed (AbortTransaction: "no stale pointers survive the restore").
PointersLive == /\ \A r \in DOMAIN cat.rel : cat.rel[r].at \in {-1, cat.epoch}
                /\ \A k \in DOMAIN cat.sys : cat.sys[k] \in {-1, cat.epoch}

\* The next OID is above every OID in use and above the number of every file a
\* rolled back or dropped relation left behind, so CREATE never runs into an
\* old file (RestoreSnapshot keeps the counter for this reason).
NextOidUnused == /\ \A f \in cat.storage : f < cat.next
                 /\ \A t \in Tables : \A r \in Range(cat.rows[t]) :
                        r.v[Interface(t).key] < cat.next

\* Both of the above: neither the caches nor the counter are behind the rows.
CatalogRight == PointersLive /\ NextOidUnused

\* What the documentation of the class says: a commit persists DDL.
CommittedIsSaved == cat.undo = None => \A t \in Tables : cat.file[t] = Range(UserContents(cat)[t])

\* What the documentation says of a rollback, built-in rows included.
RollbackUndoesAll == [][cat'.epoch # cat.epoch => Contents(cat') = Contents(start)]_vars
=============================================================================
