---------------------------- MODULE SchemaAlters ----------------------------
(***************************************************************************)
(* The tables of MySQL and the entities of a program (schema.go,           *)
(* table_schema.go): what columns, indexes and foreign keys the fields ask *)
(* for, which ALTERs lead there from the tables that are, in which order   *)
(* they are executed, which of them count as safe, and where the tables    *)
(* are when all have been executed.  Entities change from release to       *)
(* release; MySQL is its rules for ALTER TABLE.                            *)
(***************************************************************************)
EXTENDS Integers, Sequences, FiniteSets, SequencesExt

CONSTANTS
    Releases,     \* the registries of the program: entities, defaultEncoding, defaultCollate
    MaxReleases,  \* bound: releases in a behaviour
    MaxChanges    \* bound: rows that come, and changes by hand

\* A field: its tags that are flags, the name and the position it has in indexes, and the
\* table of the entity that a pointer refers to.  Fields of a struct are listed in its place.
IntTypes == {"uint", "uint8", "uint16", "uint32", "uint64", "int", "int8", "int16", "int32", "int64"}
FieldTypes == IntTypes \cup {"bool", "float32", "float64", "string", "time", "bytes", "ref", "json",
                             "CachedQuery"}
Tags == {"pointer", "ignore", "required", "mediumint", "year", "unsigned", "decimal", "time", "max",
         "enum", "mediumblob", "longblob", "skip_FK"}

\* No table, and no column before.
None == "none"

Field == [name : STRING, type : FieldTypes, tags : SUBSET Tags, ref : STRING,
          keys : SUBSET [name : STRING, pos : Nat, unique : BOOLEAN]]
Entity == [table : STRING, fields : Seq(Field), uuid : BOOLEAN, log : BOOLEAN, fakeDelete : BOOLEAN,
           unique : SUBSET [name : STRING, columns : Seq(STRING)]]
Registry == [entities : SUBSET Entity, encoding : STRING, collate : STRING]

VARIABLES
    wanted,   \* the registry of the release that runs
    db,       \* the tables
    rows,     \* tables that have rows
    alters,   \* what is left of what GetAlters or GetSchemaChanges returned
    mode,     \* which of them the program executes: "all", "safe", or of one "table"
    releases, changes,   \* bounded counters
    rounds,   \* history: how often all were executed since something changed
    refused,  \* history: the ALTER that MySQL refused
    late,     \* history: tables that got rows after alters were computed
    lost      \* history: tables of which a safe ALTER lost data

vars == <<wanted, db, rows, alters, mode, releases, changes, rounds, refused, late, lost>>

-----------------------------------------------------------------------------
(* Columns, indexes and foreign keys of an entity.                         *)

\* convertIntToSchema.
IntColumn == [uint |-> "int unsigned", uint8 |-> "tinyint unsigned", uint16 |-> "smallint unsigned",
              uint32 |-> "int unsigned", uint64 |-> "bigint unsigned", int |-> "int",
              int8 |-> "tinyint", int16 |-> "smallint", int32 |-> "int", int64 |-> "bigint"]
Medium == [uint32 |-> "mediumint unsigned", int32 |-> "mediumint"]
IntDefinition(type, tags) ==
    IF "mediumint" \in tags /\ type \in DOMAIN Medium THEN Medium[type] ELSE IntColumn[type]

Named(registry, table) == CHOOSE e \in registry.entities : e.table = table

\* An enum has a collation of its own.
TextCollate(f, registry) == IF "enum" \in f.tags THEN "0900_ai_ci" ELSE registry.collate
IsYear(f) == f.type = "uint16" /\ "year" \in f.tags

\* The type of a column, as MySQL has it.
ColumnType(f, registry) ==
    CASE IsYear(f) -> <<"year">>
      [] f.type \in IntTypes /\ ~IsYear(f) -> <<IntDefinition(f.type, f.tags)>>
      [] f.type = "bool" -> <<"tinyint(1)">>
      [] f.type \in {"float32", "float64"} ->
           <<IF "decimal" \in f.tags THEN "decimal" ELSE f.type>> \o
           (IF "unsigned" \in f.tags THEN <<"unsigned">> ELSE << >>)
      [] f.type = "string" ->
           <<IF "enum" \in f.tags THEN "enum" ELSE IF "max" \in f.tags THEN "mediumtext" ELSE "varchar",
             registry.encoding, TextCollate(f, registry)>>
      [] f.type = "time" -> <<IF "time" \in f.tags THEN "datetime" ELSE "date">>
      [] f.type = "bytes" -> <<IF "longblob" \in f.tags THEN "longblob"
                               ELSE IF "mediumblob" \in f.tags THEN "mediumblob" ELSE "blob">>
      [] f.type = "ref" -> <<IntDefinition(Named(registry, f.ref).fields[1].type, f.tags)>>
      [] f.type = "json" -> <<"json">>

IsScalar(f) == f.type \in IntTypes \cup {"bool", "float32", "float64", "time"}
IsNotNull(f) ==
    IF IsYear(f) THEN "pointer" \notin f.tags
    ELSE "required" \in f.tags \/ (IsScalar(f) /\ "pointer" \notin f.tags)

\* A default for what may not be NULL, but for references, JSON, long texts and blobs.
Default(f) ==
    CASE IsScalar(f) /\ "pointer" \notin f.tags -> "zero"
      [] f.type = "string" /\ "required" \in f.tags /\ "max" \notin f.tags -> "zero"
      [] f.type \in {"string", "bytes"} /\ ("max" \in f.tags \/ f.type = "bytes") -> None
      [] OTHER -> IF IsNotNull(f) THEN None ELSE "NULL"

IsColumn(f) == "ignore" \notin f.tags /\ f.type # "CachedQuery"

\* What s has at the places in I, in their order.
Only(s, I) ==
    LET upTo[n \in 0 .. Len(s)] ==
          IF n = 0 THEN << >> ELSE IF n \in I THEN Append(upTo[n - 1], s[n]) ELSE upTo[n - 1]
    IN  upTo[Len(s)]

\* checkStruct, and the first column of getSchemaChanges.
Columns(e, registry) ==
    LET fields == Only(e.fields, {i \in DOMAIN e.fields : IsColumn(e.fields[i])}) IN
    [i \in 1 .. Len(fields) |->
       LET f == fields[i] IN
       [name |-> f.name, type |-> ColumnType(f, registry), notNull |-> IsNotNull(f),
        default |-> IF f.name = "ID" THEN None ELSE Default(f),
        auto |-> i = 1 /\ ~e.uuid]]
    \o IF ~e.fakeDelete THEN << >> ELSE
       <<[name |-> "FakeDelete", type |-> ColumnType(fields[1], registry), notNull |-> TRUE,
          default |-> "zero", auto |-> FALSE]>>

\* References with a foreign key: not to rows with uuids, and unless it is declined.
Refs(e, registry) == {f \in ToSet(e.fields) : f.type = "ref" /\ IsColumn(f)
                        /\ "skip_FK" \notin f.tags /\ ~Named(registry, f.ref).uuid}

\* Mutant of ForeignKeys: named after the table they refer to.
ForeignKeysByTable(e, registry) ==
    {[name |-> <<e.table, f.ref>>, column |-> f.name, table |-> f.ref, onDelete |-> "RESTRICT"]
       : f \in Refs(e, registry)}

ForeignKeys(e, registry) ==
    {[name |-> <<e.table, f.name>>, column |-> f.name, table |-> f.ref, onDelete |-> "RESTRICT"]
       : f \in Refs(e, registry)}

\* Indexes that the tags name: the fields in order of their positions, up to a gap.  The first
\* that names it says whether it is unique, the last at a position has it.
KeysOf(e) == UNION {{k.name : k \in f.keys} : f \in {f \in ToSet(e.fields) : IsColumn(f)}}
Users(e, n) == {i \in DOMAIN e.fields : IsColumn(e.fields[i]) /\ \E k \in e.fields[i].keys : k.name = n}
At(e, n, p) == {i \in Users(e, n) : \E k \in e.fields[i].keys : k.name = n /\ k.pos = p}
Tagged(e, n) ==
    LET length == Max({l \in DOMAIN e.fields \cup {0} : \A p \in 1 .. l : At(e, n, p) # {}})
    IN  [name |-> <<n>>, columns |-> [p \in 1 .. length |-> e.fields[Max(At(e, n, p))].name],
         unique |-> (CHOOSE k \in e.fields[Min(Users(e, n))].keys : k.name = n).unique]

TaggedKeys(e) == {Tagged(e, n) : n \in KeysOf(e)}
             \cup {[name |-> <<k.name>>, columns |-> k.columns, unique |-> TRUE] : k \in e.unique}

\* A foreign key needs an index that starts with its column.
Keys(e, registry) ==
    LET tagged == TaggedKeys(e) IN
    tagged \cup {[name |-> <<f.name>>, columns |-> <<f.name>>, unique |-> FALSE]
                   : f \in {f \in Refs(e, registry) : \A k \in tagged : k.columns[1] # f.name}}

\* validateIndexes: no index is the start of another.
IsValid(registry) ==
    \A e \in registry.entities : \A k, l \in TaggedKeys(e) :
       k.name # l.name => ~IsPrefix(k.columns, l.columns)

NamesIn(s) == {s[i].name : i \in DOMAIN s}

\* Columns have names of their own and the first is ID, which references have the type of;
\* indexes have names of their own too, and columns.
IsEntity(e, registry) ==
    /\ \A other \in registry.entities : other.table = e.table => other = e
    /\ e.fields # << >> /\ e.fields[1].name = "ID" /\ e.fields[1].type \in IntTypes
    /\ IsColumn(e.fields[1])
    /\ IsInjective([i \in DOMAIN e.fields |-> e.fields[i].name])
    /\ NamesIn(e.fields) \cap {None, "FakeDelete"} = {}
    /\ \A f \in ToSet(e.fields) : f.type = "ref" => \E other \in registry.entities : other.table = f.ref
    /\ \A f \in Refs(e, registry) :
          ColumnType(f, registry) = ColumnType(Named(registry, f.ref).fields[1], registry)
    /\ \A k, l \in Keys(e, registry) : k.name = l.name => k = l
    /\ \A k \in TaggedKeys(e) : k.columns # << >> /\ k.columns \in Seq(NamesIn(Columns(e, registry)))

ASSUME ReleasesAssumption ==
    /\ MaxReleases \in Nat /\ MaxChanges \in Nat
    /\ Releases \subseteq Registry
    /\ \A r \in Releases : IsValid(r) => \A e \in r.entities : IsEntity(e, r)

-----------------------------------------------------------------------------
(* The alters.  A log table has one definition, with the default collation.*)

LogTable(e) == <<"log", e.table>>
EntityTable(e) == <<e.table>>
LogColumns(registry) == <<[name |-> "id", type |-> <<"log", registry.collate>>, notNull |-> TRUE,
                           default |-> None, auto |-> TRUE]>>

Nothing == [kind |-> "alter", table |-> << >>, safe |-> TRUE, drop |-> {}, add |-> << >>,
            change |-> << >>, dropKeys |-> {}, addKeys |-> {}, fks |-> {}, encoding |-> None]

Create(e, registry) ==
    [Nothing EXCEPT !.kind = "create", !.table = EntityTable(e), !.add = Columns(e, registry),
                    !.addKeys = Keys(e, registry), !.encoding = registry.encoding]
CreateLog(e, registry) ==
    [Nothing EXCEPT !.kind = "create", !.table = LogTable(e), !.add = LogColumns(registry),
                    !.encoding = "utf8mb4"]
DropTable(table) ==
    [Nothing EXCEPT !.kind = "drop", !.table = table, !.safe = table \notin rows]

\* ALTERs of foreign keys, when there is something to alter.
AlterForeign(kind, table, fks) ==
    IF fks = {} THEN {} ELSE {[Nothing EXCEPT !.kind = kind, !.table = table, !.fks = fks]}

\* Mutant of Misplaced: it is enough that the column is.
MisplacedAnywhere(columns, t) == {i \in DOMAIN columns : columns[i] \notin ToSet(t.columns)}

\* Columns that are not, as they should be, in their place.
Misplaced(columns, t) == {i \in DOMAIN columns : i > Len(t.columns) \/ t.columns[i] # columns[i]}
Placed(columns, S) ==
    Only([i \in DOMAIN columns |->
            [column |-> columns[i], after |-> IF i = 1 THEN None ELSE columns[i - 1].name]], S)

\* getSchemaChanges: what is added, changed and dropped.  An index of MySQL's own is left
\* to its foreign key.
NormalAlter(e, registry, t) ==
    LET columns == Columns(e, registry)
        keys == Keys(e, registry)
        own == {fk.name : fk \in ForeignKeys(e, registry)}
        isNew(i) == columns[i].name \notin NamesIn(t.columns)
    IN  [Nothing EXCEPT
           !.table = EntityTable(e),
           !.drop = NamesIn(t.columns) \ NamesIn(columns),
           !.add = Placed(columns, {i \in Misplaced(columns, t) : isNew(i)}),
           !.change = Placed(columns, {i \in Misplaced(columns, t) : ~isNew(i)}),
           !.dropKeys = {k.name : k \in {k \in t.keys \ keys : k.name \notin own}},
           !.addKeys = keys \ t.keys]

\* Mutant of IsSafe: a change is as good as a new column.
IsSafeChanged(a) == a.drop = {} \/ a.table \notin rows

\* Nothing is dropped or changed, or there are no rows.
IsSafe(a) == (a.drop = {} /\ a.change = << >>) \/ a.table \notin rows

\* getSchemaChanges.
SchemaChanges(e, registry) ==
    LET table == EntityTable(e) IN
    IF table \notin DOMAIN db
    THEN {Create(e, registry)} \cup AlterForeign("addFK", table, ForeignKeys(e, registry))
    ELSE LET t == db[table]
             a == NormalAlter(e, registry, t)
             fks == ForeignKeys(e, registry)
             charset == [Nothing EXCEPT !.kind = "charset", !.table = table, !.encoding = registry.encoding]
         IN  (IF a # [Nothing EXCEPT !.table = table] THEN {[a EXCEPT !.safe = IsSafe(a)]}
              ELSE IF t.encoding # registry.encoding THEN {charset} ELSE {})
             \cup AlterForeign("dropFK", table, t.fks \ fks)
             \cup AlterForeign("addFK", table, fks \ t.fks)

LogChanges(e, registry) ==
    LET table == LogTable(e) IN
    IF ~e.log THEN {}
    ELSE IF table \notin DOMAIN db THEN {CreateLog(e, registry)}
    ELSE IF db[table].columns = LogColumns(registry) THEN {}
    ELSE {DropTable(table), CreateLog(e, registry)}

TablesInEntities(registry) == {EntityTable(e) : e \in registry.entities}
                         \cup {LogTable(e) : e \in {e \in registry.entities : e.log}}

\* getAlters.
Alters(registry) ==
    (UNION {SchemaChanges(e, registry) \cup LogChanges(e, registry) : e \in registry.entities})
    \cup UNION {AlterForeign("dropFK", table, db[table].fks) \cup {DropTable(table)}
                  : table \in DOMAIN db \ TablesInEntities(registry)}

\* Mutant of Rank: foreign keys are not dropped first.
RankUnsorted(a) == IF a.kind = "addFK" THEN 4 ELSE IF a.kind = "drop" THEN 2 ELSE 3

\* getAlters: foreign keys are dropped first and added last, and a DROP TABLE is shorter than
\* the CREATE TABLE that follows it.  The ALTERs of one table are not sorted.
Rank(a) == CASE a.kind = "dropFK" -> IF mode = "table" THEN 4 ELSE 1
             [] a.kind = "drop" -> 2
             [] a.kind = "addFK" -> 5
             [] OTHER -> 3

-----------------------------------------------------------------------------
(* MySQL.                                                                  *)

\* Columns with AFTER are taken out and put after theirs, one by one in the order of the
\* statement, in which those that are added come before those that change.
Put(columns, s) ==
    LET rest == Only(columns, {i \in DOMAIN columns : columns[i].name # s.column.name})
        place == CHOOSE i \in DOMAIN rest : rest[i].name = s.after
    IN  IF s.after = None THEN columns ELSE InsertAt(rest, 1 + place, s.column)

AlteredColumns(t, a) ==
    LET kept == Only(t.columns, {i \in DOMAIN t.columns : t.columns[i].name \notin a.drop})
        changed(c) == {s \in ToSet(a.change) : s.column.name = c.name}
        puts == a.add \o a.change
        after[n \in 0 .. Len(puts)] ==
          IF n = 0 THEN [i \in DOMAIN kept |-> IF changed(kept[i]) = {} THEN kept[i]
                                               ELSE (CHOOSE s \in changed(kept[i]) : TRUE).column]
          ELSE Put(after[n - 1], puts[n])
    IN  after[Len(puts)]

KeptKeys(t, a) ==
    {k \in {[k EXCEPT !.columns = Only(@, {i \in DOMAIN @ : @[i] \notin a.drop})]
              : k \in {k \in t.keys : k.name \notin a.dropKeys}} : k.columns # << >>}

Serves(k, fk) == k.columns[1] = fk.column

\* The index that MySQL made for a foreign key goes when another serves it.
AlteredKeys(t, a) ==
    LET keys == KeptKeys(t, a) \cup a.addKeys IN
    {k \in keys : ~\E fk \in t.fks : k.name = fk.name /\ \E l \in keys \ {k} : Serves(l, fk)}

Column(t, n) == CHOOSE c \in ToSet(t.columns) : c.name = n
IsReferenced(table) == \E u \in DOMAIN db \ {table} : \E fk \in db[u].fks : <<fk.table>> = table

\* Columns of which the type is held by a foreign key of theirs, or to them.
Retyped(a) ==
    LET t == db[a.table] IN
    {s \in ToSet(a.change) :
       /\ s.column.type # Column(t, s.column.name).type
       /\ \/ \E fk \in t.fks : fk.column = s.column.name
          \/ s.column.name = "ID" /\ IsReferenced(a.table)}

\* What foreign keys need of the columns and indexes of their tables.
KeepsForeignKeys(a) ==
    LET t == db[a.table] IN
    /\ \A fk \in t.fks : fk.column \notin a.drop /\ \E k \in AlteredKeys(t, a) : Serves(k, fk)
    /\ Retyped(a) = {}

IsAccepted(a) ==
    LET t == db[a.table] IN
    /\ a.kind = "create" <=> a.table \notin DOMAIN db
    /\ a.kind = "drop" => ~IsReferenced(a.table)
    /\ a.kind = "dropFK" => a.fks \subseteq t.fks
    /\ a.kind = "alter" =>
         /\ KeepsForeignKeys(a)
         /\ {s.column.name : s \in ToSet(a.add)} \cap NamesIn(t.columns) = {}
         /\ a.dropKeys \subseteq {k.name : k \in t.keys}
         /\ {k.name : k \in a.addKeys} \cap {k.name : k \in KeptKeys(t, a)} = {}
         /\ \A k \in a.addKeys : ToSet(k.columns) \subseteq NamesIn(AlteredColumns(t, a))
    /\ a.kind = "addFK" => \A fk \in a.fks :
         /\ fk.name \notin {other.name : other \in t.fks}
         /\ <<fk.table>> \in DOMAIN db /\ fk.column \in NamesIn(t.columns)
         /\ Column(t, fk.column).type = Column(db[<<fk.table>>], "ID").type

\* The tables after a.
Altered(a) ==
    LET t == db[a.table]
        unserved == {fk \in a.fks : ~\E k \in t.keys : Serves(k, fk)}
    IN
    CASE a.kind = "create" ->
           [table \in DOMAIN db \cup {a.table} |->
              IF table # a.table THEN db[table]
              ELSE [columns |-> a.add, keys |-> a.addKeys, fks |-> {}, encoding |-> a.encoding]]
      [] a.kind = "drop" -> [table \in DOMAIN db \ {a.table} |-> db[table]]
      [] a.kind = "charset" -> [db EXCEPT ![a.table].encoding = a.encoding]
      [] a.kind = "dropFK" -> [db EXCEPT ![a.table].fks = @ \ a.fks]
      [] a.kind = "addFK" ->
           [db EXCEPT ![a.table] =
              [t EXCEPT !.fks = @ \cup a.fks,
                        !.keys = @ \cup {[name |-> fk.name, columns |-> <<fk.column>>,
                                         unique |-> FALSE] : fk \in unserved}]]
      [] a.kind = "alter" ->
           [db EXCEPT ![a.table] =
              [t EXCEPT !.columns = AlteredColumns(t, a), !.keys = AlteredKeys(t, a)]]

\* Rows may be lost, or be why the statement fails.
IsRetyped(a) == \E s \in ToSet(a.change) : s.column.type # Column(db[a.table], s.column.name).type
Loses(a) == a.table \in rows /\ (a.kind = "drop" \/ a.drop # {} \/ IsRetyped(a))
DependsOnRows(a) ==
    /\ a.table \in rows
    /\ a.kind = "addFK" \/ a.change # << >> \/ \E k \in a.addKeys : k.unique

-----------------------------------------------------------------------------
(* The program.                                                            *)

Init ==
    /\ wanted \in {r \in Releases : IsValid(r)}
    /\ db = << >> /\ rows = {} /\ alters = {} /\ mode = "all"
    /\ releases = 0 /\ changes = 0 /\ rounds = 0 /\ refused = {} /\ late = {} /\ lost = {}

\* A process of another release, or one that starts again after some of the alters.
Release ==
    /\ releases < MaxReleases
    /\ wanted' \in {r \in Releases : IsValid(r)}
    /\ releases' = releases + 1
    /\ alters' = {} /\ rounds' = 0 /\ refused' = {}
    /\ UNCHANGED <<db, rows, mode, changes, late, lost>>

\* Engine.GetAlters; the program executes all of them, or the safe ones.
GetAlters ==
    /\ alters = {} /\ Alters(wanted) # {}
    /\ mode' \in {"all", "safe"}
    /\ alters' = {a \in Alters(wanted) : mode' = "safe" => a.safe}
    /\ late' = {} /\ lost' = {} /\ refused' = {}
    /\ UNCHANGED <<wanted, db, rows, releases, changes, rounds>>

\* tableSchema.UpdateSchema.
UpdateSchema ==
    /\ alters = {}
    /\ \E e \in wanted.entities :
         SchemaChanges(e, wanted) # {} /\ alters' = SchemaChanges(e, wanted)
    /\ mode' = "table"
    /\ late' = {} /\ lost' = {} /\ refused' = {}
    /\ UNCHANGED <<wanted, db, rows, releases, changes, rounds>>

IsNext(a) == a \in alters /\ \A b \in alters : Rank(a) <= Rank(b)

\* Alter.Exec.
Exec ==
    \E a \in alters :
      /\ IsNext(a) /\ IsAccepted(a)
      /\ db' = Altered(a)
      /\ rows' = IF a.kind = "drop" THEN rows \ {a.table} ELSE rows
      /\ alters' = alters \ {a}
      /\ lost' = IF a.safe /\ mode # "table" /\ Loses(a) THEN lost \cup {a.table} ELSE lost
      /\ rounds' = IF mode # "all" THEN 0 ELSE IF alters' = {} /\ rounds < 3 THEN rounds + 1 ELSE rounds
      /\ UNCHANGED <<wanted, mode, releases, changes, refused, late>>

\* DB.Exec panics.
ExecRefused ==
    \E a \in alters :
      /\ IsNext(a) /\ ~IsAccepted(a)
      /\ refused' = {a} /\ alters' = {} /\ rounds' = 0
      /\ UNCHANGED <<wanted, db, rows, mode, releases, changes, late, lost>>

\* It does so too when the rows are not what the statement needs.
ExecFails ==
    \E a \in alters :
      /\ IsNext(a) /\ IsAccepted(a) /\ DependsOnRows(a)
      /\ alters' = {} /\ rounds' = 0
      /\ UNCHANGED <<wanted, db, rows, mode, releases, changes, refused, late, lost>>

\* tableSchema.TruncateTable, when no foreign key keeps the rows.
TruncateTable ==
    /\ alters = {}
    /\ \E e \in wanted.entities :
         EntityTable(e) \in rows /\ rows' = rows \ {EntityTable(e)}
    /\ refused' = {}
    /\ UNCHANGED <<wanted, db, alters, mode, releases, changes, rounds, late, lost>>

\* tableSchema.DropTable.
DropEntityTable ==
    /\ alters = {} /\ changes < MaxChanges
    /\ \E e \in wanted.entities :
         /\ EntityTable(e) \in DOMAIN db /\ IsAccepted(DropTable(EntityTable(e)))
         /\ db' = Altered(DropTable(EntityTable(e)))
         /\ rows' = rows \ {EntityTable(e)}
    /\ changes' = changes + 1 /\ rounds' = 0 /\ refused' = {}
    /\ UNCHANGED <<wanted, alters, mode, releases, late, lost>>

\* Rows are inserted, by this program or by another that runs.
InsertRows ==
    /\ changes < MaxChanges
    /\ \E table \in DOMAIN db \ rows :
         rows' = rows \cup {table} /\ late' = IF alters = {} THEN late ELSE late \cup {table}
    /\ changes' = changes + 1 /\ refused' = {}
    /\ UNCHANGED <<wanted, db, alters, mode, releases, rounds, lost>>

\* Somebody has a foreign key cascade.
Cascade ==
    /\ alters = {} /\ changes < MaxChanges
    /\ \E table \in DOMAIN db : \E fk \in db[table].fks :
         /\ fk.onDelete = "RESTRICT"
         /\ db' = [db EXCEPT ![table].fks = (@ \ {fk}) \cup {[fk EXCEPT !.onDelete = "CASCADE"]}]
    /\ changes' = changes + 1 /\ rounds' = 0 /\ refused' = {}
    /\ UNCHANGED <<wanted, rows, alters, mode, releases, late, lost>>

Next == \/ Release \/ GetAlters \/ UpdateSchema \/ Exec \/ ExecRefused \/ ExecFails
        \/ TruncateTable \/ DropEntityTable \/ InsertRows \/ Cascade

Spec == Init /\ [][Next]_vars

-----------------------------------------------------------------------------
(* Properties.                                                             *)

TableType(t) ==
    /\ IsInjective([i \in DOMAIN t.columns |-> t.columns[i].name])
    /\ \A k, l \in t.keys : k.name = l.name => k = l
    /\ \A fk, other \in t.fks : fk.name = other.name => fk = other
    /\ \A k \in t.keys : k.columns # << >> /\ ToSet(k.columns) \subseteq NamesIn(t.columns)

\* Tables have no column, index or foreign key twice, and no index without its columns.
TypeOK ==
    /\ wanted \in Releases
    /\ rows \subseteq DOMAIN db
    /\ mode \in {"all", "safe", "table"}
    /\ releases \in 0 .. MaxReleases /\ changes \in 0 .. MaxChanges /\ rounds \in 0 .. 3
    /\ Cardinality(refused) <= 1
    /\ \A table \in DOMAIN db : TableType(db[table])

\* What an entity asks for is there, though maybe not in its order.
Holds(e) ==
    LET t == db[EntityTable(e)] IN
    /\ EntityTable(e) \in DOMAIN db
    /\ ToSet(t.columns) = ToSet(Columns(e, wanted))
    /\ Keys(e, wanted) \subseteq t.keys
    /\ t.fks = ForeignKeys(e, wanted)
    /\ e.log => LogTable(e) \in DOMAIN db /\ db[LogTable(e)].columns = LogColumns(wanted)

\* When all alters were executed, every entity has its columns, indexes and foreign keys, and
\* there is no other table.  When they were executed again columns are
\* in their order too, and only the default encoding can be left to alter: a column is added
\* before the one it follows moves, and an encoding waits for what else is to do.
Converges ==
    /\ rounds >= 1 => \A e \in wanted.entities : Holds(e)
    /\ rounds >= 1 => DOMAIN db = TablesInEntities(wanted)
    /\ rounds >= 2 => \A e \in wanted.entities : db[EntityTable(e)].columns = Columns(e, wanted)
    /\ rounds >= 2 => \A a \in Alters(wanted) : a.kind = "charset"
    /\ rounds = 3 => Alters(wanted) = {}

\* Alters of GetAlters that are executed in their order are accepted, unless one changes the
\* type of a column that a foreign key holds.  UpdateSchema alters columns before
\* it drops foreign keys, and knows one table only; and those that are safe may build on one
\* that is not.
RefusedIsExplained ==
    \A a \in refused :
       \/ a.kind = "alter" /\ Retyped(a) # {}
       \/ mode = "table" /\ a.kind \in {"alter", "addFK"}
       \/ mode = "safe" /\ a.kind \in {"addFK", "create"}

\* A safe alter loses no data, but of rows that came after it was found safe.
SafeLosesNothing == lost \subseteq late
=============================================================================
