--------------------------- MODULE MCSchemaAlters ---------------------------
(* Releases of a program with an entity P and one that refers to it, for TLC. *)
EXTENDS SchemaAlters

F(n, type, tags) == [name |-> n, type |-> type, tags |-> tags, keys |-> {}, ref |-> None]
Ref(n, table) == [F(n, "ref", {}) EXCEPT !.ref = table]
Key(n, p) == [name |-> n, unique |-> FALSE, pos |-> p]
Unique(n, p) == [name |-> n, unique |-> TRUE, pos |-> p]
E(table, fields) == [table |-> table, fields |-> fields, uuid |-> FALSE, log |-> FALSE,
                     fakeDelete |-> FALSE, unique |-> {}]
R(entities) == [entities |-> entities, encoding |-> "utf8mb4", collate |-> "0900_ai_ci"]

ID == F("ID", "uint", {})
Keyed(f, ks) == [f EXCEPT !.keys = ks]
A == F("A", "string", {"required"})
B == F("B", "int16", {})
C == F("C", "time", {"pointer"})

P == E("P", <<ID, Keyed(A, {Unique("U", 1)})>>)
Q == E("Q", <<ID, Ref("R", "P"), B>>)

\* Columns that move, go and come, an entity with a log and one that is gone.
First == R({P, Q})
Moved == R({E("P", <<ID, F("X", "float64", {"decimal", "unsigned"}), F("Y", "bytes", {}), C, B>>)})
Between == [R({[E("P", <<ID, B, F("N", "bool", {}), C>>) EXCEPT !.log = TRUE]})
              EXCEPT !.encoding = "utf8"]

\* A reference with an index of its own, one that is no foreign key, and one to another.
Indexed == R({P, [E("Q", <<ID, Keyed(B, {Key("I", 2)}), Keyed(Ref("R", "P"), {Key("I", 1)})>>)
                    EXCEPT !.fakeDelete = TRUE]})
Skipped == R({P, E("Q", <<ID, [Ref("R", "P") EXCEPT !.tags = {"skip_FK"}], Keyed(B, {Key("R", 1)})>>)})
Elsewhere == R({Q, E("S", <<ID, Ref("R", "Q"), Ref("R2", "Q")>>),
                E("P", <<F("ID", "uint32", {}), F("A", "string", {"required", "max"})>>)})

\* Another type of ID, uuids, and another collation.
Wide == R({E("P", <<F("ID", "uint64", {}), A>>), Q})
Uuid == [R({[E("P", <<F("ID", "uint64", {}), A>>)
               EXCEPT !.uuid = TRUE, !.log = TRUE, !.unique = {[name |-> "G", columns |-> <<"A">>]}], Q}) EXCEPT !.collate = "bin"]

\* Every other type and tag.
Types == R({E("P", <<ID, F("Year", "uint16", {"year"}), F("YearNull", "uint16", {"year", "pointer"}),
                     F("Medium", "int32", {"mediumint"}), F("Need", "int", {"pointer", "required"}),
                     F("E", "string", {"enum"}), F("Json", "json", {}), F("Skip", "json", {"ignore"}),
                     F("Cached", "CachedQuery", {}), F("Long", "bytes", {"longblob"}),
                     F("Mid", "bytes", {"mediumblob"}), F("At", "time", {"time"})>>)})

\* One index is the start of another: refused by validateIndexes.
Invalid == R({E("P", <<ID, Keyed(A, {Key("I", 1), Key("J", 1)}), Keyed(B, {Key("J", 2)})>>)})

AllReleases == {First, Moved, Between, Indexed, Skipped, Elsewhere, Wide, Uuid, Types, Invalid}
=============================================================================
