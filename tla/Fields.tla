------------------------------- MODULE Fields -------------------------------
(***************************************************************************)
(* One entity, its row in MySQL and its copies in the caches: how a field  *)
(* of each kind is found dirty and written (bind_builder.go), put in the   *)
(* binary form of the entity and read from it (orm.go, serializer.go), and *)
(* read from a row (search.go, orm.go).  The entity has a field of the     *)
(* kind that is looked at and, in a struct, an integer that follows it in  *)
(* the binary form.  Texts are numbers, and instants are small ones; the   *)
(* binary form is the sequence of what the serializer was given.           *)
(***************************************************************************)
EXTENDS Integers, Sequences, FiniteSets, SequencesExt

CONSTANTS
    Setups,       \* the field and the time zone of a behaviour
    ID,           \* the id of the entity when it is in the database
    Unit,         \* the float 1 / 10^precision; floats are multiples of 1
    Day,          \* the seconds of a day
    TimeStampSeconds, ZeroDateSeconds,   \* timeStampSeconds, zeroDateSeconds
    Year1000,     \* the instant -30610224000
    LastYear      \* instants after it do not happen

Kinds == {"ref", "int", "bool", "float", "decimal", "time", "date", "fakeDelete",
          "string", "enum", "bytes", "set", "json", "refsMany"}
Numbers == {"int", "bool", "float", "decimal"}
Times == {"time", "date"}

\* A field: whether it is a pointer, and its tag required.  A time zone: its offset, by how much more it is from some instant on, and
\* an instant at which the registry was validated.
FieldType == {f \in [kind : Kinds, null : BOOLEAN, req : BOOLEAN] :
                /\ f.null => f.kind \in Numbers \cup Times
                /\ f.req => f.null \/ f.kind \notin Numbers \cup Times \cup {"fakeDelete"}}
ZoneType == [offset : Int, summer : Int, more : {0, 1}, start : Int]

ASSUME SetupAssumption ==
    /\ \A u \in Setups : u.field \in FieldType /\ u.zone \in ZoneType
    /\ ID \in Nat \ {0} /\ Unit \in Nat \ {0} /\ Day \in Nat \ {0}
    /\ {TimeStampSeconds, ZeroDateSeconds, LastYear} \subseteq Nat
    /\ Year1000 \in Int /\ Year1000 < 0
    /\ 0 < ZeroDateSeconds /\ ZeroDateSeconds < TimeStampSeconds + Year1000

VARIABLES
    setup,   \* one of Setups
    go,      \* what the two fields of the Go struct hold
    inDB,    \* ORM.inDB
    bin,     \* ORM.binary
    row,     \* the two columns of the row
    cache,   \* the binary form that a cache holds, None when it has none
    settled, \* history: nothing was assigned since the last flush or load
    unsaved, \* history: fields of which bin holds what the row was not given
    stale    \* history: the same of cache

vars == <<setup, go, inDB, bin, row, cache, settled, unsaved, stale>>

\* A Go value, a column and a token string are sequences of integers: a nil or NULL
\* is empty, a scalar has one element, "" and the zero of a kind is 0, a list in a
\* column has 0 before it.
Nil == << >>
None == << >>
Mark == 0
Invalid == <<-1>>  \* what MySQL does not accept in the column
Absent == <<-2>>   \* no value is given

\* A Go time is an instant, << u >>, in the Location of the process, or << u, UTC >> in
\* another one, for which UTC stands.
UTC == 0
InUTC(f, v) == f.kind \in Times /\ Len(v) = 2

Neighbour == [kind |-> "int", null |-> FALSE, req |-> FALSE]
FieldAt == <<setup.field, Neighbour>>
Zone == setup.zone

-----------------------------------------------------------------------------
(* Time.  A column holds the local time of an instant.                     *)

OffsetAt(u) == Zone.offset + IF u >= Zone.summer THEN Zone.more ELSE 0

\* registry.timeOffset: the offset when the program started.
TimeOffset == OffsetAt(Zone.start)

\* time.Time{}, which is formatted in UTC.
ZeroTime == ZeroDateSeconds - TimeStampSeconds
IsZero(u) == u \in {ZeroTime, Year1000}

Midnight(c) == (c \div Day) * Day

\* Years begin at midnight, and no zone is a day off.
ASSUME DayAssumption ==
    /\ Day > 1 /\ Year1000 < -Day
    /\ Midnight(Year1000) = Year1000 /\ Midnight(ZeroTime) = ZeroTime
    /\ \A u \in Setups : -Day < u.zone.offset /\ u.zone.offset < Day

Local(u) == IF u = ZeroTime THEN u ELSE u + OffsetAt(u)

\* time.Date(t.Year(), t.Month(), t.Day(), 0, ...).
StartOfDay(u) ==
    LET c == Midnight(Local(u)) IN
    IF u = ZeroTime THEN u
    ELSE IF c - Zone.offset - Zone.more >= Zone.summer THEN c - Zone.offset - Zone.more
    ELSE c - Zone.offset

\* The instant that a field of this kind stands for.
Instant(f, u) == IF f.kind = "date" THEN StartOfDay(u) ELSE u

\* Format(timeFormat), Format(dateformat).
Format(f, u) == IF f.kind = "date" THEN Midnight(Local(u)) ELSE Local(u)

\* The same of a Go time, whose Location says where its day starts and what its text
\* is.  In UTC the text of an instant is the instant.
InstantOf(f, v) == IF ~InUTC(f, v) THEN Instant(f, v[1])
                   ELSE IF f.kind = "date" THEN Midnight(v[1]) ELSE v[1]
Text(f, v) == IF InUTC(f, v) THEN InstantOf(f, v) ELSE Format(f, v[1])

\* A time whose instant has another text where the process is, or starts no day there.
IsAbroad(f, v) == InUTC(f, v) /\ LET t == InstantOf(f, v) IN
                                 Text(f, v) # Format(f, t) \/ Instant(f, t) # t

\* Seconds since year 0; nothing before 1970 is kept.
Seconds(t) == IF t > 0 THEN t + TimeStampSeconds ELSE ZeroDateSeconds
TimeToken(f, u) == Seconds(Instant(f, u))

\* Mutant of TimeFromDB: the offset stays.
TimeFromDBLocal(f, c) == c + TimeStampSeconds

\* TO_SECONDS(column), less the offset.  What is compared with the offset is not
\* the same for a pointer.
TimeFromDB(f, c) ==
    LET t == c + TimeStampSeconds IN
    IF (IF f.null THEN t ELSE c) > TimeOffset THEN t - TimeOffset ELSE t

-----------------------------------------------------------------------------
(* The binary form.                                                        *)

\* math.Round(v * p) / p: half away from zero.
Round(v) == IF v >= 0 THEN ((v + Unit \div 2) \div Unit) * Unit
            ELSE -(((-v + Unit \div 2) \div Unit) * Unit)

\* enum.Index: members are numbered from 1, 0 is for what is none.
Members == 1 .. 2
Index(v) == IF v \in Members THEN v ELSE 0

\* Kinds that are serialized as a length, or a flag, and what follows.
IsPrefixed(f) == f.null \/ f.kind \in {"string", "bytes", "set", "json", "refsMany"}
Prefixed(s) == <<Len(s)>> \o s
Width(f, tokens) == 1 + IF IsPrefixed(f) THEN tokens[1] ELSE 0

\* A JSON value as Go encodes it; MySQL has a form of its own.
GoText(v) == 2 * v
MySQLText(v) == 2 * v + 1
Parsed(text) == text \div 2

\* A text or bytes without those that are empty.
NonEmpty(v) == IF v = <<0>> THEN << >> ELSE v

\* serializeFields.
EncodeNumber(f, v) == IF f.kind \in {"int", "bool"} THEN v
                      ELSE IF f.kind \in Times THEN TimeToken(f, v) ELSE Round(v)
Encode(f, v) ==
    LET tokens == IF InUTC(f, v) THEN <<Seconds(InstantOf(f, v))>>
                  ELSE [i \in 1 .. Len(v) |-> EncodeNumber(f, v[i])] IN
    CASE f.kind = "ref" -> IF v = Nil THEN <<0>> ELSE v
      [] f.kind \in Numbers \cup Times -> IF f.null THEN Prefixed(tokens) ELSE tokens
      [] f.kind = "fakeDelete" -> v
      [] f.kind \in {"string", "bytes"} -> Prefixed(NonEmpty(v))
      [] f.kind = "enum" -> <<Index(v[1])>>
      [] f.kind = "set" -> Prefixed([i \in 1 .. Len(v) |-> Index(v[i])])
      [] f.kind = "json" -> Prefixed([i \in 1 .. Len(v) |-> GoText(v[i])])
      [] f.kind = "refsMany" -> Prefixed(v)

\* deserializeFields.
DecodeNumber(f, t) == IF f.kind \in Times THEN t - TimeStampSeconds ELSE t
Decode(f, tokens) ==
    LET rest == Tail(tokens)
        values(s) == [i \in 1 .. Len(s) |-> DecodeNumber(f, s[i])] IN
    CASE f.kind = "ref" -> IF tokens = <<0>> THEN Nil ELSE tokens
      [] f.kind \in Numbers \cup Times -> IF f.null THEN values(rest) ELSE values(tokens)
      [] f.kind \in {"fakeDelete", "enum"} -> tokens
      [] f.kind \in {"string", "bytes"} -> IF rest = << >> THEN <<0>> ELSE rest
      [] f.kind \in {"set", "refsMany"} -> rest
      [] f.kind = "json" -> [i \in 1 .. Len(rest) |-> Parsed(rest[i])]

\* Members of a set that the registry does not know have index 0, at which
\* GetFields()[index - 1] panics.
IsReadable(f, tokens) == f.kind = "set" => \A i \in 2 .. Len(tokens) : tokens[i] # 0

\* deserializeStructFromDB, on what prepareScan has it scanned into.
Listed(c) == IF c = Nil THEN << >> ELSE Tail(c)
FromDB(f, c) ==
    CASE f.kind = "ref" -> IF c = Nil THEN <<0>> ELSE c
      [] f.kind \in Numbers -> IF f.null THEN Prefixed(c) ELSE c
      [] f.kind \in Times ->
           LET tokens == [i \in 1 .. Len(c) |-> TimeFromDB(f, c[i])] IN
           IF f.null THEN Prefixed(tokens) ELSE tokens
      [] f.kind = "fakeDelete" -> <<IF c[1] > 0 THEN 1 ELSE 0>>
      [] f.kind \in {"string", "bytes"} -> Prefixed(NonEmpty(c))
      [] f.kind = "enum" -> IF c = Nil THEN <<0>> ELSE <<Index(c[1])>>
      [] f.kind = "set" -> Prefixed([i \in 1 .. Len(Listed(c)) |-> Index(Listed(c)[i])])
      [] f.kind = "json" -> Prefixed(c)
      [] f.kind = "refsMany" -> Prefixed(Listed(c))

-----------------------------------------------------------------------------
(* The bind builder.                                                       *)

\* The value v is what is in the database, as far as the builder can tell from the
\* binary form.
\* Mutant of SameNumber: without the precision.
SameNumberExact(f, old, v) == old = v

SameNumber(f, old, v) ==
    IF f.kind \in {"float", "decimal"} THEN v - old < Unit /\ old - v < Unit ELSE old = v
\* Mutant of SamePointer: a nil counts as its zero.
SamePointerOrZero(f, tokens, v) ==
    IF tokens[1] = 0 THEN v = Nil
    ELSE SameNumber(f, DecodeNumber(f, tokens[2]),
                    IF v = Nil THEN 0 ELSE IF f.kind \in Times THEN InstantOf(f, v) ELSE v[1])

SamePointer(f, tokens, v) ==
    IF tokens[1] = 0 THEN v = Nil
    ELSE v # Nil /\ SameNumber(f, DecodeNumber(f, tokens[2]),
                               IF f.kind \in Times THEN InstantOf(f, v) ELSE v[1])

\* The zero date is taken for 1970.
OldTime(token) == IF token = ZeroDateSeconds THEN 0 ELSE token - TimeStampSeconds
SameTime(f, token, v) ==
    LET old == OldTime(token) IN (old = 0 /\ IsZero(v[1])) \/ old = InstantOf(f, v)

\* As many members as before, and none that was not there.
SameSet(tokens, v) == Len(v) = tokens[1] /\ \A i \in DOMAIN v :
                        Index(v[i]) \in ToSet(Tail(tokens))

Same(f, tokens, v) ==
    CASE f.null -> SamePointer(f, tokens, v)
      [] ~f.null /\ f.kind \in Numbers -> SameNumber(f, tokens[1], v[1])
      [] ~f.null /\ f.kind \in Times -> SameTime(f, tokens[1], v)
      [] f.kind = "ref" -> tokens[1] = (IF v = Nil THEN 0 ELSE v[1])
      [] f.kind = "set" -> SameSet(tokens, v)
      [] f.kind = "enum" -> tokens[1] = Index(v[1])
      [] f.kind \in {"fakeDelete", "string", "bytes", "json", "refsMany"} ->
           Decode(f, tokens) = v

\* bindBuilder.sqlBind: what the column is set to.
Empty(f) ==
    CASE f.kind = "json" -> IF f.req THEN Invalid ELSE Nil
      [] f.kind \in {"set", "refsMany"} -> IF f.req THEN <<Mark>> ELSE Nil
      [] f.kind = "string" -> IF f.req THEN <<0>> ELSE Nil
      [] f.kind = "enum" -> IF f.req THEN <<1>> ELSE Nil   \* GetDefault
      [] OTHER -> Nil

\* MySQL rounds what it puts in a decimal, and has an order of its own for a set.
InOrder(S) == (IF 1 \in S THEN <<1>> ELSE << >>) \o (IF 2 \in S THEN <<2>> ELSE << >>)
Stored(f, v) ==
    CASE f.kind \in {"ref", "int", "bool", "float", "enum", "string", "bytes"} -> v
      [] f.kind = "decimal" -> <<Round(v[1])>>
      [] f.kind \in Times -> <<Text(f, v)>>
      [] f.kind = "fakeDelete" -> IF v[1] = 0 THEN <<0>> ELSE <<IF inDB THEN ID ELSE 0>>
      [] f.kind = "set" -> <<Mark>> \o InOrder(ToSet(v))
      [] f.kind = "json" -> <<MySQLText(v[1])>>
      [] f.kind = "refsMany" -> <<Mark>> \o v

IsEmpty(f, v) == v = Nil \/ (f.kind \in {"string", "enum", "bytes"} /\ v = <<0>>)
Written(f, v) == IF IsEmpty(f, v) THEN Empty(f) ELSE Stored(f, v)

\* Values at which the builder panics.
IsRefused(f, v) == f.kind = "enum" /\ IF v = <<0>> THEN f.req /\ inDB ELSE v[1] \notin Members

\* MySQL refuses NULL where it is required, a text that is no JSON, and members that
\* a set does not have.
IsStorable(f, v) ==
    /\ Written(f, v) # Invalid
    /\ f.req => Written(f, v) # Nil
    /\ f.kind = "set" => ToSet(v) \subseteq Members

\* Mutant of BeforeTime: in UTC.
BeforeTimeUTC(f, token) ==
    LET u == token - TimeStampSeconds IN IF f.kind = "date" THEN Midnight(u) ELSE u

\* bindBuilder.current: what the column held, for logs and keys of cached queries.
BeforeTime(f, token) == Format(f, IF f.null THEN token - TimeStampSeconds ELSE OldTime(token))
Before(f, tokens, v) ==
    LET old == Decode(f, tokens)
        missing == IF f.req THEN <<0>> ELSE Nil IN
    CASE f.kind \in Numbers \cup {"ref"} -> old
      [] f.kind \in Times -> IF old = Nil THEN Nil ELSE <<BeforeTime(f, Last(tokens))>>
      [] f.kind = "fakeDelete" -> IF old = <<0>> THEN <<0>> ELSE <<ID>>
      [] f.kind = "string" -> IF old = <<0>> THEN missing ELSE old
      [] f.kind = "enum" -> IF old = <<0>> THEN Nil ELSE old
      [] f.kind = "bytes" -> IF old = <<0>> THEN Nil ELSE v
      [] f.kind = "set" -> IF Len(old) # Len(v) \/ old = Nil THEN missing ELSE <<Mark>> \o old
      [] f.kind = "json" -> IF old = Nil THEN missing ELSE Tail(tokens)
      [] f.kind = "refsMany" -> IF old = Nil THEN missing
                                ELSE IF v = Nil THEN Absent ELSE <<Mark>> \o old

-----------------------------------------------------------------------------
(* The entity.                                                             *)

\* The binary form is read field by field, in the order in which it was written.
Serialized(v) == Encode(FieldAt[1], v[1]) \o Encode(FieldAt[2], v[2])
TokensOf(b) ==
    LET n == Width(FieldAt[1], b) IN
    <<SubSeq(b, 1, n), SubSeq(b, n + 1, n + Width(FieldAt[2], SubSeq(b, n + 1, Len(b))))>>
Deserialized(b) == [i \in 1 .. 2 |-> Decode(FieldAt[i], TokensOf(b)[i])]
DeserializedFromDB(r) == FromDB(FieldAt[1], r[1]) \o FromDB(FieldAt[2], r[2])

IsSame(i) == inDB /\ Same(FieldAt[i], TokensOf(bin)[i], go[i])
Dirty == {i \in 1 .. 2 : ~IsSame(i)}

Values(f) ==
    CASE f.kind = "ref" -> {Nil, <<1>>, <<2>>}
      [] f.kind = "int" -> {<<0>>, <<1>>, <<2>>} \cup IF f.null THEN {Nil} ELSE {}
      [] f.kind = "bool" -> {<<0>>, <<1>>} \cup IF f.null THEN {Nil} ELSE {}
      [] f.kind \in {"float", "decimal"} ->
           {<<0>>, <<4>>, <<9>>, <<-15>>} \cup IF f.null THEN {Nil} ELSE {}
      [] f.kind \in Times ->
           {<<u>> : u \in {ZeroTime, 0, Day + 2, LastYear - 1}} \cup {<<Day + 2, UTC>>}
             \cup IF f.null THEN {Nil} ELSE {}
      [] f.kind = "fakeDelete" -> {<<0>>, <<1>>}
      [] f.kind \in {"string", "bytes"} -> {<<0>>, <<1>>, <<2>>}
      [] f.kind = "enum" -> {<<0>>, <<1>>, <<2>>, <<3>>}
      [] f.kind = "set" -> {Nil, <<1>>, <<2>>, <<1, 2>>, <<2, 1>>, <<1, 1>>, <<3>>}
      [] f.kind = "json" -> {Nil, <<1>>, <<2>>}
      [] f.kind = "refsMany" -> {Nil, <<1>>, <<2>>, <<1, 2>>}

\* Rows of before: the default that an ALTER gave the column, a member of an enum or a set
\* that the registry has no more.
Columns(f) ==
    CASE f.kind \in Times -> {<<Midnight(LastYear)>>}
                               \cup IF f.null THEN {} ELSE {<<Year1000>>, <<ZeroTime>>}
      [] f.kind = "enum" -> {<<3>>}
      [] f.kind = "set" -> {<<Mark, 2>>}
      [] OTHER -> {}

\* The fields of new(T).
Zero(f) == IF f.null \/ f.kind \in {"ref", "set", "json", "refsMany"} THEN Nil
           ELSE IF f.kind \in Times THEN <<ZeroTime>> ELSE <<0>>

Init ==
    /\ setup \in Setups
    /\ settled = TRUE /\ unsaved = {} /\ stale = {} /\ cache = None
    /\ \/ /\ inDB = FALSE /\ bin = None /\ row = <<Nil, Nil>>
          /\ go = [i \in 1 .. 2 |-> Zero(FieldAt[i])]
       \/ /\ inDB = TRUE
          /\ \E c \in Columns(FieldAt[1]) : row = <<c, <<0>>>>
          /\ bin = DeserializedFromDB(row) /\ go = Deserialized(bin)

\* The program sets a field.
Assign(i, v) ==
    /\ go' = [go EXCEPT ![i] = v]
    /\ settled' = FALSE
    /\ UNCHANGED <<setup, inDB, bin, row, cache, unsaved, stale>>

\* What SetField may be given: nothing, as nil or as a text, a text of a value, a value, a
\* pointer to one, or something of another type.  The RFC 3339 text of a time has its
\* Location, the other layouts are read in that of the process.
Inputs(f) == [form : {"nil", "nilText", "emptyText", "other"}, v : {Nil}]
               \cup [form : {"text", "value", "pointer"}, v : Values(f) \ {Nil}]

\* What it makes of that, Invalid when it returns an error or panics.  A zero is nil
\* to a pointer, but its text or a pointer to it is not; anything else is false to a
\* bool, and some text to a string.
FieldSet(f, x) ==
    LET isNil == x.form \in {"nil", "nilText", "emptyText"}
        given(forms) == IF x.form \in forms THEN x.v ELSE Invalid
        isZero == x.form = "value" /\ x.v = <<0>> IN
    CASE f.kind \in Numbers /\ f.null ->
           IF isNil \/ isZero THEN Nil
           ELSE IF f.kind = "bool" /\ x.form = "other" THEN <<0>>
           ELSE given({"text", "value", "pointer"})
      [] f.kind \in {"bool", "fakeDelete"} /\ ~f.null ->
           IF x.form \in {"text", "value"} THEN x.v ELSE <<0>>
      [] f.kind \in {"int", "float", "decimal"} /\ ~f.null ->
           IF isNil THEN <<0>> ELSE given({"text", "value"})
      [] f.kind \in {"string", "enum"} ->
           IF isNil THEN <<0>> ELSE IF x.form \in {"text", "value"} THEN x.v ELSE <<2>>
      [] f.kind \in Times /\ f.null -> IF isNil THEN Nil ELSE given({"text", "pointer"})
      [] f.kind \in Times /\ ~f.null -> given({"text", "value"})
      [] f.kind = "ref" -> IF isNil THEN Nil ELSE given({"text", "value", "pointer"})
      [] f.kind \in {"bytes", "set", "json", "refsMany"} -> given({"value"})

SetField(i) ==
    \E x \in Inputs(FieldAt[i]) :
      FieldSet(FieldAt[i], x) # Invalid /\ Assign(i, FieldSet(FieldAt[i], x))

IsAccepted(F) == \A i \in F : IsStorable(FieldAt[i], go[i])
IsBuilt(F) == \A i \in F : ~IsRefused(FieldAt[i], go[i])

\* A new entity has no id yet that FakeDelete could take, and keeps the empty enum that
\* it had the default written for.
Untold == {i \in 1 .. 2 : \/ FieldAt[i].kind = "fakeDelete" /\ go[i] = <<1>>
                          \/ FieldAt[i].kind = "enum" /\ FieldAt[i].req /\ go[i] = <<0>>}

\* Times of which the row gets the text and the binary form the instant.
Abroad == {i \in 1 .. 2 : IsAbroad(FieldAt[i], go[i])}

\* Mutant of Insert: the entity does not learn that it is in the database.
InsertUnnoticed ==
    /\ ~inDB /\ IsBuilt({1, 2}) /\ IsAccepted({1, 2})
    /\ row' = [i \in 1 .. 2 |-> Written(FieldAt[i], go[i])]
    /\ bin' = Serialized(go) /\ cache' = bin'
    /\ settled' = TRUE /\ unsaved' = Untold \cup Abroad /\ stale' = unsaved'
    /\ UNCHANGED <<setup, inDB, go>>

\* executeInserts, with all fields.
Insert ==
    /\ ~inDB /\ IsBuilt({1, 2}) /\ IsAccepted({1, 2})
    /\ inDB' = TRUE
    /\ row' = [i \in 1 .. 2 |-> Written(FieldAt[i], go[i])]
    /\ bin' = Serialized(go) /\ cache' = bin'
    /\ settled' = TRUE /\ unsaved' = Untold \cup Abroad /\ stale' = unsaved'
    /\ UNCHANGED <<setup, go>>

\* A field that is not written, and all the same another in the new binary form.
Meaning(f, tokens) == IF f.kind = "set" THEN ToSet(Tail(tokens)) ELSE tokens
Slipped == {i \in (1 .. 2) \ Dirty :
              Meaning(FieldAt[i], Encode(FieldAt[i], go[i]))
                # Meaning(FieldAt[i], TokensOf(bin)[i])}

\* flushUpdate, executeUpdates: the fields that are dirty.
Update ==
    /\ inDB /\ Dirty # {} /\ IsBuilt(Dirty) /\ IsAccepted(Dirty)
    /\ row' = [i \in 1 .. 2 |-> IF i \in Dirty THEN Written(FieldAt[i], go[i]) ELSE row[i]]
    /\ bin' = Serialized(go) /\ cache' = bin'
    /\ settled' = TRUE
    /\ unsaved' = (unsaved \ Dirty) \cup Slipped \cup (Abroad \cap Dirty)
    /\ stale' = unsaved'
    /\ UNCHANGED <<setup, go, inDB>>

\* The UPDATE fails, for a reason of its own or of MySQL's, after flushUpdate has
\* replaced the binary form.
UpdateFails ==
    /\ inDB /\ Dirty # {} /\ IsBuilt(Dirty)
    /\ bin' = Serialized(go)
    /\ unsaved' = unsaved \cup Dirty \cup Slipped
    /\ settled' = FALSE
    /\ UNCHANGED <<setup, go, inDB, row, cache, stale>>

\* fillFromDBRow: the row is SELECTed, and cached.
LoadRow ==
    /\ inDB /\ IsReadable(FieldAt[1], FromDB(FieldAt[1], row[1]))
    /\ bin' = DeserializedFromDB(row) /\ cache' = bin'
    /\ go' = Deserialized(bin')
    /\ settled' = TRUE /\ unsaved' = {} /\ stale' = {}
    /\ UNCHANGED <<setup, inDB, row>>

\* fillFromBinary: a cache has it.
LoadCached ==
    /\ cache # None /\ IsReadable(FieldAt[1], TokensOf(cache)[1])
    /\ bin' = cache /\ go' = Deserialized(cache)
    /\ settled' = TRUE /\ unsaved' = stale
    /\ UNCHANGED <<setup, inDB, row, cache, stale>>

Next ==
    \/ \E v \in Values(FieldAt[1]) : Assign(1, v)
    \/ \E v \in {<<0>>, <<1>>} : Assign(2, v)
    \/ SetField(1) \/ Insert \/ Update \/ UpdateFails \/ LoadRow \/ LoadCached

Spec == Init /\ [][Next]_vars

-----------------------------------------------------------------------------
(* Properties.                                                             *)

TypeOK ==
    /\ setup \in Setups
    /\ inDB \in BOOLEAN /\ settled \in BOOLEAN
    /\ unsaved \subseteq {1, 2} /\ stale \subseteq {1, 2}
    /\ go \in Seq(Seq(Int)) /\ row \in Seq(Seq(Int))
    /\ \A b \in {bin, cache} \ {None} :
         b \in Seq(Int) /\ Len(b) = Len(TokensOf(b)[1]) + Len(TokensOf(b)[2])
    /\ bin = None <=> ~inDB
    /\ cache # None => inDB

Near(x, y) == 2 * (x - y) < 3 * Unit /\ 2 * (y - x) < 3 * Unit

\* The column c says the Go value v.
Says(f, c, v) ==
    CASE f.kind \in {"ref", "int", "bool"} -> c = v
      [] f.kind \in {"float", "decimal"} ->
           c = v \/ (c # Nil /\ v # Nil /\ Near(c[1], v[1]))
      [] f.kind \in Times -> IF v = Nil THEN c = Nil ELSE c = <<Text(f, v)>>
      [] f.kind = "fakeDelete" -> (c[1] > 0) = (v[1] = 1)
      [] f.kind \in {"string", "enum", "bytes"} -> c = v \/ (v = <<0>> /\ c = Nil)
      [] f.kind = "set" -> ToSet(Listed(c)) = ToSet(v)
      [] f.kind = "json" -> IF v = Nil THEN c = Nil ELSE c # Nil /\ Parsed(c[1]) = v[1]
      [] f.kind = "refsMany" -> Listed(c) = v

\* Instants that survive the binary form, and a row: after 1970, in the season in which
\* the program started; and the zero of a field that is no pointer.
IsKeptInstant(t) == t > 0 /\ OffsetAt(t) = TimeOffset
IsKeptTime(f, u) == IsKeptInstant(Instant(f, u))

\* Go values that the builder compares with the row for what they are.
IsKept(f, v) ==
    CASE f.kind \in Times -> v = Nil \/ IsKeptInstant(InstantOf(f, v)) \/ (v = <<ZeroTime>> /\ ~f.null)
      [] f.kind = "enum" -> v[1] \in Members \cup {0}
      [] f.kind = "set" -> ToSet(v) \subseteq Members /\ IsInjective(v)
      [] OTHER -> TRUE

\* Columns that are read for what they are.
IsKeptColumn(f, c) ==
    CASE f.kind \in Times -> \/ c = Nil \/ (c = <<ZeroTime>> /\ ~f.null)
                             \/ IsKeptTime(f, c[1] - TimeOffset)
      [] f.kind = "enum" -> c = Nil \/ c[1] \in Members
      [] OTHER -> TRUE

\* A field that is not dirty is what the column says, unless its value reached the
\* binary form and not the row: with an UPDATE that failed, with one that was dirty
\* for another field when it differed by less than its precision, or by a member that
\* is repeated, or at the INSERT of an entity marked FakeDelete or with an empty enum
\* that is required.  A time of another Location has a text and an instant that differ:
\* written, it reaches the row with the one and the binary form with the other; of the
\* instant that is there already, it is not written.
CleanIsRow ==
    inDB => \A i \in (1 .. 2) \ (Dirty \cup unsaved) :
       LET f == FieldAt[i] IN
       IsKept(f, go[i]) /\ ~IsAbroad(f, go[i]) /\ IsKeptColumn(f, row[i])
         => Says(f, row[i], go[i])

\* An entity that was just flushed or loaded is not dirty, unless the row holds a time
\* of before 1970 or of the other season, or a cache a date that starts in another
\* Location.
SettledIsClean ==
    inDB /\ settled => \A i \in Dirty :
       \/ FieldAt[i].kind = "date" /\ i \in unsaved
       \/ ~(IsKept(FieldAt[i], go[i]) /\ IsKeptColumn(FieldAt[i], row[i]))

\* What a cache has of the entity is what its row says.
CacheIsRow ==
    cache # None => \A i \in (1 .. 2) \ stale :
       IsKeptColumn(FieldAt[i], row[i])
         => Says(FieldAt[i], row[i], Deserialized(cache)[i])

\* Fields of which the old value is gone: bytes get the new one, a set of another
\* length and references that are all removed get none.  A zero time is 1970.
IsForgotten(f, tokens, v) ==
    LET old == Decode(f, tokens) IN
    \/ f.kind = "bytes" /\ v # old
    \/ f.kind = "set" /\ Len(v) # Len(old)
    \/ f.kind = "refsMany" /\ v = Nil
    \/ f.kind \in Times /\ old = <<ZeroTime>>

\* What the log of an UPDATE and the keys of cached queries take for the old value of
\* a field is that of the row.
BeforeIsRow ==
    inDB => \A i \in (1 .. 2) \ unsaved :
       LET f == FieldAt[i]
           tokens == TokensOf(bin)[i]
       IN  IsKeptColumn(f, row[i]) /\ ~IsForgotten(f, tokens, go[i])
             => Says(f, Before(f, tokens, go[i]), Decode(f, FromDB(f, row[i])))
=============================================================================
