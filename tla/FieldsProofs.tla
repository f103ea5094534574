---------------------------- MODULE FieldsProofs ----------------------------
(* Theorems about Fields, for any fields, zones and precision.              *)
EXTENDS Fields, FiniteSetTheorems, SequenceTheorems, TLAPS

-----------------------------------------------------------------------------
(* Days: what a column holds of an instant, and the instant that is read.   *)

LEMMA Constants ==
  /\ ID \in Nat \ {0} /\ Unit \in Nat \ {0} /\ Day \in Nat /\ Day > 1
  /\ TimeStampSeconds \in Int /\ TimeStampSeconds > 0
  /\ ZeroDateSeconds \in Int /\ ZeroDateSeconds > 0 /\ ZeroDateSeconds < TimeStampSeconds
  /\ Year1000 \in Int /\ ZeroTime \in Int /\ ZeroTime < Year1000 /\ Year1000 < -Day
  /\ Midnight(Year1000) = Year1000 /\ Midnight(ZeroTime) = ZeroTime
  <1>1. /\ ID \in Nat \ {0} /\ Unit \in Nat \ {0} /\ Day \in Nat \ {0}
        /\ TimeStampSeconds \in Nat /\ ZeroDateSeconds \in Nat
        /\ Year1000 \in Int /\ Year1000 < 0
        /\ 0 < ZeroDateSeconds /\ ZeroDateSeconds < TimeStampSeconds + Year1000
    BY SetupAssumption
  <1>2. /\ Day > 1 /\ Year1000 < -Day
        /\ Midnight(Year1000) = Year1000 /\ Midnight(ZeroTime) = ZeroTime
    BY DayAssumption
  <1> QED
    BY <1>1, <1>2 DEF ZeroTime

\* A zone has an offset, and another from some instant on.
LEMMA ZoneIs ==
  ASSUME setup \in Setups
  PROVE  /\ Zone.offset \in Int /\ -Day < Zone.offset /\ Zone.offset < Day
         /\ Zone.more \in {0, 1} /\ Zone.summer \in Int
         /\ \A u : OffsetAt(u) \in Int
         /\ \A u \in Int : OffsetAt(u) = IF u >= Zone.summer THEN Zone.offset + Zone.more ELSE Zone.offset
         /\ TimeOffset \in Int /\ TimeOffset \in {Zone.offset, Zone.offset + Zone.more}
  <1>1. setup.zone \in ZoneType
    BY SetupAssumption
  <1>2. -Day < setup.zone.offset /\ setup.zone.offset < Day
    BY DayAssumption
  <1>3. /\ Zone.offset \in Int /\ Zone.more \in {0, 1} /\ Zone.summer \in Int /\ Zone.start \in Int
    BY <1>1 DEF ZoneType, Zone
  <1> QED
    BY <1>2, <1>3 DEF Zone, OffsetAt, TimeOffset

LEMMA Division ==
  ASSUME NEW d \in Nat \ {0}, NEW c \in Int
  PROVE  c \div d \in Int /\ (c \div d) * d <= c /\ c < (c \div d) * d + d
  OBVIOUS

LEMMA FewerTimes ==
  ASSUME NEW d \in Nat \ {0}, NEW a \in Int, NEW b \in Int, a * d < b * d + d
  PROVE  a <= b
  OBVIOUS

\* The only multiple of d that is at most c and less than d away.
LEMMA OnlyMultiple ==
  ASSUME NEW d \in Nat \ {0}, NEW c \in Int, NEW a \in Int, a * d <= c, c < a * d + d
  PROVE  a = c \div d
  <1>1. c \div d \in Int /\ (c \div d) * d <= c /\ c < (c \div d) * d + d
    BY Division
  <1>2. a <= c \div d
    BY <1>1, FewerTimes
  <1>3. c \div d <= a
    BY <1>1, FewerTimes
  <1> QED
    BY <1>1, <1>2, <1>3

LEMMA MidnightIs ==
  ASSUME NEW c \in Int
  PROVE  /\ Midnight(c) \in Int /\ Midnight(c) <= c /\ c < Midnight(c) + Day
         /\ Midnight(Midnight(c)) = Midnight(c)
  <1>1. Day \in Nat \ {0}
    BY Constants
  <1>2. c \div Day \in Int /\ (c \div Day) * Day <= c /\ c < (c \div Day) * Day + Day
    BY <1>1, Division
  <1>3. (c \div Day) * Day \in Int /\ (c \div Day) * Day < (c \div Day) * Day + Day
    BY <1>1, <1>2
  <1>4. ((c \div Day) * Day) \div Day = c \div Day
    <2> DEFINE e == (c \div Day) * Day
    <2>1. e \in Int /\ (c \div Day) * Day <= e /\ e < (c \div Day) * Day + Day
      BY <1>1, <1>3
    <2> HIDE DEF e
    <2>2. c \div Day = e \div Day
      BY <1>1, <1>2, <2>1, OnlyMultiple
    <2> QED
      BY <2>2 DEF e
  <1> QED
    BY <1>2, <1>3, <1>4 DEF Midnight

\* The instants of a day have its midnight.
LEMMA MidnightOf ==
  ASSUME NEW c \in Int, Midnight(c) = c, NEW e \in Int, c <= e, e < c + Day
  PROVE  Midnight(e) = c
  <1>1. Day \in Nat \ {0} /\ c \div Day \in Int
    BY Constants, Division
  <1>2. (c \div Day) * Day = c
    BY DEF Midnight
  <1>3. c \div Day = e \div Day
    BY <1>1, <1>2, OnlyMultiple
  <1> QED
    BY <1>2, <1>3 DEF Midnight

LEMMA MidnightBefore ==
  ASSUME NEW c \in Int, Midnight(c) = c
  PROVE  Midnight(c - 1) = c - Day
  <1>1. Day \in Nat \ {0} /\ Day > 1 /\ c \div Day \in Int
    BY Constants, Division
  <1>2. (c \div Day) * Day = c
    BY DEF Midnight
  <1>3. (c \div Day - 1) * Day = c - Day
    BY <1>1, <1>2
  <1>4. c \div Day - 1 = (c - 1) \div Day
    BY <1>1, <1>3, OnlyMultiple
  <1> QED
    BY <1>3, <1>4 DEF Midnight

LEMMA StartIs ==
  ASSUME setup \in Setups, NEW u \in Int, u # ZeroTime
  PROVE  /\ Local(u) = u + OffsetAt(u) /\ Local(u) \in Int
         /\ StartOfDay(u) = IF Midnight(Local(u)) - Zone.offset - Zone.more >= Zone.summer
                            THEN Midnight(Local(u)) - Zone.offset - Zone.more
                            ELSE Midnight(Local(u)) - Zone.offset
         /\ StartOfDay(u) \in Int
  <1>1. Local(u) = u + OffsetAt(u) /\ Local(u) \in Int
    BY ZoneIs DEF Local
  <1>2. Midnight(Local(u)) \in Int
    BY <1>1, MidnightIs
  <1> QED
    BY <1>1, <1>2, ZoneIs DEF StartOfDay

\* A day starts where it does.
LEMMA StartsOnce ==
  ASSUME setup \in Setups, NEW u \in Int
  PROVE  StartOfDay(u) \in Int /\ StartOfDay(StartOfDay(u)) = StartOfDay(u)
  <1>0. ZeroTime \in Int /\ StartOfDay(ZeroTime) = ZeroTime
    BY Constants DEF StartOfDay
  <1>1. CASE u = ZeroTime
    BY <1>0, <1>1
  <1>2. CASE u # ZeroTime
    <2> DEFINE c == Midnight(Local(u))
               s == StartOfDay(u)
    <2>1. /\ c \in Int /\ Midnight(c) = c /\ s \in Int
          /\ s = IF c - Zone.offset - Zone.more >= Zone.summer THEN c - Zone.offset - Zone.more
                 ELSE c - Zone.offset
      BY <1>2, StartIs, MidnightIs
    <2>2. CASE s = ZeroTime
      BY <1>0, <2>2
    <2>3. CASE s # ZeroTime
      <3>1. /\ Local(s) = s + OffsetAt(s)
            /\ StartOfDay(s) = IF Midnight(Local(s)) - Zone.offset - Zone.more >= Zone.summer
                               THEN Midnight(Local(s)) - Zone.offset - Zone.more
                               ELSE Midnight(Local(s)) - Zone.offset
        BY <2>1, <2>3, StartIs
      <3>2. Local(s) = c \/ Local(s) = c + 1
        BY <2>1, <3>1, ZoneIs
      <3>3. Midnight(Local(s)) = c
        BY <2>1, <3>2, MidnightOf, Constants
      <3> HIDE DEF c, s
      <3> QED
        BY <2>1, <3>1, <3>3 DEF s
    <2> QED
      BY <2>2, <2>3
  <1> QED
    BY <1>1, <1>2

\* A column that holds a midnight, and is read for what it is: x is the instant.
KeptDay(c, x) == /\ Midnight(c) = c /\ x = c - TimeOffset
                 /\ StartOfDay(x) > 0 /\ OffsetAt(StartOfDay(x)) = TimeOffset

LEMMA KeptDayIs ==
  ASSUME setup \in Setups, NEW c \in Int, NEW x, KeptDay(c, x)
  PROVE  x \in Int /\ x > 0 /\ x # ZeroTime /\ OffsetAt(x) = TimeOffset /\ StartOfDay(x) = x /\ Local(x) = c
  <1> DEFINE s == StartOfDay(x)
             m == Midnight(Local(x))
  <1>1. x \in Int /\ x = c - TimeOffset /\ Midnight(c) = c /\ s > 0 /\ OffsetAt(s) = TimeOffset
    BY ZoneIs DEF KeptDay
  <1>2. x # ZeroTime
    BY <1>1, Constants DEF StartOfDay
  <1>3. /\ Local(x) = x + OffsetAt(x) /\ Local(x) \in Int /\ s \in Int /\ m \in Int
        /\ s = IF m - Zone.offset - Zone.more >= Zone.summer THEN m - Zone.offset - Zone.more ELSE m - Zone.offset
    BY <1>1, <1>2, StartIs, MidnightIs
  <1>4. Local(x) \in {c - 1, c, c + 1}
    BY <1>1, <1>3, ZoneIs
  <1>5. /\ Local(x) = c - 1 => m = c - Day
        /\ Local(x) = c \/ Local(x) = c + 1 => m = c
    <2>1. Local(x) = c - 1 => m = c - Day
      BY <1>1, MidnightBefore
    <2>2. Local(x) = c \/ Local(x) = c + 1 => m = c
      BY <1>1, MidnightOf, Constants
    <2> QED
      BY <2>1, <2>2
  <1> HIDE DEF s, m
  <1>6. OffsetAt(x) = TimeOffset
    <2>1. CASE OffsetAt(x) < TimeOffset
      <3>1. Zone.more = 1 /\ x < Zone.summer /\ TimeOffset = Zone.offset + 1 /\ Local(x) = c - 1
        BY <1>1, <1>3, <2>1, ZoneIs
      <3>2. s < Zone.summer
        BY <1>1, <1>3, <1>5, <3>1, ZoneIs, Constants
      <3> QED
        BY <1>1, <1>3, <3>1, <3>2, ZoneIs
    <2>2. CASE OffsetAt(x) > TimeOffset
      <3>1. Zone.more = 1 /\ x >= Zone.summer /\ TimeOffset = Zone.offset /\ Local(x) = c + 1
        BY <1>1, <1>3, <2>2, ZoneIs
      <3>2. s >= Zone.summer
        BY <1>1, <1>3, <1>5, <3>1, ZoneIs
      <3> QED
        BY <1>1, <1>3, <3>1, <3>2, ZoneIs
    <2> QED
      BY <1>1, <2>1, <2>2, ZoneIs
  <1>7. Local(x) = c /\ m = c
    BY <1>1, <1>3, <1>5, <1>6, ZoneIs
  <1>8. s = x
    BY <1>1, <1>3, <1>6, <1>7, ZoneIs
  <1> QED
    BY <1>1, <1>2, <1>6, <1>7, <1>8 DEF s

\* What is read of a day is what was written.
LEMMA WrittenDay ==
  ASSUME setup \in Setups, NEW v \in Int, v # ZeroTime, NEW x, KeptDay(Midnight(Local(v)), x)
  PROVE  StartOfDay(v) = x
  <1> DEFINE c == Midnight(Local(v))
  <1>1. /\ c \in Int
        /\ StartOfDay(v) = IF c - Zone.offset - Zone.more >= Zone.summer THEN c - Zone.offset - Zone.more
                           ELSE c - Zone.offset
    BY StartIs, MidnightIs
  <1>2. x = c - TimeOffset /\ OffsetAt(x) = TimeOffset /\ x \in Int
    BY <1>1, KeptDayIs DEF KeptDay
  <1> HIDE DEF c
  <1> QED
    BY <1>1, <1>2, ZoneIs

\* Whatever starts the same day has the same column.
LEMMA SameDay ==
  ASSUME setup \in Setups, NEW u \in Int, u # ZeroTime, NEW c \in Int, NEW x, KeptDay(c, x), StartOfDay(u) = x
  PROVE  Midnight(Local(u)) = c
  <1> DEFINE m == Midnight(Local(u))
  <1>1. /\ m \in Int /\ Midnight(m) = m
        /\ x = IF m - Zone.offset - Zone.more >= Zone.summer THEN m - Zone.offset - Zone.more
               ELSE m - Zone.offset
    BY StartIs, MidnightIs
  <1>2. x = c - TimeOffset /\ OffsetAt(x) = TimeOffset /\ x \in Int /\ Midnight(c) = c
    BY KeptDayIs DEF KeptDay
  <1>3. m = c \/ c = m + 1
    BY <1>1, <1>2, ZoneIs
  <1>4. c # m + 1
    BY <1>1, <1>2, MidnightOf, Constants
  <1> HIDE DEF m
  <1> QED
    BY <1>3, <1>4 DEF m

-----------------------------------------------------------------------------
(* Times, as fields have them.                                              *)

IsTime(f) == f.kind \in Times

\* A column of a date holds a midnight.
IsDay(f, c) == f.kind = "date" => Midnight(c) = c

LEMMA Zeros ==
  ASSUME setup \in Setups, NEW f, IsTime(f)
  PROVE  /\ Instant(f, ZeroTime) = ZeroTime /\ Format(f, ZeroTime) = ZeroTime
         /\ Instant(f, Year1000) < 0 /\ ZeroTime < 0 /\ Year1000 < 0
         /\ (~f.null => TimeFromDB(f, ZeroTime) = ZeroDateSeconds)
         /\ ZeroTime - TimeOffset < 0 /\ IsDay(f, ZeroTime)
  <1>1. StartOfDay(ZeroTime) = ZeroTime /\ Local(ZeroTime) = ZeroTime /\ Midnight(ZeroTime) = ZeroTime
    BY Constants DEF StartOfDay, Local
  <1>2. StartOfDay(Year1000) < 0
    <2>1. /\ Local(Year1000) = Year1000 + OffsetAt(Year1000) /\ Local(Year1000) \in Int
          /\ StartOfDay(Year1000) \in {Midnight(Local(Year1000)) - Zone.offset - Zone.more,
                                       Midnight(Local(Year1000)) - Zone.offset}
      BY StartIs, Constants
    <2>2. Midnight(Local(Year1000)) \in Int /\ Midnight(Local(Year1000)) <= Local(Year1000)
      BY <2>1, MidnightIs
    <2> QED
      BY <2>1, <2>2, ZoneIs, Constants
  <1>3. ZeroTime < 0 /\ Year1000 < 0 /\ ZeroTime - TimeOffset < 0 /\ ~(ZeroTime > TimeOffset)
    BY ZoneIs, Constants
  <1>4. ZeroTime + TimeStampSeconds = ZeroDateSeconds
    BY Constants DEF ZeroTime
  <1>5. (~f.null => TimeFromDB(f, ZeroTime) = ZeroDateSeconds)
    BY <1>3, <1>4 DEF TimeFromDB
  <1> QED
    BY <1>1, <1>2, <1>3, <1>5 DEF Instant, Format, IsDay

LEMMA InstantOnce ==
  ASSUME setup \in Setups, NEW f, NEW u \in Int
  PROVE  Instant(f, u) \in Int /\ Instant(f, Instant(f, u)) = Instant(f, u)
  BY StartsOnce DEF Instant

LEMMA FormatIs ==
  ASSUME setup \in Setups, NEW f, NEW u \in Int
  PROVE  Format(f, u) \in Int /\ IsDay(f, Format(f, u))
  <1>1. Local(u) \in Int
    BY ZoneIs DEF Local
  <1> QED
    BY <1>1, MidnightIs DEF Format, IsDay

\* A column that is kept is read as its instant, which has that column.
LEMMA ReadTime ==
  ASSUME setup \in Setups, NEW f, IsTime(f), NEW c \in Int, IsDay(f, c), IsKeptTime(f, c - TimeOffset)
  PROVE  LET x == c - TimeOffset IN
         /\ x \in Int /\ x > 0 /\ x # ZeroTime /\ OffsetAt(x) = TimeOffset
         /\ Instant(f, x) = x /\ Format(f, x) = c /\ TimeFromDB(f, c) = x + TimeStampSeconds
  <1> DEFINE x == c - TimeOffset
  <1>1. x \in Int
    BY ZoneIs
  <1>2. /\ x > 0 /\ x # ZeroTime /\ OffsetAt(x) = TimeOffset
        /\ Instant(f, x) = x /\ Format(f, x) = c
    <2>1. CASE f.kind = "date"
      <3>1. KeptDay(c, x)
        BY <2>1 DEF IsDay, IsKeptTime, IsKeptInstant, Instant, KeptDay
      <3>2. x > 0 /\ x # ZeroTime /\ OffsetAt(x) = TimeOffset /\ StartOfDay(x) = x /\ Local(x) = c
        BY <3>1, KeptDayIs
      <3> QED
        BY <2>1, <3>2 DEF IsDay, Instant, Format
    <2>2. CASE f.kind # "date"
      <3>1. x > 0 /\ OffsetAt(x) = TimeOffset
        BY <2>2 DEF IsKeptTime, IsKeptInstant, Instant
      <3>2. x # ZeroTime
        BY <3>1, Constants
      <3>3. x + TimeOffset = c
        BY ZoneIs
      <3> QED
        BY <2>2, <3>1, <3>2, <3>3 DEF Instant, Format, Local
    <2> QED
      BY <2>1, <2>2
  <1>3. TimeFromDB(f, c) = x + TimeStampSeconds
    <2>1. c > TimeOffset /\ c + TimeStampSeconds > TimeOffset
      BY <1>1, <1>2, ZoneIs, Constants
    <2> QED
      BY <2>1, ZoneIs, Constants DEF TimeFromDB
  <1> QED
    BY <1>1, <1>2, <1>3

\* A time that was written and is kept is read as it was put in the binary form.
LEMMA WrittenTime ==
  ASSUME setup \in Setups, NEW f, IsTime(f), NEW v \in Int
  PROVE  /\ IsKeptTime(f, Format(f, v) - TimeOffset) => TimeToken(f, v) = TimeFromDB(f, Format(f, v))
         /\ Format(f, v) = ZeroTime => TimeToken(f, v) = ZeroDateSeconds
  <1> DEFINE c == Format(f, v)
             x == c - TimeOffset
  <1>0. c \in Int /\ IsDay(f, c)
    BY FormatIs
  <1>1. ASSUME IsKeptTime(f, x) PROVE TimeToken(f, v) = TimeFromDB(f, c)
    <2>1. /\ x \in Int /\ x > 0 /\ x # ZeroTime /\ OffsetAt(x) = TimeOffset
          /\ Instant(f, x) = x /\ TimeFromDB(f, c) = x + TimeStampSeconds
      BY <1>0, <1>1, ReadTime
    <2>2. v # ZeroTime
      <3>1. v = ZeroTime => x = ZeroTime - TimeOffset
        BY Zeros
      <3> QED
        BY <2>1, <3>1, Zeros
    <2>3. Instant(f, v) = x
      <3>1. CASE f.kind = "date"
        <4>1. c = Midnight(Local(v)) /\ KeptDay(c, x)
          BY <1>0, <1>1, <3>1 DEF Format, IsDay, IsKeptTime, IsKeptInstant, Instant, KeptDay
        <4>2. StartOfDay(v) = x
          BY <2>2, <4>1, WrittenDay
        <4> QED
          BY <3>1, <4>2 DEF Instant
      <3>2. CASE f.kind # "date"
        <4>1. c = v + OffsetAt(v)
          BY <2>2, <3>2 DEF Format, Local
        <4>2. v = x
          BY <2>1, <4>1, ZoneIs
        <4> QED
          BY <3>2, <4>2 DEF Instant
      <3> QED
        BY <3>1, <3>2
    <2> QED
      BY <2>1, <2>3 DEF TimeToken, Seconds
  <1>2. ASSUME c = ZeroTime PROVE TimeToken(f, v) = ZeroDateSeconds
    <2>1. Instant(f, v) < 0
      <3>1. CASE v = ZeroTime
        BY <3>1, Zeros
      <3>2. CASE v # ZeroTime /\ f.kind = "date"
        BY <1>2, <3>2, StartIs, ZoneIs, Constants DEF Format, Instant
      <3>3. CASE v # ZeroTime /\ f.kind # "date"
        BY <1>2, <3>3, StartIs, ZoneIs, Constants DEF Format, Instant
      <3> QED
        BY <3>1, <3>2, <3>3
    <2>2. Instant(f, v) \in Int
      BY InstantOnce
    <2> QED
      BY <2>1, <2>2 DEF TimeToken, Seconds
  <1> QED
    BY <1>1, <1>2

\* Another instant that stands for the same has the same column.
LEMMA SameColumn ==
  ASSUME setup \in Setups, NEW f, IsTime(f), NEW c \in Int, IsDay(f, c), IsKeptTime(f, c - TimeOffset),
         NEW u \in Int, Instant(f, u) = c - TimeOffset
  PROVE  Format(f, u) = c
  <1> DEFINE x == c - TimeOffset
  <1>1. x > 0 /\ x # ZeroTime /\ Format(f, x) = c
    BY ReadTime
  <1>2. u # ZeroTime
    BY <1>1, Zeros
  <1>3. CASE f.kind = "date"
    <2>1. KeptDay(c, x) /\ StartOfDay(u) = x
      BY <1>3 DEF IsDay, IsKeptTime, IsKeptInstant, Instant, KeptDay
    <2> QED
      BY <1>2, <1>3, <2>1, SameDay DEF Format
  <1>4. CASE f.kind # "date"
    <2>1. u = x
      BY <1>4 DEF Instant
    <2> QED
      BY <1>1, <2>1
  <1> QED
    BY <1>3, <1>4

LEMMA TimeTokenIs ==
  ASSUME setup \in Setups, NEW f, NEW u \in Int
  PROVE  /\ TimeToken(f, u) \in Int
         /\ Instant(f, u) > 0 => TimeToken(f, u) - TimeStampSeconds = Instant(f, u)
         /\ ~(Instant(f, u) > 0) => TimeToken(f, u) = ZeroDateSeconds
         /\ ZeroDateSeconds - TimeStampSeconds = ZeroTime
  BY InstantOnce, Constants DEF TimeToken, Seconds, ZeroTime

\* What is put in the binary form of a date starts a day.
LEMMA TokenStartsDay ==
  ASSUME setup \in Setups, NEW f, f.kind = "date", NEW u \in Int
  PROVE  StartOfDay(TimeToken(f, u) - TimeStampSeconds) = TimeToken(f, u) - TimeStampSeconds
  <1>1. Instant(f, u) = StartOfDay(u) /\ StartOfDay(StartOfDay(u)) = StartOfDay(u)
    BY StartsOnce DEF Instant
  <1>2. StartOfDay(ZeroTime) = ZeroTime
    BY DEF StartOfDay
  <1> QED
    BY <1>1, <1>2, TimeTokenIs

-----------------------------------------------------------------------------
(* Numbers.                                                                 *)

LEMMA RoundIs ==
  ASSUME NEW v \in Int
  PROVE  Round(v) \in Int /\ 2 * (Round(v) - v) <= Unit /\ 2 * (v - Round(v)) <= Unit
  <1>1. Unit \in Nat \ {0} /\ Unit \div 2 \in Int /\ 2 * (Unit \div 2) <= Unit /\ Unit < 2 * (Unit \div 2) + 2
    BY Constants
  <1>2. ASSUME NEW w \in Nat
        PROVE  LET r == ((w + Unit \div 2) \div Unit) * Unit IN
               r \in Int /\ 2 * (r - w) <= Unit /\ 2 * (w - r) <= Unit
    <2> DEFINE e == w + Unit \div 2
               r == (e \div Unit) * Unit
    <2>1. e \in Int
      BY <1>1
    <2>2. e \div Unit \in Int /\ r <= e /\ e < r + Unit
      BY <1>1, <2>1, Division
    <2>3. r \in Int
      BY <1>1, <2>2
    <2> HIDE DEF r
    <2>4. 2 * (r - w) <= Unit /\ 2 * (w - r) <= Unit
      BY <1>1, <2>2, <2>3
    <2> QED
      BY <2>3, <2>4 DEF r
  <1>3. CASE v >= 0
    BY <1>2, <1>3 DEF Round
  <1>4. CASE ~(v >= 0)
    <2>1. -v \in Nat
      BY <1>4
    <2> DEFINE r == ((-v + Unit \div 2) \div Unit) * Unit
    <2>2. r \in Int /\ 2 * (r - -v) <= Unit /\ 2 * (-v - r) <= Unit
      BY <1>2, <2>1
    <2>3. Round(v) = -r
      BY <1>4 DEF Round
    <2> HIDE DEF r
    <2> QED
      BY <1>1, <2>2, <2>3
  <1> QED
    BY <1>3, <1>4

-----------------------------------------------------------------------------
(* The values of a field, its binary forms and its columns.                 *)

One(S) == {<<n>> : n \in S}
MayBeNil(f) == f.null \/ f.kind \in {"ref", "json"}
Many == {"set", "refsMany"}

\* Go values, times in the Location of the process.
Val(f) ==
    IF f.kind \in Many THEN Seq(Int)
    ELSE {v \in One(Int) : /\ f.kind = "fakeDelete" => v[1] \in {0, 1}
                           /\ f.kind = "ref" => v[1] # 0}
         \cup IF MayBeNil(f) THEN {Nil} ELSE {}

\* All Go values.
Held(f) == Val(f) \cup IF f.kind \in Times THEN {<<n, UTC>> : n \in Int} ELSE {}

\* Binary forms.
Tok(f) ==
    CASE f.kind \in Many -> {Prefixed(s) : s \in Seq(IF f.kind = "set" THEN 0 .. 2 ELSE Int)}
      [] f.kind \in {"string", "bytes"} -> {<<0>>} \cup {<<1, n>> : n \in Int \ {0}}
      [] f.kind = "json" \/ f.null -> {<<0>>} \cup {<<1, n>> : n \in Int}
      [] f.kind = "fakeDelete" -> One({0, 1})
      [] f.kind = "enum" -> One(0 .. 2)
      [] OTHER -> One(Int)

\* Columns.
Col(f) ==
    {c \in IF f.kind \in Many THEN {Nil} \cup {<<Mark>> \o s : s \in Seq(IF f.kind = "set" THEN Members ELSE Int)}
           ELSE IF f.kind \in Numbers \cup Times \cup {"fakeDelete"} /\ ~f.null THEN One(Int)
           ELSE {Nil} \cup One(Int) :
       /\ f.req => c # Nil
       /\ f.kind = "date" /\ c # Nil => Midnight(c[1]) = c[1]
       /\ f.kind = "ref" /\ c # Nil => c[1] # 0
       /\ f.kind = "bytes" => c # <<0>>}

LEMMA KindsAre ==
  ASSUME NEW f \in FieldType
  PROVE  /\ f.kind \in Kinds /\ f.null \in BOOLEAN /\ f.req \in BOOLEAN
         /\ f.null => f.kind \in Numbers \cup Times
         /\ f.req => f.null \/ f.kind \notin Numbers \cup Times \cup {"fakeDelete"}
  BY DEF FieldType

LEMMA OneIs ==
  ASSUME NEW n
  PROVE  /\ Len(<<n>>) = 1 /\ <<n>>[1] = n /\ <<n>> # Nil /\ DOMAIN <<n>> = {1} /\ Tail(<<n>>) = << >>
         /\ ToSet(<<n>>) = {n}
  BY DEF Nil, ToSet

\* A time in the Location of the process.
LEMMA AtHome ==
  ASSUME NEW f, NEW n
  PROVE  /\ ~InUTC(f, <<n>>) /\ ~InUTC(f, Nil)
         /\ InstantOf(f, <<n>>) = Instant(f, n) /\ Text(f, <<n>>) = Format(f, n)
  <1>1. ~InUTC(f, <<n>>) /\ ~InUTC(f, Nil)
    BY DEF InUTC, Nil
  <1> QED
    BY <1>1, OneIs DEF InstantOf, Text

LEMMA PrefixedIs ==
  /\ Prefixed(<< >>) = <<0>>
  /\ \A n : Prefixed(<<n>>) = <<1, n>>
  /\ \A n, m : <<n, m>>[1] = n /\ <<n, m>>[2] = m /\ Tail(<<n, m>>) = <<m>> /\ Len(<<n, m>>) = 2
  <1>1. Prefixed(<< >>) = <<0>>
    BY DEF Prefixed
  <1>2. ASSUME NEW n PROVE Prefixed(<<n>>) = <<1, n>>
    <2>1. Prefixed(<<n>>) = <<Len(<<n>>)>> \o <<n>>
      BY DEF Prefixed
    <2>2. Len(<<n>>) = 1
      OBVIOUS
    <2>3. <<1>> \o <<n>> = <<1, n>>
      <3>1. <<1>> \in Seq({1, n}) /\ <<n>> \in Seq({1, n}) /\ <<1, n>> \in Seq({1, n})
        OBVIOUS
      <3>2. /\ <<1>> \o <<n>> \in Seq({1, n}) /\ Len(<<1>> \o <<n>>) = 2
            /\ (<<1>> \o <<n>>)[1] = 1 /\ (<<1>> \o <<n>>)[2] = n
        BY <3>1, ConcatProperties
      <3>3. Len(<<1, n>>) = 2 /\ <<1, n>>[1] = 1 /\ <<1, n>>[2] = n
        OBVIOUS
      <3>4. \A i \in 1 .. 2 : (<<1>> \o <<n>>)[i] = <<1, n>>[i]
        BY <3>2, <3>3
      <3> HIDE DEF Prefixed
      <3> QED
        BY <3>1, <3>2, <3>3, <3>4, SeqEqual
    <2> QED
      BY <2>1, <2>2, <2>3
  <1>3. \A n, m : <<n, m>>[1] = n /\ <<n, m>>[2] = m /\ Tail(<<n, m>>) = <<m>> /\ Len(<<n, m>>) = 2
    OBVIOUS
  <1> QED
    BY <1>1, <1>2, <1>3

LEMMA PrefixedSeq ==
  ASSUME NEW S, S \subseteq Int, NEW s \in Seq(S)
  PROVE  /\ Prefixed(s) \in Seq(Int) /\ Len(Prefixed(s)) = 1 + Len(s) /\ Prefixed(s)[1] = Len(s)
         /\ Tail(Prefixed(s)) = s
  <1>1. s \in Seq(Int) /\ Len(s) \in Nat /\ <<Len(s)>> \in Seq(Int)
    <2>1. s \in Seq(Int)
      BY SeqMonotonic
    <2>2. Len(s) \in Nat
      OBVIOUS
    <2> QED
      BY <2>1, <2>2
  <1>2. Prefixed(s) \in Seq(Int) /\ Len(Prefixed(s)) = 1 + Len(s) /\ Prefixed(s)[1] = Len(s)
    BY <1>1 DEF Prefixed
  <1>3. Tail(Prefixed(s)) = s
    <2>1. Tail(Prefixed(s)) \in Seq(Int) /\ Len(Tail(Prefixed(s))) = Len(s)
      BY <1>1, <1>2
    <2>2. \A i \in 1 .. Len(s) : Tail(Prefixed(s))[i] = s[i]
      BY <1>1, <1>2 DEF Prefixed
    <2> QED
      BY <1>1, <2>1, <2>2, SeqEqual
  <1> QED
    BY <1>2, <1>3

\* A sequence of one value, mapped.
LEMMA MapOne ==
  ASSUME NEW g, NEW n
  PROVE  /\ [i \in 1 .. Len(<<n>>) |-> g] = <<g>>
         /\ [i \in 1 .. Len(<< >>) |-> g] = << >>
  OBVIOUS

\* What is done to the elements of a list.
DecodedAll(f, s) == [i \in 1 .. Len(s) |-> DecodeNumber(f, s[i])]
ParsedAll(s) == [i \in 1 .. Len(s) |-> Parsed(s[i])]
ReadAll(f, s) == [i \in 1 .. Len(s) |-> TimeFromDB(f, s[i])]
IndexAll(s) == [i \in 1 .. Len(s) |-> Index(s[i])]

LEMMA AllIs ==
  /\ \A f : DecodedAll(f, << >>) = << >> /\ \A n : DecodedAll(f, <<n>>) = <<DecodeNumber(f, n)>>
  /\ ParsedAll(<< >>) = << >> /\ \A n : ParsedAll(<<n>>) = <<Parsed(n)>>
  /\ \A f : ReadAll(f, << >>) = << >> /\ \A n : ReadAll(f, <<n>>) = <<TimeFromDB(f, n)>>
  /\ IndexAll(<< >>) = << >>
  BY DEF DecodedAll, ParsedAll, ReadAll, IndexAll

\* The cases of the operators, one by one.
LEMMA EncodeIs ==
  ASSUME NEW f \in FieldType
  PROVE  /\ f.kind = "ref" => Encode(f, Nil) = <<0>> /\ \A n : Encode(f, <<n>>) = <<n>>
         /\ f.kind \in Numbers \cup Times =>
              \A n : Encode(f, <<n>>) = IF f.null THEN <<1, EncodeNumber(f, n)>> ELSE <<EncodeNumber(f, n)>>
         /\ f.null => Encode(f, Nil) = <<0>>
         /\ f.kind = "fakeDelete" => \A v : Encode(f, v) = v
         /\ f.kind \in {"string", "bytes"} => \A n : Encode(f, <<n>>) = IF n = 0 THEN <<0>> ELSE <<1, n>>
         /\ f.kind = "enum" => \A n : Encode(f, <<n>>) = <<Index(n)>>
         /\ f.kind = "set" => \A v : Encode(f, v) = Prefixed(IndexAll(v))
         /\ f.kind = "json" => Encode(f, Nil) = <<0>> /\ \A n : Encode(f, <<n>>) = <<1, GoText(n)>>
         /\ f.kind = "refsMany" => \A v : Encode(f, v) = Prefixed(v)
  <1> USE KindsAre DEF Kinds, Numbers, Times
  <1>1. f.kind = "ref" => Encode(f, Nil) = <<0>> /\ \A n : Encode(f, <<n>>) = <<n>>
    BY OneIs DEF Encode
  <1>2. ASSUME f.kind \in Numbers \cup Times, NEW n
        PROVE  Encode(f, <<n>>) = IF f.null THEN <<1, EncodeNumber(f, n)>> ELSE <<EncodeNumber(f, n)>>
    <2>1. [i \in 1 .. Len(<<n>>) |-> EncodeNumber(f, <<n>>[i])] = <<EncodeNumber(f, n)>>
      OBVIOUS
    <2>2. Encode(f, <<n>>) = IF f.null THEN Prefixed([i \in 1 .. Len(<<n>>) |-> EncodeNumber(f, <<n>>[i])])
                             ELSE [i \in 1 .. Len(<<n>>) |-> EncodeNumber(f, <<n>>[i])]
      BY <1>2, AtHome DEF Encode
    <2> QED
      BY <2>1, <2>2, PrefixedIs
  <1>3. f.null => Encode(f, Nil) = <<0>>
    <2>1. [i \in 1 .. Len(Nil) |-> EncodeNumber(f, Nil[i])] = << >>
      BY DEF Nil
    <2>2. f.null => Encode(f, Nil) = Prefixed([i \in 1 .. Len(Nil) |-> EncodeNumber(f, Nil[i])])
      BY AtHome DEF Encode
    <2> QED
      BY <2>1, <2>2, PrefixedIs
  <1>4. f.kind = "fakeDelete" => \A v : Encode(f, v) = v
    BY DEF Encode
  <1>5. ASSUME f.kind \in {"string", "bytes"}, NEW n PROVE Encode(f, <<n>>) = IF n = 0 THEN <<0>> ELSE <<1, n>>
    <2>1. Encode(f, <<n>>) = Prefixed(NonEmpty(<<n>>))
      BY <1>5 DEF Encode
    <2>2. NonEmpty(<<n>>) = IF n = 0 THEN << >> ELSE <<n>>
      BY DEF NonEmpty
    <2> QED
      BY <2>1, <2>2, PrefixedIs
  <1>6. f.kind = "enum" => \A n : Encode(f, <<n>>) = <<Index(n)>>
    BY OneIs DEF Encode
  <1>7. f.kind = "set" => \A v : Encode(f, v) = Prefixed(IndexAll(v))
    BY DEF Encode, IndexAll
  <1>8. ASSUME f.kind = "json" PROVE Encode(f, Nil) = <<0>> /\ \A n : Encode(f, <<n>>) = <<1, GoText(n)>>
    <2>1. \A v : Encode(f, v) = Prefixed([i \in 1 .. Len(v) |-> GoText(v[i])])
      BY <1>8 DEF Encode
    <2>2. [i \in 1 .. Len(Nil) |-> GoText(Nil[i])] = << >>
      BY DEF Nil
    <2>3. \A n : [i \in 1 .. Len(<<n>>) |-> GoText(<<n>>[i])] = <<GoText(n)>>
      OBVIOUS
    <2>4. Encode(f, Nil) = <<0>>
      BY ZenonT(40), <2>1, <2>2, PrefixedIs
    <2>5. ASSUME NEW n PROVE Encode(f, <<n>>) = <<1, GoText(n)>>
      <3>1. Encode(f, <<n>>) = Prefixed([i \in 1 .. Len(<<n>>) |-> GoText(<<n>>[i])])
        BY <2>1
      <3>2. [i \in 1 .. Len(<<n>>) |-> GoText(<<n>>[i])] = <<GoText(n)>>
        BY <2>3
      <3> HIDE DEF Kinds
      <3> QED
        BY <3>1, <3>2, PrefixedIs
    <2> QED
      BY <2>4, <2>5
  <1>9. f.kind = "refsMany" => \A v : Encode(f, v) = Prefixed(v)
    BY DEF Encode
  <1> QED
    BY <1>1, <1>2, <1>3, <1>4, <1>5, <1>6, <1>7, <1>8, <1>9

LEMMA DecodeIs ==
  ASSUME NEW f \in FieldType
  PROVE  /\ f.kind = "ref" => Decode(f, <<0>>) = Nil /\ \A n : n # 0 => Decode(f, <<n>>) = <<n>>
         /\ f.null => Decode(f, <<0>>) = Nil /\ \A n : Decode(f, <<1, n>>) = <<DecodeNumber(f, n)>>
         /\ f.kind \in Numbers \cup Times /\ ~f.null => \A n : Decode(f, <<n>>) = <<DecodeNumber(f, n)>>
         /\ f.kind \in {"fakeDelete", "enum"} => \A t : Decode(f, t) = t
         /\ f.kind \in {"string", "bytes"} => Decode(f, <<0>>) = <<0>> /\ \A n : Decode(f, <<1, n>>) = <<n>>
         /\ f.kind \in Many => \A t : Decode(f, t) = Tail(t)
         /\ f.kind = "json" => Decode(f, <<0>>) = Nil /\ \A n : Decode(f, <<1, n>>) = <<Parsed(n)>>
  <1> USE KindsAre DEF Kinds, Numbers, Times
  <1>0. /\ Tail(<<0>>) = << >> /\ \A n : Tail(<<1, n>>) = <<n>>
        /\ << >> = Nil /\ \A n : <<n>> # << >>
    BY OneIs, PrefixedIs DEF Nil
  <1>1. ASSUME f.kind = "ref" PROVE Decode(f, <<0>>) = Nil /\ \A n : n # 0 => Decode(f, <<n>>) = <<n>>
    <2>1. \A t : Decode(f, t) = IF t = <<0>> THEN Nil ELSE t
      BY <1>1 DEF Decode
    <2>2. \A n : n # 0 => <<n>> # <<0>>
      OBVIOUS
    <2> QED
      BY <2>1, <2>2
  <1>2. ASSUME f.null PROVE Decode(f, <<0>>) = Nil /\ \A n : Decode(f, <<1, n>>) = <<DecodeNumber(f, n)>>
    <2>1. \A t : Decode(f, t) = DecodedAll(f, Tail(t))
      BY <1>2 DEF Decode, DecodedAll
    <2>2. DecodedAll(f, << >>) = << >> /\ \A n : DecodedAll(f, <<n>>) = <<DecodeNumber(f, n)>>
      BY AllIs
    <2> QED
      BY <1>0, <2>1, <2>2
  <1>3. ASSUME f.kind \in Numbers \cup Times, ~f.null, NEW n PROVE Decode(f, <<n>>) = <<DecodeNumber(f, n)>>
    <2>1. Decode(f, <<n>>) = [i \in 1 .. Len(<<n>>) |-> DecodeNumber(f, <<n>>[i])]
      BY <1>3 DEF Decode
    <2>2. [i \in 1 .. Len(<<n>>) |-> DecodeNumber(f, <<n>>[i])] = <<DecodeNumber(f, n)>>
      OBVIOUS
    <2> QED
      BY <2>1, <2>2
  <1>4. f.kind \in {"fakeDelete", "enum"} => \A t : Decode(f, t) = t
    BY DEF Decode
  <1>5. f.kind \in {"string", "bytes"} => Decode(f, <<0>>) = <<0>> /\ \A n : Decode(f, <<1, n>>) = <<n>>
    BY <1>0 DEF Decode
  <1>6. f.kind \in Many => \A t : Decode(f, t) = Tail(t)
    BY DEF Decode, Many
  <1>7. ASSUME f.kind = "json" PROVE Decode(f, <<0>>) = Nil /\ \A n : Decode(f, <<1, n>>) = <<Parsed(n)>>
    <2>1. \A t : Decode(f, t) = ParsedAll(Tail(t))
      BY <1>7 DEF Decode, ParsedAll
    <2> QED
      BY <1>0, <2>1, AllIs
  <1> QED
    BY <1>1, <1>2, <1>3, <1>4, <1>5, <1>6, <1>7

\* A list in a column.
LEMMA ListedIs ==
  ASSUME NEW s \in Seq(Int)
  PROVE  /\ <<Mark>> \o s \in Seq(Int) /\ <<Mark>> \o s # Nil /\ Len(<<Mark>> \o s) = 1 + Len(s)
         /\ (<<Mark>> \o s)[1] = Mark
         /\ Tail(<<Mark>> \o s) = s /\ Listed(<<Mark>> \o s) = s /\ Listed(Nil) = << >>
  <1>1. <<Mark>> \in Seq(Int) /\ Len(<<Mark>>) = 1
    BY DEF Mark
  <1>2. /\ <<Mark>> \o s \in Seq(Int) /\ Len(<<Mark>> \o s) = 1 + Len(s)
        /\ \A i \in 1 .. Len(s) : (<<Mark>> \o s)[i + 1] = s[i]
        /\ (<<Mark>> \o s)[1] = Mark
    BY <1>1
  <1>3. <<Mark>> \o s # << >>
    BY <1>2
  <1>4. Tail(<<Mark>> \o s) = s
    <2>1. Tail(<<Mark>> \o s) \in Seq(Int) /\ Len(Tail(<<Mark>> \o s)) = Len(s)
      BY <1>2, <1>3
    <2>2. \A i \in 1 .. Len(s) : Tail(<<Mark>> \o s)[i] = s[i]
      BY <1>2, <1>3
    <2> QED
      BY <2>1, <2>2, SeqEqual
  <1> QED
    BY <1>2, <1>3, <1>4 DEF Listed, Nil

LEMMA FromDBIs ==
  ASSUME NEW f \in FieldType
  PROVE  /\ f.kind \in {"ref", "enum"} \/ MayBeNil(f) \/ f.kind \in Many \cup {"string", "bytes"} => FromDB(f, Nil) = <<0>>
         /\ f.kind = "ref" => \A n : FromDB(f, <<n>>) = <<n>>
         /\ f.kind \in Numbers => \A n : FromDB(f, <<n>>) = IF f.null THEN <<1, n>> ELSE <<n>>
         /\ f.kind \in Times => \A n : FromDB(f, <<n>>) = IF f.null THEN <<1, TimeFromDB(f, n)>> ELSE <<TimeFromDB(f, n)>>
         /\ f.kind = "fakeDelete" => \A n : FromDB(f, <<n>>) = <<IF n > 0 THEN 1 ELSE 0>>
         /\ f.kind \in {"string", "bytes"} => \A n : FromDB(f, <<n>>) = IF n = 0 THEN <<0>> ELSE <<1, n>>
         /\ f.kind = "enum" => \A n : FromDB(f, <<n>>) = <<Index(n)>>
         /\ f.kind = "set" => \A s \in Seq(Int) : FromDB(f, <<Mark>> \o s) = Prefixed(IndexAll(s))
         /\ f.kind = "json" => \A n : FromDB(f, <<n>>) = <<1, n>>
         /\ f.kind = "refsMany" => \A s \in Seq(Int) : FromDB(f, <<Mark>> \o s) = Prefixed(s)
  <1> USE KindsAre DEF Kinds, Numbers, Times
  <1>0. /\ << >> = Nil /\ (\A n : <<n>> # Nil) /\ (\A n : <<n>>[1] = n)
        /\ NonEmpty(Nil) = << >> /\ \A n : NonEmpty(<<n>>) = IF n = 0 THEN << >> ELSE <<n>>
    BY DEF Nil, NonEmpty
  <1>1. f.kind = "ref" => FromDB(f, Nil) = <<0>> /\ \A n : FromDB(f, <<n>>) = <<n>>
    BY <1>0 DEF FromDB
  <1>2. ASSUME f.kind \in Numbers
        PROVE  /\ f.null => FromDB(f, Nil) = <<0>>
               /\ \A n : FromDB(f, <<n>>) = IF f.null THEN <<1, n>> ELSE <<n>>
    <2>1. \A c : FromDB(f, c) = IF f.null THEN Prefixed(c) ELSE c
      BY <1>2 DEF FromDB
    <2> QED
      BY <1>0, <2>1, PrefixedIs
  <1>3. ASSUME f.kind \in Times
        PROVE  /\ f.null => FromDB(f, Nil) = <<0>>
               /\ \A n : FromDB(f, <<n>>) = IF f.null THEN <<1, TimeFromDB(f, n)>> ELSE <<TimeFromDB(f, n)>>
    <2>1. \A c : FromDB(f, c) = IF f.null THEN Prefixed(ReadAll(f, c)) ELSE ReadAll(f, c)
      BY <1>3 DEF FromDB, ReadAll
    <2> QED
      BY <1>0, <2>1, AllIs, PrefixedIs
  <1>4. f.kind = "fakeDelete" => \A n : FromDB(f, <<n>>) = <<IF n > 0 THEN 1 ELSE 0>>
    BY <1>0 DEF FromDB
  <1>5. ASSUME f.kind \in {"string", "bytes"}
        PROVE FromDB(f, Nil) = <<0>> /\ \A n : FromDB(f, <<n>>) = IF n = 0 THEN <<0>> ELSE <<1, n>>
    <2>1. \A c : FromDB(f, c) = Prefixed(NonEmpty(c))
      BY <1>5 DEF FromDB
    <2> QED
      BY <1>0, <2>1, PrefixedIs
  <1>6. f.kind = "enum" => FromDB(f, Nil) = <<0>> /\ \A n : FromDB(f, <<n>>) = <<Index(n)>>
    BY <1>0 DEF FromDB
  <1>7. ASSUME f.kind = "set"
        PROVE /\ FromDB(f, Nil) = <<0>>
              /\ \A s \in Seq(Int) : FromDB(f, <<Mark>> \o s) = Prefixed(IndexAll(s))
    <2>1. \A c : FromDB(f, c) = Prefixed(IndexAll(Listed(c)))
      BY <1>7 DEF FromDB, IndexAll
    <2>2. Listed(Nil) = << >> /\ \A s \in Seq(Int) : Listed(<<Mark>> \o s) = s
      BY ListedIs DEF Listed
    <2>3. IndexAll(<< >>) = << >> /\ Prefixed(<< >>) = <<0>>
      BY AllIs, PrefixedIs
    <2> QED
      BY <2>1, <2>2, <2>3
  <1>8. ASSUME f.kind = "json" PROVE FromDB(f, Nil) = <<0>> /\ \A n : FromDB(f, <<n>>) = <<1, n>>
    <2>1. \A c : FromDB(f, c) = Prefixed(c)
      BY <1>8 DEF FromDB
    <2> QED
      BY <1>0, <2>1, PrefixedIs
  <1>9. ASSUME f.kind = "refsMany"
        PROVE FromDB(f, Nil) = <<0>> /\ \A s \in Seq(Int) : FromDB(f, <<Mark>> \o s) = Prefixed(s)
    <2>1. \A c : FromDB(f, c) = Prefixed(Listed(c))
      BY <1>9 DEF FromDB
    <2>2. Listed(Nil) = << >> /\ \A s \in Seq(Int) : Listed(<<Mark>> \o s) = s
      BY ListedIs DEF Listed
    <2> QED
      BY <2>1, <2>2, PrefixedIs
  <1> QED
    BY <1>1, <1>2, <1>3, <1>4, <1>5, <1>6, <1>7, <1>8, <1>9 DEF MayBeNil, Many

\* What is in these sets.
LEMMA ValIs ==
  ASSUME NEW f \in FieldType, NEW v \in Val(f)
  PROVE  /\ v \in Seq(Int)
         /\ f.kind \notin Many =>
              \/ v = Nil /\ MayBeNil(f)
              \/ \E n \in Int : /\ v = <<n>> /\ v[1] = n /\ v # Nil /\ v \in Seq(Int)
                                /\ f.kind = "fakeDelete" => n \in {0, 1}
                                /\ f.kind = "ref" => n # 0
  <1>1. f.kind \in Many => v \in Seq(Int)
    BY DEF Val
  <1>2. ASSUME f.kind \notin Many, ~(v = Nil /\ MayBeNil(f))
        PROVE \E n \in Int : /\ v = <<n>> /\ v[1] = n /\ v # Nil /\ v \in Seq(Int)
                             /\ f.kind = "fakeDelete" => n \in {0, 1}
                             /\ f.kind = "ref" => n # 0
    <2>1. v \in One(Int) /\ (f.kind = "fakeDelete" => v[1] \in {0, 1}) /\ (f.kind = "ref" => v[1] # 0)
      BY <1>2 DEF Val
    <2>2. PICK n \in Int : v = <<n>>
      BY <2>1 DEF One
    <2> QED
      BY <2>1, <2>2, OneIs
  <1>3. Nil \in Seq(Int)
    BY DEF Nil
  <1> QED
    BY <1>1, <1>2, <1>3

LEMMA ValOf ==
  ASSUME NEW f \in FieldType
  PROVE  /\ f.kind \in Many => Val(f) = Seq(Int) /\ Nil \in Val(f)
         /\ MayBeNil(f) => Nil \in Val(f)
         /\ \A n \in Int : /\ f.kind \notin Many
                           /\ f.kind = "fakeDelete" => n \in {0, 1}
                           /\ f.kind = "ref" => n # 0
                           => <<n>> \in Val(f)
  <1>1. f.kind \in Many => Val(f) = Seq(Int) /\ Nil \in Val(f)
    BY DEF Val, Nil
  <1>2. MayBeNil(f) => Nil \in Val(f)
    BY <1>1 DEF Val
  <1>3. ASSUME NEW n \in Int, f.kind \notin Many, f.kind = "fakeDelete" => n \in {0, 1}, f.kind = "ref" => n # 0
        PROVE <<n>> \in Val(f)
    <2>1. <<n>> \in One(Int) /\ <<n>>[1] = n
      BY DEF One
    <2> QED
      BY <1>3, <2>1 DEF Val
  <1> QED
    BY <1>1, <1>2, <1>3

\* The kinds whose binary form is a number, and those that have a flag before it.
IsSingle(f) == ~f.null /\ f.kind \notin Many \cup {"string", "bytes", "json"}

LEMMA TokIs ==
  ASSUME NEW f \in FieldType, NEW t \in Tok(f)
  PROVE  /\ f.kind \in Many =>
              \E s \in Seq(Int) : /\ t = Prefixed(s)
                                  /\ f.kind = "set" => s \in Seq(0 .. 2)
         /\ IsSingle(f) => \E n \in Int : /\ t = <<n>> /\ t[1] = n
                                          /\ f.kind = "fakeDelete" => n \in {0, 1}
                                          /\ f.kind = "enum" => n \in 0 .. 2
         /\ f.kind \notin Many /\ ~IsSingle(f) =>
              t = <<0>> \/ \E n \in Int : t = <<1, n>> /\ (f.kind \in {"string", "bytes"} => n # 0)
  <1> USE KindsAre DEF Kinds, Numbers, Times
  <1>1. ASSUME f.kind \in Many PROVE \E s \in Seq(Int) : t = Prefixed(s) /\ (f.kind = "set" => s \in Seq(0 .. 2))
    <2> DEFINE E == IF f.kind = "set" THEN 0 .. 2 ELSE Int
    <2>0. t \in {Prefixed(s) : s \in Seq(E)}
      BY <1>1 DEF Tok, Many
    <2>1. PICK s \in Seq(E) : t = Prefixed(s)
      BY <2>0
    <2>2. s \in Seq(Int) /\ (f.kind = "set" => s \in Seq(0 .. 2))
      <3>1. f.kind = "set" => s \in Seq(0 .. 2)
        BY <2>1
      <3>2. Seq(0 .. 2) \subseteq Seq(Int)
        BY SeqMonotonic
      <3> QED
        BY <2>1, <3>1, <3>2
    <2> QED
      BY <2>1, <2>2
  <1>2. ASSUME IsSingle(f)
        PROVE \E n \in Int : t = <<n>> /\ t[1] = n /\ (f.kind = "fakeDelete" => n \in {0, 1}) /\ (f.kind = "enum" => n \in 0 .. 2)
    <2>1. t \in IF f.kind = "fakeDelete" THEN One({0, 1}) ELSE IF f.kind = "enum" THEN One(0 .. 2) ELSE One(Int)
      BY <1>2 DEF Tok, IsSingle, Many
    <2> QED
      BY <2>1 DEF One
  <1>3. ASSUME f.kind \notin Many, ~IsSingle(f)
        PROVE  t = <<0>> \/ \E n \in Int : t = <<1, n>> /\ (f.kind \in {"string", "bytes"} => n # 0)
    <2>1. t \in {<<0>>} \cup {<<1, n>> : n \in IF f.kind \in {"string", "bytes"} THEN Int \ {0} ELSE Int}
      BY <1>3 DEF Tok, IsSingle, Many
    <2> QED
      BY <2>1
  <1> QED
    BY <1>1, <1>2, <1>3

LEMMA TokOf ==
  ASSUME NEW f \in FieldType
  PROVE  /\ f.kind = "refsMany" => \A s \in Seq(Int) : Prefixed(s) \in Tok(f)
         /\ f.kind = "set" => \A s \in Seq(0 .. 2) : Prefixed(s) \in Tok(f)
         /\ f.kind \in Many => <<0>> \in Tok(f)
         /\ IsSingle(f) => \A n \in Int : /\ f.kind = "fakeDelete" => n \in {0, 1}
                                          /\ f.kind = "enum" => n \in 0 .. 2
                                          => <<n>> \in Tok(f)
         /\ f.kind \notin Many /\ ~IsSingle(f) =>
              <<0>> \in Tok(f) /\ \A n \in Int : (f.kind \in {"string", "bytes"} => n # 0) => <<1, n>> \in Tok(f)
  <1> USE KindsAre DEF Kinds, Numbers, Times
  <1>1. f.kind = "refsMany" => \A s \in Seq(Int) : Prefixed(s) \in Tok(f)
    BY DEF Tok, Many
  <1>2. f.kind = "set" => \A s \in Seq(0 .. 2) : Prefixed(s) \in Tok(f)
    BY DEF Tok, Many
  <1>3. f.kind \in Many => <<0>> \in Tok(f)
    <2>1. << >> \in Seq(Int) /\ << >> \in Seq(0 .. 2)
      OBVIOUS
    <2> QED
      BY <1>1, <1>2, <2>1, PrefixedIs DEF Many
  <1>4. ASSUME IsSingle(f), NEW n \in Int, f.kind = "fakeDelete" => n \in {0, 1}, f.kind = "enum" => n \in 0 .. 2
        PROVE <<n>> \in Tok(f)
    <2>1. Tok(f) = IF f.kind = "fakeDelete" THEN One({0, 1}) ELSE IF f.kind = "enum" THEN One(0 .. 2) ELSE One(Int)
      BY <1>4 DEF Tok, IsSingle, Many
    <2> QED
      BY <1>4, <2>1 DEF One
  <1>5. ASSUME f.kind \notin Many, ~IsSingle(f)
        PROVE <<0>> \in Tok(f) /\ \A n \in Int : (f.kind \in {"string", "bytes"} => n # 0) => <<1, n>> \in Tok(f)
    <2>1. Tok(f) = {<<0>>} \cup {<<1, n>> : n \in IF f.kind \in {"string", "bytes"} THEN Int \ {0} ELSE Int}
      BY <1>5 DEF Tok, IsSingle, Many
    <2> QED
      BY <2>1
  <1> QED
    BY <1>1, <1>2, <1>3, <1>4, <1>5

LEMMA ColIs ==
  ASSUME NEW f \in FieldType, NEW c \in Col(f)
  PROVE  /\ c \in Seq(Int) /\ (f.req => c # Nil)
         /\ f.kind \in Many => c = Nil \/ \E s \in Seq(Int) : /\ c = <<Mark>> \o s
                                                              /\ f.kind = "set" => s \in Seq(Members)
         /\ f.kind \notin Many =>
              \/ /\ c = Nil /\ (f.kind \in Numbers \cup Times => f.null) /\ f.kind # "fakeDelete"
              \/ \E n \in Int : /\ c = <<n>> /\ c[1] = n /\ c # Nil
                                /\ f.kind = "date" => Midnight(n) = n
                                /\ f.kind = "ref" => n # 0
                                /\ f.kind = "bytes" => n # 0
  <1> USE KindsAre DEF Kinds, Numbers, Times
  <1>0. Nil \in Seq(Int) /\ (f.req => c # Nil)
    BY DEF Nil, Col
  <1>1. ASSUME f.kind \in Many, c # Nil
        PROVE \E s \in Seq(Int) : c = <<Mark>> \o s /\ c \in Seq(Int) /\ (f.kind = "set" => s \in Seq(Members))
    <2>1. PICK s \in Seq(IF f.kind = "set" THEN Members ELSE Int) : c = <<Mark>> \o s
      BY <1>1 DEF Col
    <2>2. s \in Seq(Int)
      <3>1. Seq(Members) \subseteq Seq(Int)
        BY SeqMonotonic DEF Members
      <3> QED
        BY <2>1, <3>1
    <2>3. c \in Seq(Int)
      BY <2>1, <2>2 DEF Mark
    <2> QED
      BY <2>1, <2>2, <2>3
  <1>2. ASSUME f.kind \notin Many, c # Nil
        PROVE \E n \in Int : /\ c = <<n>> /\ c[1] = n /\ c # Nil /\ c \in Seq(Int)
                             /\ f.kind = "date" => Midnight(n) = n
                             /\ f.kind = "ref" => n # 0
                             /\ f.kind = "bytes" => n # 0
    <2>1. /\ c \in One(Int)
          /\ f.kind = "date" /\ c # Nil => Midnight(c[1]) = c[1]
          /\ f.kind = "ref" /\ c # Nil => c[1] # 0
          /\ f.kind = "bytes" => c # <<0>>
      BY <1>2 DEF Col
    <2>2. PICK n \in Int : c = <<n>>
      BY <2>1 DEF One
    <2>3. c[1] = n /\ c \in Seq(Int)
      BY <2>2
    <2> QED
      BY <1>2, <2>1, <2>2, <2>3
  <1>3. ASSUME f.kind \notin Many, c = Nil PROVE (f.kind \in Numbers \cup Times => f.null) /\ f.kind # "fakeDelete"
    <2>1. Nil \notin One(Int)
      BY DEF Nil, One
    <2> QED
      BY <1>3, <2>1 DEF Col
  <1> QED
    BY <1>0, <1>1, <1>2, <1>3

LEMMA ColOf ==
  ASSUME NEW f \in FieldType
  PROVE  /\ f.kind = "set" => \A s \in Seq(Members) : <<Mark>> \o s \in Col(f)
         /\ f.kind = "refsMany" => \A s \in Seq(Int) : <<Mark>> \o s \in Col(f)
         /\ ~f.req /\ (f.kind \in Numbers \cup Times => f.null) /\ f.kind # "fakeDelete" => Nil \in Col(f)
         /\ f.kind \notin Many => \A n \in Int : /\ f.kind = "date" => Midnight(n) = n
                                                 /\ f.kind = "ref" => n # 0
                                                 /\ f.kind = "bytes" => n # 0
                                                 => <<n>> \in Col(f)
  <1> USE KindsAre DEF Kinds, Numbers, Times
  <1>1. ASSUME f.kind = "set", NEW s \in Seq(Members) PROVE <<Mark>> \o s \in Col(f)
    <2>1. s \in Seq(Int)
      <3>1. Seq(Members) \subseteq Seq(Int)
        BY SeqMonotonic DEF Members
      <3> QED
        BY <3>1
    <2>2. <<Mark>> \o s # Nil
      BY <2>1, ListedIs
    <2> QED
      BY <1>1, <2>2 DEF Col, Many
  <1>2. ASSUME f.kind = "refsMany", NEW s \in Seq(Int) PROVE <<Mark>> \o s \in Col(f)
    <2>2. <<Mark>> \o s # Nil
      BY ListedIs
    <2> QED
      BY <1>2, <2>2 DEF Col, Many
  <1>3. ASSUME ~f.req, f.kind \in Numbers \cup Times => f.null, f.kind # "fakeDelete" PROVE Nil \in Col(f)
    BY <1>3 DEF Col, Nil, Many
  <1>4. ASSUME f.kind \notin Many, NEW n \in Int, f.kind = "date" => Midnight(n) = n, f.kind = "ref" => n # 0, f.kind = "bytes" => n # 0
        PROVE <<n>> \in Col(f)
    <2>1. <<n>> \in One(Int) /\ <<n>>[1] = n /\ <<n>> # Nil /\ (<<n>> = <<0>> => n = 0)
      BY DEF One, Nil
    <2> QED
      BY <1>4, <2>1 DEF Col
  <1> QED
    BY <1>1, <1>2, <1>3, <1>4

-----------------------------------------------------------------------------
(* What the conversions return.                                             *)

LEMMA IndexIs ==
  /\ \A n \in Int : Index(n) \in 0 .. 2 /\ Index(n) \in Int
  /\ \A n \in 0 .. 2 : Index(n) = n
  /\ \A s \in Seq(Int) : IndexAll(s) \in Seq(0 .. 2) /\ IndexAll(s) \in Seq(Int) /\ Len(IndexAll(s)) = Len(s)
  /\ \A s \in Seq(Members) : IndexAll(s) = s
  <1>1. (\A n \in Int : Index(n) \in 0 .. 2 /\ Index(n) \in Int) /\ \A n \in 0 .. 2 : Index(n) = n
    BY DEF Index, Members
  <1>2. ASSUME NEW s \in Seq(Int)
        PROVE  IndexAll(s) \in Seq(0 .. 2) /\ IndexAll(s) \in Seq(Int) /\ Len(IndexAll(s)) = Len(s)
    <2>1. \A i \in 1 .. Len(s) : Index(s[i]) \in 0 .. 2
      <3>1. \A i \in 1 .. Len(s) : s[i] \in Int
        OBVIOUS
      <3> QED
        BY <1>1, <3>1
    <2>2. IndexAll(s) \in Seq(0 .. 2) /\ Len(IndexAll(s)) = Len(s)
      BY <2>1 DEF IndexAll
    <2>3. Seq(0 .. 2) \subseteq Seq(Int)
      BY SeqMonotonic
    <2> QED
      BY <2>2, <2>3
  <1>3. ASSUME NEW s \in Seq(Members) PROVE IndexAll(s) = s
    <2>1. Seq(Members) \subseteq Seq(Int)
      BY SeqMonotonic DEF Members
    <2>2. IndexAll(s) \in Seq(Int) /\ Len(IndexAll(s)) = Len(s) /\ s \in Seq(Int)
      BY <1>2, <2>1
    <2>3. \A i \in 1 .. Len(s) : IndexAll(s)[i] = s[i]
      BY DEF IndexAll, Index
    <2> QED
      BY <2>2, <2>3, SeqEqual
  <1> QED
    BY <1>1, <1>2, <1>3

LEMMA NumbersAre ==
  ASSUME setup \in Setups, NEW f \in FieldType, NEW n \in Int
  PROVE  /\ DecodeNumber(f, n) \in Int /\ (f.kind \notin Times => DecodeNumber(f, n) = n)
         /\ f.kind \in Times => DecodeNumber(f, n) = n - TimeStampSeconds
         /\ EncodeNumber(f, n) \in Int
         /\ f.kind \in {"int", "bool"} => EncodeNumber(f, n) = n
         /\ f.kind \in {"float", "decimal"} => EncodeNumber(f, n) = Round(n)
         /\ f.kind \in Times => EncodeNumber(f, n) = TimeToken(f, n)
         /\ TimeFromDB(f, n) \in Int
         /\ GoText(n) \in Int /\ MySQLText(n) \in Int /\ Parsed(n) \in Int
         /\ Parsed(GoText(n)) = n /\ Parsed(MySQLText(n)) = n
  <1> USE DEF Numbers, Times
  <1>1. DecodeNumber(f, n) \in Int /\ (f.kind \notin Times => DecodeNumber(f, n) = n)
          /\ (f.kind \in Times => DecodeNumber(f, n) = n - TimeStampSeconds)
    BY Constants DEF DecodeNumber
  <1>2. TimeToken(f, n) \in Int /\ Round(n) \in Int
    BY TimeTokenIs, RoundIs
  <1>3. TimeFromDB(f, n) \in Int
    BY ZoneIs, Constants DEF TimeFromDB
  <1>4. /\ GoText(n) \in Int /\ MySQLText(n) \in Int /\ Parsed(n) \in Int
        /\ Parsed(GoText(n)) = n /\ Parsed(MySQLText(n)) = n
    BY DEF GoText, MySQLText, Parsed
  <1> QED
    BY <1>1, <1>2, <1>3, <1>4 DEF EncodeNumber

LEMMA EncodeType ==
  ASSUME setup \in Setups, NEW f \in FieldType, NEW v \in Val(f)
  PROVE  Encode(f, v) \in Tok(f)
  <1> USE KindsAre DEF Kinds, Numbers, Times
  <1>1. CASE f.kind \in Many
    <2>1. v \in Seq(Int) /\ IndexAll(v) \in Seq(0 .. 2)
      BY ValIs, IndexIs
    <2> QED
      BY <1>1, <2>1, EncodeIs, TokOf DEF Many
  <1>2. CASE f.kind \notin Many /\ v = Nil /\ MayBeNil(f)
    <2>1. f.kind = "ref" => IsSingle(f)
      BY DEF IsSingle, Many
    <2>2. f.null \/ f.kind = "json" => ~IsSingle(f)
      BY DEF IsSingle
    <2>3. Encode(f, v) = <<0>>
      BY <1>2, EncodeIs DEF MayBeNil
    <2> QED
      BY <1>2, <2>1, <2>2, <2>3, TokOf DEF MayBeNil
  <1>3. ASSUME f.kind \notin Many, NEW n \in Int, v = <<n>>, f.kind = "fakeDelete" => n \in {0, 1}
        PROVE  Encode(f, v) \in Tok(f)
    <2>1. CASE IsSingle(f)
      <3>1. \E k \in Int : Encode(f, v) = <<k>> /\ (f.kind = "fakeDelete" => k \in {0, 1}) /\ (f.kind = "enum" => k \in 0 .. 2)
        <4>1. EncodeNumber(f, n) \in Int /\ Index(n) \in 0 .. 2 /\ Index(n) \in Int
          BY NumbersAre, IndexIs
        <4> DEFINE k == IF f.kind \in Numbers \cup Times THEN EncodeNumber(f, n) ELSE IF f.kind = "enum" THEN Index(n) ELSE n
        <4>2. Encode(f, v) = <<k>>
          BY <1>3, <2>1, EncodeIs DEF IsSingle, Many
        <4>3. k \in Int /\ (f.kind = "fakeDelete" => k \in {0, 1}) /\ (f.kind = "enum" => k \in 0 .. 2)
          BY <1>3, <4>1
        <4> QED
          BY <4>2, <4>3
      <3> QED
        BY <2>1, <3>1, TokOf
    <2>2. CASE ~IsSingle(f)
      <3>1. Encode(f, v) = <<0>> \/ \E k \in Int : Encode(f, v) = <<1, k>> /\ (f.kind \in {"string", "bytes"} => k # 0)
        <4>1. EncodeNumber(f, n) \in Int /\ GoText(n) \in Int
          BY NumbersAre
        <4> QED
          BY <1>3, <2>2, <4>1, EncodeIs DEF IsSingle, Many
      <3> QED
        BY <1>3, <2>2, <3>1, TokOf
    <2> QED
      BY <2>1, <2>2
  <1> QED
    BY <1>1, <1>2, <1>3, ValIs

LEMMA FromDBType ==
  ASSUME setup \in Setups, NEW f \in FieldType, NEW c \in Col(f)
  PROVE  FromDB(f, c) \in Tok(f)
  <1> USE KindsAre DEF Kinds, Numbers, Times
  <1>1. CASE c = Nil
    <2>1. (f.kind \in Numbers \cup Times => f.null) /\ f.kind # "fakeDelete"
      BY <1>1, ColIs DEF Many
    <2>2. FromDB(f, c) = <<0>>
      BY <1>1, <2>1, FromDBIs DEF MayBeNil, Many
    <2>3. f.kind = "enum" \/ f.kind = "ref" => IsSingle(f)
      BY DEF IsSingle, Many
    <2> QED
      BY <2>1, <2>2, <2>3, TokOf DEF IsSingle, Many
  <1>2. ASSUME f.kind \in Many, NEW s \in Seq(Int), c = <<Mark>> \o s PROVE FromDB(f, c) \in Tok(f)
    <2>1. IndexAll(s) \in Seq(0 .. 2)
      BY IndexIs
    <2> QED
      BY <1>2, <2>1, FromDBIs, TokOf DEF Many
  <1>3. ASSUME f.kind \notin Many, NEW n \in Int, c = <<n>>
        PROVE  FromDB(f, c) \in Tok(f)
    <2>1. CASE IsSingle(f)
      <3>1. \E k \in Int : FromDB(f, c) = <<k>> /\ (f.kind = "fakeDelete" => k \in {0, 1}) /\ (f.kind = "enum" => k \in 0 .. 2)
        <4>1. TimeFromDB(f, n) \in Int /\ Index(n) \in 0 .. 2 /\ Index(n) \in Int
          BY NumbersAre, IndexIs
        <4> DEFINE k == IF f.kind \in Times THEN TimeFromDB(f, n)
                        ELSE IF f.kind = "enum" THEN Index(n)
                        ELSE IF f.kind = "fakeDelete" THEN (IF n > 0 THEN 1 ELSE 0) ELSE n
        <4>2. FromDB(f, c) = <<k>>
          BY <1>3, <2>1, FromDBIs DEF IsSingle, Many
        <4>3. k \in Int /\ (f.kind = "fakeDelete" => k \in {0, 1}) /\ (f.kind = "enum" => k \in 0 .. 2)
          BY <4>1
        <4> QED
          BY <4>2, <4>3
      <3> QED
        BY <2>1, <3>1, TokOf
    <2>2. CASE ~IsSingle(f)
      <3>1. FromDB(f, c) = <<0>> \/ \E k \in Int : FromDB(f, c) = <<1, k>> /\ (f.kind \in {"string", "bytes"} => k # 0)
        <4>1. TimeFromDB(f, n) \in Int
          BY NumbersAre
        <4> QED
          BY <1>3, <2>2, <4>1, FromDBIs DEF IsSingle, Many
      <3> QED
        BY <1>3, <2>2, <3>1, TokOf
    <2> QED
      BY <2>1, <2>2
  <1> QED
    BY <1>1, <1>2, <1>3, ColIs

LEMMA DecodeType ==
  ASSUME setup \in Setups, NEW f \in FieldType, NEW t \in Tok(f)
  PROVE  Decode(f, t) \in Val(f)
  <1> USE KindsAre DEF Kinds, Numbers, Times
  <1>1. CASE f.kind \in Many
    <2>1. PICK s \in Seq(Int) : t = Prefixed(s)
      BY <1>1, TokIs
    <2>2. Tail(t) = s
      BY <2>1, PrefixedSeq
    <2> QED
      BY <1>1, <2>2, DecodeIs, ValOf DEF Many
  <1>2. CASE IsSingle(f)
    <2>1. PICK n \in Int : t = <<n>> /\ (f.kind = "fakeDelete" => n \in {0, 1})
      BY <1>2, TokIs
    <2>2. DecodeNumber(f, n) \in Int
      BY NumbersAre
    <2>3. \/ Decode(f, t) = Nil /\ f.kind = "ref"
          \/ \E k \in Int : Decode(f, t) = <<k>> /\ (f.kind = "fakeDelete" => k \in {0, 1}) /\ (f.kind = "ref" => k # 0)
      BY <1>2, <2>1, <2>2, DecodeIs DEF IsSingle, Many
    <2>4. f.kind \notin Many /\ (f.kind = "ref" => MayBeNil(f))
      BY <1>2 DEF IsSingle, MayBeNil
    <2>5. CASE Decode(f, t) = Nil /\ f.kind = "ref"
      BY <2>4, <2>5, ValOf
    <2>6. CASE \E k \in Int : Decode(f, t) = <<k>> /\ (f.kind = "fakeDelete" => k \in {0, 1}) /\ (f.kind = "ref" => k # 0)
      <3>1. PICK k \in Int : Decode(f, t) = <<k>> /\ (f.kind = "fakeDelete" => k \in {0, 1}) /\ (f.kind = "ref" => k # 0)
        BY <2>6
      <3> QED
        BY <2>4, <3>1, ValOf
    <2> QED
      BY <2>3, <2>5, <2>6
  <1>3. CASE f.kind \notin Many /\ ~IsSingle(f)
    <2>1. f.null \/ f.kind \in {"string", "bytes", "json"}
      BY <1>3 DEF IsSingle
    <2>2. CASE t = <<0>>
      <3>1. (Decode(f, t) = Nil /\ MayBeNil(f)) \/ (Decode(f, t) = <<0>> /\ f.kind \in {"string", "bytes"})
        BY <2>1, <2>2, DecodeIs DEF MayBeNil
      <3> QED
        BY <1>3, <3>1, ValOf
    <2>3. CASE t # <<0>>
      <3>1. PICK n \in Int : t = <<1, n>>
        BY <1>3, <2>3, TokIs
      <3>2. DecodeNumber(f, n) \in Int /\ Parsed(n) \in Int
        BY NumbersAre
      <3>3. \E k \in Int : Decode(f, t) = <<k>>
        BY <2>1, <3>1, <3>2, DecodeIs
      <3> QED
        BY <1>3, <2>1, <3>3, ValOf
    <2> QED
      BY <2>2, <2>3
  <1> QED
    BY <1>1, <1>2, <1>3

\* What a column is set to.
LEMMA WrittenNil ==
  ASSUME NEW f \in FieldType, MayBeNil(f) \/ f.kind \in Many, IsStorable(f, Nil)
  PROVE  /\ f.kind \notin Many => ~f.req
         /\ Written(f, Nil) = IF f.kind \in Many /\ f.req THEN <<Mark>> ELSE Nil
  <1> USE KindsAre DEF Kinds, Numbers, Times
  <1>1. Written(f, Nil) = Empty(f)
    BY DEF Written, IsEmpty
  <1>2. CASE f.kind = "json"
    BY <1>1, <1>2 DEF Empty, IsStorable, Many
  <1>3. CASE f.kind \in Many
    BY <1>1, <1>3 DEF Empty, Many
  <1>4. CASE f.null \/ f.kind = "ref"
    <2>1. Empty(f) = Nil
      BY <1>4 DEF Empty
    <2> QED
      BY <1>1, <1>4, <2>1 DEF IsStorable, Many
  <1> QED
    BY <1>2, <1>3, <1>4 DEF MayBeNil

LEMMA WrittenOne ==
  ASSUME NEW f \in FieldType, f.kind \notin Many, NEW n \in Int, IsStorable(f, <<n>>), ~IsRefused(f, <<n>>)
  PROVE  /\ f.kind \in {"ref", "int", "bool", "float"} => Written(f, <<n>>) = <<n>>
         /\ f.kind = "decimal" => Written(f, <<n>>) = <<Round(n)>>
         /\ f.kind \in Times => Written(f, <<n>>) = <<Format(f, n)>>
         /\ f.kind = "fakeDelete" => Written(f, <<n>>) = IF n = 0 \/ ~inDB THEN <<0>> ELSE <<ID>>
         /\ f.kind = "string" => Written(f, <<n>>) = IF n = 0 /\ ~f.req THEN Nil ELSE <<n>>
         /\ f.kind = "bytes" => IF n = 0 THEN ~f.req /\ Written(f, <<n>>) = Nil ELSE Written(f, <<n>>) = <<n>>
         /\ f.kind = "enum" => IF n = 0 THEN /\ f.req => ~inDB
                                             /\ Written(f, <<n>>) = IF f.req THEN <<1>> ELSE Nil
                               ELSE n \in Members /\ Written(f, <<n>>) = <<n>>
         /\ f.kind = "json" => Written(f, <<n>>) = <<MySQLText(n)>>
  <1> USE KindsAre DEF Kinds, Numbers, Times
  <1>0. <<n>> # Nil /\ <<n>>[1] = n /\ (<<n>> = <<0>> <=> n = 0)
    BY DEF Nil
  <1>1. f.kind \notin {"string", "enum", "bytes"} => Written(f, <<n>>) = Stored(f, <<n>>)
    BY <1>0 DEF Written, IsEmpty
  <1>2. f.kind \in {"ref", "int", "bool", "float"} => Written(f, <<n>>) = <<n>>
    BY <1>1 DEF Stored
  <1>3. f.kind = "decimal" => Written(f, <<n>>) = <<Round(n)>>
    BY <1>0, <1>1 DEF Stored
  <1>4. f.kind \in Times => Written(f, <<n>>) = <<Format(f, n)>>
    BY <1>0, <1>1, AtHome DEF Stored
  <1>5. f.kind = "fakeDelete" => Written(f, <<n>>) = IF n = 0 \/ ~inDB THEN <<0>> ELSE <<ID>>
    BY <1>0, <1>1 DEF Stored
  <1>6. f.kind = "json" => Written(f, <<n>>) = <<MySQLText(n)>>
    BY <1>0, <1>1 DEF Stored
  <1>7. f.kind \in {"string", "enum", "bytes"} => Written(f, <<n>>) = IF n = 0 THEN Empty(f) ELSE <<n>>
    BY <1>0 DEF Written, IsEmpty, Stored
  <1>8. f.kind = "string" => Written(f, <<n>>) = IF n = 0 /\ ~f.req THEN Nil ELSE <<n>>
    BY <1>7 DEF Empty
  <1>9. f.kind = "bytes" => IF n = 0 THEN ~f.req /\ Written(f, <<n>>) = Nil ELSE Written(f, <<n>>) = <<n>>
    BY <1>7 DEF Empty, IsStorable
  <1>10. ASSUME f.kind = "enum"
         PROVE  IF n = 0 THEN /\ f.req => ~inDB
                              /\ Written(f, <<n>>) = IF f.req THEN <<1>> ELSE Nil
                ELSE n \in Members /\ Written(f, <<n>>) = <<n>>
    BY <1>0, <1>7, <1>10 DEF Empty, IsRefused
  <1> QED
    BY <1>2, <1>3, <1>4, <1>5, <1>6, <1>8, <1>9, <1>10

LEMMA InOrderIs ==
  ASSUME NEW S, S \subseteq Members
  PROVE  InOrder(S) \in Seq(Members) /\ ToSet(InOrder(S)) = S /\ InOrder(S) \in Seq(Int)
  <1>0. /\ ToSet(<< >>) = {} /\ ToSet(<<1>>) = {1} /\ ToSet(<<2>>) = {2} /\ ToSet(<<1, 2>>) = {1, 2}
        /\ Members = {1, 2}
    BY DEF ToSet, Members
  <1>1. InOrder(S) \in {<< >>, <<1>>, <<2>>, <<1, 2>>} /\ ToSet(InOrder(S)) = S
    <2>0. <<1>> \o <<2>> = <<1, 2>> /\ <<1>> \o << >> = <<1>> /\ << >> \o <<2>> = <<2>> /\ << >> \o << >> = << >>
      <3>1. <<1>> \o <<2>> = <<1, 2>>
        <4>1. Prefixed(<<2>>) = <<Len(<<2>>)>> \o <<2>> /\ Len(<<2>>) = 1
          BY DEF Prefixed
        <4> QED
          BY <4>1, PrefixedIs
      <3> QED
        BY <3>1
    <2>1. CASE 1 \in S /\ 2 \in S
      <3>1. InOrder(S) = <<1, 2>> /\ S = {1, 2}
        BY <1>0, <2>0, <2>1 DEF InOrder
      <3> QED
        BY <1>0, <3>1
    <2>2. CASE 1 \in S /\ 2 \notin S
      <3>1. InOrder(S) = <<1>> /\ S = {1}
        BY <1>0, <2>0, <2>2 DEF InOrder
      <3> QED
        BY <1>0, <3>1
    <2>3. CASE 1 \notin S /\ 2 \in S
      <3>1. InOrder(S) = <<2>> /\ S = {2}
        BY <1>0, <2>0, <2>3 DEF InOrder
      <3> QED
        BY <1>0, <3>1
    <2>4. CASE 1 \notin S /\ 2 \notin S
      <3>1. InOrder(S) = << >> /\ S = {}
        BY <1>0, <2>0, <2>4 DEF InOrder
      <3> QED
        BY <1>0, <3>1
    <2> QED
      BY <2>1, <2>2, <2>3, <2>4
  <1>2. {<< >>, <<1>>, <<2>>, <<1, 2>>} \subseteq Seq(Members) /\ Seq(Members) \subseteq Seq(Int)
    <2>1. {<< >>, <<1>>, <<2>>, <<1, 2>>} \subseteq Seq(Members)
      BY DEF Members
    <2> QED
      BY <2>1, SeqMonotonic DEF Members
  <1> QED
    BY <1>1, <1>2

LEMMA WrittenMany ==
  ASSUME NEW f \in FieldType, f.kind \in Many, NEW v \in Seq(Int), v # Nil, IsStorable(f, v)
  PROVE  /\ f.kind = "set" => /\ ToSet(v) \subseteq Members
                              /\ Written(f, v) = <<Mark>> \o InOrder(ToSet(v))
         /\ f.kind = "refsMany" => Written(f, v) = <<Mark>> \o v
  BY DEF Many, Written, IsEmpty, Stored, IsStorable

LEMMA WrittenType ==
  ASSUME setup \in Setups, NEW f \in FieldType, NEW v \in Val(f), IsStorable(f, v), ~IsRefused(f, v)
  PROVE  Written(f, v) \in Col(f)
  <1> USE KindsAre DEF Kinds, Numbers, Times
  <1>0. <<Mark>> = <<Mark>> \o << >> /\ << >> \in Seq(Int) /\ << >> \in Seq(Members)
    OBVIOUS
  <1>1. CASE v = Nil
    <2>1. MayBeNil(f) \/ f.kind \in Many
      BY <1>1, ValIs
    <2>2. /\ f.kind \notin Many => ~f.req
          /\ Written(f, v) = IF f.kind \in Many /\ f.req THEN <<Mark>> ELSE Nil
      BY <1>1, <2>1, WrittenNil
    <2>3. CASE f.kind \in Many /\ f.req
      BY <1>0, <2>2, <2>3, ColOf DEF Many
    <2>4. CASE ~(f.kind \in Many /\ f.req)
      BY <2>1, <2>2, <2>4, ColOf DEF Many, MayBeNil
    <2> QED
      BY <2>3, <2>4
  <1>2. CASE f.kind \in Many /\ v # Nil
    <2>1. v \in Seq(Int)
      BY ValIs
    <2>2. CASE f.kind = "set"
      <3>1. InOrder(ToSet(v)) \in Seq(Members) /\ Written(f, v) = <<Mark>> \o InOrder(ToSet(v))
        BY <1>2, <2>1, <2>2, WrittenMany, InOrderIs
      <3> QED
        BY <2>2, <3>1, ColOf
    <2>3. CASE f.kind = "refsMany"
      BY <1>2, <2>1, <2>3, WrittenMany, ColOf
    <2> QED
      BY <1>2, <2>2, <2>3 DEF Many
  <1>3. ASSUME f.kind \notin Many, NEW n \in Int, v = <<n>>, f.kind = "ref" => n # 0
        PROVE  Written(f, v) \in Col(f)
    <2>1. Round(n) \in Int /\ Format(f, n) \in Int /\ IsDay(f, Format(f, n)) /\ MySQLText(n) \in Int /\ ID \in Int
      <3>1. Round(n) \in Int
        BY RoundIs
      <3>2. Format(f, n) \in Int /\ IsDay(f, Format(f, n))
        BY FormatIs
      <3>3. MySQLText(n) \in Int
        BY NumbersAre
      <3>4. ID \in Int
        BY Constants
      <3> QED
        BY <3>1, <3>2, <3>3, <3>4
    <2>2. CASE Written(f, v) = Nil
      <3>1. ~f.req
        BY <2>2 DEF IsStorable
      <3>2. f.kind \notin Numbers \cup Times \cup {"fakeDelete"}
        BY <1>3, <2>2, OneIs, WrittenOne
      <3> QED
        BY <2>2, <3>1, <3>2, ColOf
    <2>3. CASE Written(f, v) # Nil
      <3>1. \E k \in Int : /\ Written(f, v) = <<k>>
                           /\ f.kind = "date" => Midnight(k) = k
                           /\ f.kind = "ref" => k # 0
                           /\ f.kind = "bytes" => k # 0
        <4> DEFINE k == IF f.kind = "decimal" THEN Round(n)
                        ELSE IF f.kind \in Times THEN Format(f, n)
                        ELSE IF f.kind = "json" THEN MySQLText(n)
                        ELSE IF f.kind = "fakeDelete" THEN (IF n = 0 \/ ~inDB THEN 0 ELSE ID)
                        ELSE IF f.kind = "enum" /\ n = 0 THEN 1 ELSE n
        <4>1. Written(f, v) = <<k>>
          BY <1>3, <2>3, WrittenOne DEF Many
        <4>2. k \in Int /\ (f.kind = "date" => Midnight(k) = k) /\ (f.kind = "ref" => k # 0) /\ (f.kind = "bytes" => k # 0)
          <5>1. f.kind = "bytes" => n # 0
            BY <1>3, <2>3, WrittenOne
          <5> QED
            BY <1>3, <2>1, <5>1 DEF IsDay
        <4> QED
          BY <4>1, <4>2
      <3>2. PICK k \in Int : /\ Written(f, v) = <<k>>
                             /\ f.kind = "date" => Midnight(k) = k
                             /\ f.kind = "ref" => k # 0
                             /\ f.kind = "bytes" => k # 0
        BY <3>1
      <3> QED
        BY <1>3, <3>2, ColOf
    <2> QED
      BY <2>2, <2>3
  <1> QED
    BY <1>1, <1>2, <1>3, ValIs

\* What the program may set a field to.
LEMMA ValuesType ==
  ASSUME setup \in Setups, NEW f \in FieldType
  PROVE  Values(f) \subseteq Held(f) /\ Zero(f) \in Val(f)
  <1> USE KindsAre DEF Kinds, Numbers, Times
  <1>0. {<< >>, <<1>>, <<2>>, <<3>>, <<1, 2>>, <<2, 1>>, <<1, 1>>} \subseteq Seq(Int)
    OBVIOUS
  <1>1. Values(f) \subseteq Held(f)
    <2>1. CASE f.kind \in Many
      <3>1. Values(f) \subseteq Seq(Int)
        BY <1>0, <2>1 DEF Values, Many, Nil
      <3> QED
        BY <2>1, <3>1, ValOf DEF Held
    <2>2. CASE f.kind \notin Many
      <3> SUFFICES ASSUME NEW v \in Values(f) PROVE v \in Held(f)
        OBVIOUS
      <3>1. CASE v = Nil
        <4>1. MayBeNil(f)
          BY <2>2, <3>1 DEF Values, Nil, Many, MayBeNil
        <4> QED
          BY <3>1, <4>1, ValOf DEF Held
      <3>2. CASE v = <<Day + 2, UTC>> /\ f.kind \in Times
        BY <3>2, Constants DEF Held
      <3>3. CASE v # Nil /\ ~(v = <<Day + 2, UTC>> /\ f.kind \in Times)
        <4>1. \E n \in Int : /\ v = <<n>>
                             /\ f.kind = "fakeDelete" => n \in {0, 1}
                             /\ f.kind = "ref" => n # 0
          <5>1. ZeroTime \in Int /\ Day + 2 \in Int /\ LastYear - 1 \in Int
            BY Constants, SetupAssumption
          <5>2. CASE f.kind = "ref"
            BY <3>3, <5>2 DEF Values
          <5>3. CASE f.kind \in Times
            BY <3>3, <5>1, <5>3 DEF Values
          <5>4. CASE f.kind \in Numbers
            BY <3>3, <5>4 DEF Values
          <5>5. CASE f.kind \in {"fakeDelete", "string", "bytes", "enum", "json"}
            BY <3>3, <5>5 DEF Values
          <5> QED
            BY <2>2, <5>2, <5>3, <5>4, <5>5 DEF Many
        <4> QED
          BY <2>2, <4>1, ValOf DEF Held
      <3> QED
        BY <3>1, <3>2, <3>3
    <2> QED
      BY <2>1, <2>2
  <1>2. Zero(f) \in Val(f)
    <2>1. ZeroTime \in Int
      BY Constants
    <2>2. CASE f.null \/ f.kind \in {"ref", "set", "json", "refsMany"}
      <3>1. Zero(f) = Nil
        BY <2>2 DEF Zero
      <3> QED
        BY <2>2, <3>1, ValOf DEF MayBeNil, Many
    <2>3. CASE ~(f.null \/ f.kind \in {"ref", "set", "json", "refsMany"})
      <3>1. Zero(f) = <<IF f.kind \in Times THEN ZeroTime ELSE 0>>
        BY <2>3 DEF Zero
      <3> QED
        BY <2>1, <2>3, <3>1, ValOf DEF Many
    <2> QED
      BY <2>2, <2>3
  <1> QED
    BY <1>1, <1>2

LEMMA FieldSetType ==
  ASSUME setup \in Setups, NEW f \in FieldType, NEW x \in Inputs(f), FieldSet(f, x) # Invalid
  PROVE  FieldSet(f, x) \in Held(f)
  <1> USE KindsAre DEF Kinds, Numbers, Times
  <1>1. /\ x.form \in {"nil", "nilText", "emptyText", "other", "text", "value", "pointer"}
        /\ x.form \in {"text", "value", "pointer"} => x.v \in Held(f)
    BY ValuesType DEF Inputs
  <1>2. /\ MayBeNil(f) => Nil \in Held(f)
        /\ f.kind \in Many => Nil \in Held(f)
        /\ f.kind \notin Many \cup {"ref"} => <<0>> \in Held(f)
        /\ f.kind \in {"string", "enum"} => <<2>> \in Held(f)
    BY ValOf DEF Many, Held
  <1>3. CASE f.kind \in Numbers /\ f.null
    BY <1>1, <1>2, <1>3 DEF FieldSet, MayBeNil, Many
  <1>4. CASE f.kind \in {"bool", "fakeDelete"} /\ ~f.null
    BY <1>1, <1>2, <1>4 DEF FieldSet, Many
  <1>5. CASE f.kind \in {"int", "float", "decimal"} /\ ~f.null
    BY <1>1, <1>2, <1>5 DEF FieldSet, Many
  <1>6. CASE f.kind \in {"string", "enum"}
    BY <1>1, <1>2, <1>6 DEF FieldSet, Many
  <1>7. CASE f.kind \in Times
    BY <1>1, <1>2, <1>7 DEF FieldSet, MayBeNil, Many
  <1>8. CASE f.kind = "ref"
    BY <1>1, <1>2, <1>8 DEF FieldSet, MayBeNil
  <1>9. CASE f.kind \in {"bytes", "set", "json", "refsMany"}
    BY <1>1, <1>2, <1>9 DEF FieldSet
  <1> QED
    BY <1>3, <1>4, <1>5, <1>6, <1>7, <1>8, <1>9

-----------------------------------------------------------------------------
(* The binary form of the two fields.                                       *)

LEMMA TokSeq ==
  ASSUME NEW f \in FieldType, NEW t \in Tok(f)
  PROVE  t \in Seq(Int) /\ Len(t) >= 1 /\ Len(t) = Width(f, t) /\ t # << >>
  <1> USE KindsAre DEF Kinds, Numbers, Times
  <1>1. CASE f.kind \in Many
    <2>1. PICK s \in Seq(Int) : t = Prefixed(s)
      BY <1>1, TokIs
    <2>2. t \in Seq(Int) /\ Len(t) = 1 + Len(s) /\ t[1] = Len(s)
      BY <2>1, PrefixedSeq
    <2>3. IsPrefixed(f)
      BY <1>1 DEF IsPrefixed, Many
    <2>4. Len(s) \in Nat
      OBVIOUS
    <2> QED
      BY <2>2, <2>3, <2>4 DEF Width
  <1>2. CASE IsSingle(f)
    <2>1. PICK n \in Int : t = <<n>>
      BY <1>2, TokIs
    <2>2. ~IsPrefixed(f)
      BY <1>2 DEF IsPrefixed, IsSingle, Many
    <2> QED
      BY <2>1, <2>2 DEF Width
  <1>3. CASE f.kind \notin Many /\ ~IsSingle(f)
    <2>1. IsPrefixed(f)
      BY <1>3 DEF IsPrefixed, IsSingle, Many
    <2>2. CASE t = <<0>>
      BY <2>1, <2>2 DEF Width
    <2>3. CASE t # <<0>>
      <3>1. PICK n \in Int : t = <<1, n>>
        BY <1>3, <2>3, TokIs
      <3> QED
        BY <2>1, <3>1 DEF Width
    <2> QED
      BY <2>2, <2>3
  <1> QED
    BY <1>1, <1>2, <1>3

LEMMA FieldsAre ==
  ASSUME setup \in Setups
  PROVE  /\ \A i \in 1 .. 2 : FieldAt[i] \in FieldType
         /\ FieldAt[1] = setup.field /\ FieldAt[2] = Neighbour
  <1>1. setup.field \in FieldType
    BY SetupAssumption
  <1>2. Neighbour \in FieldType
    BY DEF Neighbour, FieldType, Kinds, Numbers, Times
  <1>3. FieldAt[1] = setup.field /\ FieldAt[2] = Neighbour
    BY DEF FieldAt
  <1> QED
    BY <1>1, <1>2, <1>3

\* A binary form is read as what it was made of.
LEMMA ReadBack ==
  ASSUME setup \in Setups, NEW x \in Tok(FieldAt[1]), NEW y \in Tok(FieldAt[2])
  PROVE  /\ x \o y \in Seq(Int) /\ x \o y # None /\ Len(x \o y) = Len(x) + Len(y)
         /\ TokensOf(x \o y) = <<x, y>>
  <1> DEFINE b == x \o y
             F == FieldAt[1]
             G == FieldAt[2]
  <1>0. F \in FieldType /\ G \in FieldType
    BY FieldsAre
  <1> HIDE DEF F, G
  <1>1. /\ x \in Seq(Int) /\ Len(x) >= 1 /\ Len(x) = Width(F, x)
        /\ y \in Seq(Int) /\ Len(y) >= 1 /\ Len(y) = Width(G, y)
    <2>1. x \in Tok(F) /\ y \in Tok(G)
      BY DEF F, G
    <2> QED
      BY <1>0, <2>1, TokSeq
  <1>2. /\ b \in Seq(Int) /\ Len(b) = Len(x) + Len(y)
        /\ \A k \in 1 .. Len(x) : b[k] = x[k]
        /\ \A k \in 1 .. Len(y) : b[Len(x) + k] = y[k]
    BY SMTT(30), <1>1
  <1> HIDE DEF b
  <1>3. Len(x) \in Nat /\ Len(y) \in Nat
    BY <1>1
  <1>4. Width(F, b) = Len(x)
    <2>1. b[1] = x[1]
      BY <1>1, <1>2, <1>3
    <2> QED
      BY <1>1, <2>1 DEF Width
  <1>5. SubSeq(b, 1, Len(x)) = x
    <2>1. /\ SubSeq(b, 1, Len(x)) \in Seq(Int) /\ Len(SubSeq(b, 1, Len(x))) = Len(x)
          /\ \A k \in 1 .. Len(x) : SubSeq(b, 1, Len(x))[k] = b[k]
      BY SMTT(30), <1>1, <1>2, <1>3
    <2> QED
      BY <1>1, <1>2, <2>1, SeqEqual
  <1>6. SubSeq(b, Len(x) + 1, Len(b)) = y
    <2> DEFINE m == Len(x) + 1
               n == Len(x) + Len(y)
    <2>1. m \in Int /\ n \in Int /\ m <= n /\ n - m + 1 = Len(y) /\ Len(b) = n
      <3>1. Len(y) >= 1
        BY <1>1
      <3>2. Len(b) = n
        BY <1>2
      <3> QED
        BY <1>3, <3>1, <3>2
    <2>2. \A k \in m .. n : b[k] \in Int
      BY <1>1, <1>2, <1>3
    <2>3. \A k \in 1 .. Len(y) : m + k - 1 = Len(x) + k
      BY <1>3
    <2> HIDE DEF m, n
    <2>4. /\ SubSeq(b, m, n) \in Seq(Int) /\ Len(SubSeq(b, m, n)) = Len(y)
          /\ \A k \in 1 .. Len(y) : SubSeq(b, m, n)[k] = b[m + k - 1]
      BY <2>1, <2>2, SubSeqProperties
    <2>5. SubSeq(b, m, n) = y
      BY <1>1, <1>2, <2>3, <2>4, SeqEqual
    <2> QED
      BY <2>1, <2>5 DEF m
  <1>7. TokensOf(b) = <<x, y>>
    <2>1. TokensOf(b) = <<SubSeq(b, 1, Width(F, b)),
                          SubSeq(b, Width(F, b) + 1,
                                 Width(F, b) + Width(G, SubSeq(b, Width(F, b) + 1, Len(b))))>>
      BY DEF TokensOf, F, G
    <2> QED
      BY <1>1, <1>2, <1>4, <1>5, <1>6, <2>1
  <1>8. b # None
    BY <1>1, <1>2, <1>3 DEF None
  <1> QED
    BY <1>2, <1>7, <1>8 DEF b

-----------------------------------------------------------------------------
(* What a binary form has to do with a column.                              *)

IsReal(f) == f.kind \in {"float", "decimal"}

\* The binary form of a date starts a day.
Proper(f, t) == f.kind = "date" => Decode(f, t) = Nil \/ StartOfDay(Decode(f, t)[1]) = Decode(f, t)[1]

\* Rounded to the precision.
Close(d, c) == d = c \/ (d # Nil /\ c # Nil /\ 2 * (d[1] - c[1]) <= Unit /\ 2 * (c[1] - d[1]) <= Unit)

\* What was written with the column, or as good as that.
Agrees(f, t, c) ==
    /\ IsReal(f) => Close(Decode(f, t), c)
    /\ f.kind = "set" => ToSet(Tail(t)) = ToSet(Listed(c))
    /\ f.kind = "json" => Decode(f, t) = Decode(f, FromDB(f, c))
    /\ f.kind \notin {"float", "decimal", "set", "json"} => t = FromDB(f, c)

Fits(f, t, c, excused) == IsKeptColumn(f, c) => excused \/ (Proper(f, t) /\ Agrees(f, t, c))

\* The columns of a time that are read for what they are.
LEMMA TimesRead ==
  ASSUME setup \in Setups, NEW f \in FieldType, f.kind \in Times, NEW c \in Col(f), IsKeptColumn(f, c)
  PROVE  \/ c = Nil /\ f.null
         \/ \E n \in Int :
              /\ c = <<n>> /\ c # Nil /\ IsDay(f, n)
              /\ \/ ~f.null /\ n = ZeroTime /\ TimeFromDB(f, n) = ZeroDateSeconds
                 \/ /\ IsKeptTime(f, n - TimeOffset) /\ n - TimeOffset \in Int
                    /\ n - TimeOffset > 0 /\ Instant(f, n - TimeOffset) = n - TimeOffset
                    /\ Format(f, n - TimeOffset) = n
                    /\ TimeFromDB(f, n) = n - TimeOffset + TimeStampSeconds
  <1>0. IsTime(f) /\ f.kind \notin Many
    BY DEF IsTime, Many, Times
  <1>1. CASE c = Nil
    BY <1>0, <1>1, ColIs, OneIs
  <1>2. CASE c # Nil
    <2>1. PICK n \in Int : c = <<n>> /\ c[1] = n /\ (f.kind = "date" => Midnight(n) = n)
      BY <1>0, <1>2, ColIs
    <2>2. (n = ZeroTime /\ ~f.null) \/ IsKeptTime(f, n - TimeOffset)
      <3>1. c = <<ZeroTime>> => n = ZeroTime
        BY <2>1
      <3> QED
        BY <1>2, <2>1, <3>1 DEF IsKeptColumn, Times
    <2>3. IsDay(f, n)
      BY <2>1 DEF IsDay
    <2>4. CASE n = ZeroTime /\ ~f.null
      BY <1>0, <1>2, <2>1, <2>3, <2>4, Zeros
    <2>5. CASE IsKeptTime(f, n - TimeOffset)
      <3>1. LET x == n - TimeOffset IN
            /\ x \in Int /\ x > 0 /\ x # ZeroTime /\ OffsetAt(x) = TimeOffset
            /\ Instant(f, x) = x /\ Format(f, x) = n /\ TimeFromDB(f, n) = x + TimeStampSeconds
        BY <1>0, <2>3, <2>5, ReadTime
      <3> QED
        BY <1>2, <2>1, <2>3, <2>5, <3>1
    <2> QED
      BY <2>2, <2>4, <2>5
  <1> QED
    BY <1>1, <1>2

\* The columns of other fields.
LEMMA DecodeZero ==
  ASSUME setup \in Setups
  PROVE  /\ ZeroDateSeconds - TimeStampSeconds = ZeroTime /\ ZeroTime \in Int /\ StartOfDay(ZeroTime) = ZeroTime
         /\ ~(ZeroTime > 0)
  BY Constants DEF ZeroTime, StartOfDay

\* The values that a time is given.
LEMMA TimesDecoded ==
  ASSUME setup \in Setups, NEW f \in FieldType, f.kind \in Times, NEW n \in Int
  PROVE  /\ f.null => Decode(f, <<0>>) = Nil /\ Decode(f, <<1, n>>) = <<n - TimeStampSeconds>>
         /\ ~f.null => Decode(f, <<n>>) = <<n - TimeStampSeconds>>
  <1>1. DecodeNumber(f, n) = n - TimeStampSeconds
    BY NumbersAre
  <1>2. /\ f.null => Decode(f, <<0>>) = Nil /\ Decode(f, <<1, n>>) = <<DecodeNumber(f, n)>>
        /\ ~f.null => Decode(f, <<n>>) = <<DecodeNumber(f, n)>>
    BY DecodeIs
  <1> QED
    BY <1>1, <1>2

\* The binary form of a value.
LEMMA ProperEncode ==
  ASSUME setup \in Setups, NEW f \in FieldType, NEW v \in Val(f)
  PROVE  Proper(f, Encode(f, v))
  <1> SUFFICES ASSUME f.kind = "date"
               PROVE  Decode(f, Encode(f, v)) = Nil \/ StartOfDay(Decode(f, Encode(f, v))[1]) = Decode(f, Encode(f, v))[1]
    BY DEF Proper
  <1>0. f.kind \in Times /\ f.kind \notin Many
    BY DEF Times, Many
  <1>1. CASE v = Nil
    <2>1. f.null
      BY <1>0, <1>1, ValIs, OneIs DEF MayBeNil, Times
    <2> QED
      BY <1>0, <1>1, <2>1, EncodeIs, DecodeIs
  <1>2. CASE v # Nil
    <2>1. PICK n \in Int : v = <<n>>
      BY <1>0, <1>2, ValIs
    <2>2. TimeToken(f, n) \in Int /\ StartOfDay(TimeToken(f, n) - TimeStampSeconds) = TimeToken(f, n) - TimeStampSeconds
      BY TimeTokenIs, TokenStartsDay
    <2>3. Encode(f, v) = IF f.null THEN <<1, TimeToken(f, n)>> ELSE <<TimeToken(f, n)>>
      <3>1. EncodeNumber(f, n) = TimeToken(f, n)
        BY <1>0, NumbersAre
      <3> QED
        BY <1>0, <2>1, <3>1, EncodeIs
    <2>4. Decode(f, Encode(f, v)) = <<TimeToken(f, n) - TimeStampSeconds>>
      BY <1>0, <2>2, <2>3, TimesDecoded
    <2> QED
      BY <2>2, <2>4
  <1> QED
    BY <1>1, <1>2

LEMMA FromDBFits ==
  ASSUME setup \in Setups, NEW f \in FieldType, NEW c \in Col(f)
  PROVE  Fits(f, FromDB(f, c), c, FALSE)
  <1> USE KindsAre DEF Kinds, Numbers, Times
  <1> SUFFICES ASSUME IsKeptColumn(f, c) PROVE Proper(f, FromDB(f, c)) /\ Agrees(f, FromDB(f, c), c)
    BY DEF Fits
  <1>1. Proper(f, FromDB(f, c))
    <2> SUFFICES ASSUME f.kind = "date"
                 PROVE  Decode(f, FromDB(f, c)) = Nil \/ StartOfDay(Decode(f, FromDB(f, c))[1]) = Decode(f, FromDB(f, c))[1]
      BY DEF Proper
    <2>0. f.kind \in Times
      OBVIOUS
    <2>1. CASE c = Nil /\ f.null
      BY <2>1, FromDBIs, DecodeIs DEF MayBeNil
    <2>2. ASSUME NEW n \in Int, c = <<n>>, NEW x \in Int, TimeFromDB(f, n) = x + TimeStampSeconds, StartOfDay(x) = x
          PROVE  Decode(f, FromDB(f, c)) = Nil \/ StartOfDay(Decode(f, FromDB(f, c))[1]) = Decode(f, FromDB(f, c))[1]
      <3>1. x + TimeStampSeconds \in Int /\ x + TimeStampSeconds - TimeStampSeconds = x
        BY Constants
      <3>2. FromDB(f, c) = IF f.null THEN <<1, x + TimeStampSeconds>> ELSE <<x + TimeStampSeconds>>
        BY <2>2, FromDBIs
      <3> DEFINE k == x + TimeStampSeconds
      <3>3. Decode(f, FromDB(f, c)) = <<k - TimeStampSeconds>>
        <4>1. k \in Int /\ FromDB(f, c) = IF f.null THEN <<1, k>> ELSE <<k>>
          BY <3>1, <3>2
        <4> HIDE DEF k
        <4>2. /\ f.null => Decode(f, <<1, k>>) = <<k - TimeStampSeconds>>
              /\ ~f.null => Decode(f, <<k>>) = <<k - TimeStampSeconds>>
          BY <2>0, <4>1, TimesDecoded
        <4> QED
          BY <4>1, <4>2
      <3>4. k - TimeStampSeconds = x
        BY Constants
      <3> HIDE DEF k
      <3> QED
        BY <2>2, <3>3, <3>4
    <2>3. ZeroDateSeconds = ZeroTime + TimeStampSeconds
      BY Constants DEF ZeroTime
    <2>4. \A x : Instant(f, x) = StartOfDay(x)
      BY DEF Instant
    <2> QED
      BY <2>1, <2>2, <2>3, <2>4, TimesRead, DecodeZero
  <1>2. ASSUME IsReal(f) PROVE Close(Decode(f, FromDB(f, c)), c)
    <2>0. f.kind \in Numbers /\ f.kind \notin Many /\ f.kind \notin Times
      BY <1>2 DEF IsReal, Many
    <2>1. CASE c = Nil
      <3>1. f.null
        BY <2>0, <2>1, ColIs, OneIs
      <3> QED
        BY <2>1, <3>1, FromDBIs, DecodeIs DEF MayBeNil, Close
    <2>2. CASE c # Nil
      <3>1. PICK n \in Int : c = <<n>>
        BY <2>0, <2>2, ColIs
      <3>2. DecodeNumber(f, n) = n
        BY <2>0, NumbersAre
      <3>3. FromDB(f, c) = IF f.null THEN <<1, n>> ELSE <<n>>
        BY <2>0, <3>1, FromDBIs
      <3>4. Decode(f, FromDB(f, c)) = <<DecodeNumber(f, n)>>
        BY <2>0, <3>3, DecodeIs
      <3> QED
        BY <3>1, <3>2, <3>4 DEF Close
    <2> QED
      BY <2>1, <2>2
  <1>3. ASSUME f.kind = "set" PROVE Tail(FromDB(f, c)) = Listed(c)
    <2>1. CASE c = Nil
      <3>1. FromDB(f, c) = <<0>> /\ Listed(c) = << >>
        BY <1>3, <2>1, FromDBIs DEF Many, Listed
      <3> QED
        BY <3>1, OneIs
    <2>2. CASE c # Nil
      <3>1. PICK s \in Seq(Int) : c = <<Mark>> \o s /\ s \in Seq(Members)
        BY <1>3, <2>2, ColIs DEF Many
      <3>2. FromDB(f, c) = Prefixed(s) /\ Listed(c) = s
        BY ZenonT(40), <1>3, <3>1, FromDBIs, IndexIs, ListedIs
      <3> QED
        BY <3>2, PrefixedSeq
    <2> QED
      BY <2>1, <2>2
  <1> QED
    BY <1>1, <1>2, <1>3 DEF Agrees

\* The values that an INSERT writes otherwise, and does not tell the entity.
IsUntold(f, v) == \/ f.kind = "fakeDelete" /\ v = <<1>>
                  \/ f.kind = "enum" /\ f.req /\ v = <<0>>

\* The binary form of a value that is written fits what is written.
LEMMA WrittenFits ==
  ASSUME setup \in Setups, NEW f \in FieldType, NEW v \in Val(f), IsStorable(f, v), ~IsRefused(f, v),
         NEW U, NEW i, ~inDB /\ IsUntold(f, v) => i \in U
  PROVE  Fits(f, Encode(f, v), Written(f, v), i \in U)
  <1> USE KindsAre DEF Kinds, Numbers, Times
  <1> DEFINE c == Written(f, v)
             t == Encode(f, v)
  <1> SUFFICES ASSUME IsKeptColumn(f, c), ~(~inDB /\ IsUntold(f, v)) PROVE Agrees(f, t, c)
    BY ProperEncode DEF Fits
  <1>0. c \in Col(f) /\ <<Mark>> = <<Mark>> \o << >> /\ << >> \in Seq(Int)
    BY WrittenType
  <1> HIDE DEF c, t
  <1>1. CASE v = Nil
    <2>1. MayBeNil(f) \/ f.kind \in Many
      BY <1>1, ValIs
    <2>2. /\ f.kind \notin Many => ~f.req
          /\ c = IF f.kind \in Many /\ f.req THEN <<Mark>> ELSE Nil
      BY <1>1, <2>1, WrittenNil DEF c
    <2>3. t = <<0>>
      <3>1. IndexAll(<< >>) = << >> /\ Nil = << >>
        BY AllIs DEF Nil
      <3> QED
        BY <1>1, <2>1, <3>1, EncodeIs, PrefixedIs DEF t, MayBeNil, Many
    <2>4. f.kind = "set" => FromDB(f, <<Mark>>) = Prefixed(IndexAll(<< >>)) /\ Listed(<<Mark>>) = << >>
      BY ZenonT(40), <1>0, FromDBIs, ListedIs
    <2>5. f.kind = "refsMany" => FromDB(f, <<Mark>>) = Prefixed(<< >>)
      BY <1>0, FromDBIs
    <2>6. FromDB(f, c) = <<0>>
      <3>1. FromDB(f, Nil) = <<0>>
        BY <2>1, FromDBIs DEF MayBeNil
      <3> QED
        BY <2>2, <2>4, <2>5, <3>1, AllIs, PrefixedIs DEF Many
    <2>7. IsReal(f) => Decode(f, t) = Nil /\ c = Nil
      BY <2>1, <2>2, <2>3, DecodeIs DEF IsReal, MayBeNil, Many
    <2>8. f.kind = "set" => Tail(t) = << >> /\ Listed(c) = << >>
      BY <2>2, <2>3, <2>4, OneIs DEF Listed, Many
    <2> QED
      BY <2>3, <2>6, <2>7, <2>8 DEF Agrees, Close
  <1>2. CASE f.kind = "set" /\ v # Nil
    <2>1. /\ v \in Seq(Int) /\ ToSet(v) \subseteq Members /\ c = <<Mark>> \o InOrder(ToSet(v))
          /\ t = Prefixed(IndexAll(v))
      <3>1. v \in Seq(Int)
        BY ValIs
      <3> QED
        BY <1>2, <3>1, WrittenMany, EncodeIs DEF c, t, Many
    <2>2. v \in Seq(Members)
      BY <2>1 DEF ToSet
    <2>3. Tail(t) = v
      BY <2>1, <2>2, IndexIs, PrefixedSeq
    <2>4. ToSet(Listed(c)) = ToSet(v)
      BY <2>1, InOrderIs, ListedIs
    <2> QED
      BY <1>2, <2>3, <2>4 DEF Agrees, IsReal
  <1>3. CASE f.kind = "refsMany" /\ v # Nil
    <2>1. v \in Seq(Int)
      BY ValIs
    <2>2. c = <<Mark>> \o v
      BY <1>3, <2>1, WrittenMany DEF c, Many
    <2>3. t = Prefixed(v)
      BY <1>3, EncodeIs DEF t
    <2>4. FromDB(f, c) = Prefixed(v)
      BY <1>3, <2>1, <2>2, FromDBIs
    <2> QED
      BY <1>3, <2>3, <2>4 DEF Agrees, IsReal
  <1>4. ASSUME f.kind \notin Many, NEW n \in Int, v = <<n>>, v # Nil, f.kind = "fakeDelete" => n \in {0, 1}
        PROVE  Agrees(f, t, c)
    <2>0. EncodeNumber(f, n) \in Int /\ Round(n) \in Int /\ Format(f, n) \in Int
      BY NumbersAre, RoundIs, FormatIs
    <2>1. CASE f.kind \in {"ref", "int", "bool"}
      <3>1. EncodeNumber(f, n) = n \/ f.kind = "ref"
        BY <2>1, NumbersAre
      <3>2. c = <<n>>
        BY <1>4, <2>1, WrittenOne DEF c
      <3>3. t = FromDB(f, c)
        <4>1. CASE f.kind = "ref"
          BY <1>4, <3>2, <4>1, EncodeIs, FromDBIs DEF t
        <4>2. CASE f.kind \in {"int", "bool"}
          <5>1. t = IF f.null THEN <<1, EncodeNumber(f, n)>> ELSE <<EncodeNumber(f, n)>>
            BY <1>4, <4>2, EncodeIs DEF t
          <5>2. FromDB(f, c) = IF f.null THEN <<1, n>> ELSE <<n>>
            BY <3>2, <4>2, FromDBIs
          <5> QED
            BY <3>1, <4>2, <5>1, <5>2
        <4> QED
          BY <2>1, <4>1, <4>2
      <3> QED
        BY <2>1, <3>3 DEF Agrees, IsReal
    <2>2. CASE IsReal(f)
      <3>1. f.kind \in Numbers /\ EncodeNumber(f, n) = Round(n)
        BY <2>2, NumbersAre DEF IsReal
      <3>2. c = <<n>> \/ c = <<Round(n)>>
        BY <1>4, <2>2, WrittenOne DEF c, IsReal
      <3>3. t = IF f.null THEN <<1, Round(n)>> ELSE <<Round(n)>>
        BY <1>4, <3>1, EncodeIs DEF t
      <3>4. Decode(f, t) = <<DecodeNumber(f, Round(n))>>
        BY <3>1, <3>3, DecodeIs
      <3>5. DecodeNumber(f, Round(n)) = Round(n)
        BY <2>0, <2>2, NumbersAre DEF IsReal
      <3>6. 2 * (Round(n) - n) <= Unit /\ 2 * (n - Round(n)) <= Unit
        BY RoundIs
      <3>7. Close(<<Round(n)>>, <<n>>) /\ Close(<<Round(n)>>, <<Round(n)>>)
        BY <3>6, OneIs DEF Close
      <3> QED
        BY <2>2, <3>2, <3>4, <3>5, <3>7 DEF Agrees, IsReal
    <2>3. CASE f.kind \in Times
      <3>1. c = <<Format(f, n)>>
        BY <1>4, <2>3, WrittenOne DEF c
      <3>2. t = IF f.null THEN <<1, TimeToken(f, n)>> ELSE <<TimeToken(f, n)>>
        BY <1>4, <2>3, EncodeIs, NumbersAre DEF t
      <3>3. TimeToken(f, n) = TimeFromDB(f, Format(f, n))
        <4>1. IsTime(f) /\ c # Nil /\ c[1] = Format(f, n)
          BY <2>3, <3>1, OneIs DEF IsTime
        <4>2. (c = <<ZeroTime>> /\ ~f.null) \/ IsKeptTime(f, Format(f, n) - TimeOffset)
          BY <2>3, <4>1 DEF IsKeptColumn
        <4>3. CASE c = <<ZeroTime>> /\ ~f.null
          <5>1. Format(f, n) = ZeroTime
            BY <3>1, <4>3
          <5> QED
            BY <4>1, <4>3, <5>1, WrittenTime, Zeros
        <4>4. CASE IsKeptTime(f, Format(f, n) - TimeOffset)
          BY <4>1, <4>4, WrittenTime
        <4> QED
          BY <4>2, <4>3, <4>4
      <3>4. t = FromDB(f, c)
        BY <2>3, <3>1, <3>2, <3>3, FromDBIs
      <3> QED
        BY <2>3, <3>4 DEF Agrees, IsReal
    <2>4. CASE f.kind = "fakeDelete"
      <3>1. c = IF n = 0 THEN <<0>> ELSE <<ID>>
        BY <1>4, <2>4, WrittenOne DEF c, IsUntold
      <3>2. t = <<n>> /\ ID > 0 /\ ID \in Int
        BY <1>4, <2>4, EncodeIs, Constants DEF t
      <3>3. t = FromDB(f, c)
        BY <1>4, <2>4, <3>1, <3>2, FromDBIs
      <3> QED
        BY <2>4, <3>3 DEF Agrees, IsReal
    <2>5. CASE f.kind \in {"string", "bytes"}
      <3>1. t = IF n = 0 THEN <<0>> ELSE <<1, n>>
        BY <1>4, <2>5, EncodeIs DEF t
      <3>2. c = <<n>> \/ (n = 0 /\ c = Nil)
        BY <1>4, <2>5, WrittenOne DEF c
      <3>3. t = FromDB(f, c)
        BY <2>5, <3>1, <3>2, FromDBIs DEF Many
      <3> QED
        BY <2>5, <3>3 DEF Agrees, IsReal
    <2>6. CASE f.kind = "enum"
      <3>1. t = <<Index(n)>> /\ Index(0) = 0
        BY <1>4, <2>6, EncodeIs, IndexIs DEF t
      <3>2. c = <<n>> \/ (n = 0 /\ c = Nil)
        BY <1>4, <2>6, WrittenOne DEF c, IsUntold
      <3>3. t = FromDB(f, c)
        BY <2>6, <3>1, <3>2, FromDBIs
      <3> QED
        BY <2>6, <3>3 DEF Agrees, IsReal
    <2>7. CASE f.kind = "json"
      <3>1. t = <<1, GoText(n)>> /\ c = <<MySQLText(n)>>
        BY <1>4, <2>7, EncodeIs, WrittenOne DEF t, c
      <3>2. FromDB(f, c) = <<1, MySQLText(n)>>
        BY <2>7, <3>1, FromDBIs
      <3>3. Parsed(GoText(n)) = Parsed(MySQLText(n))
        BY NumbersAre
      <3>4. Decode(f, t) = Decode(f, FromDB(f, c))
        BY <2>7, <3>1, <3>2, <3>3, DecodeIs
      <3> QED
        BY <2>7, <3>4 DEF Agrees, IsReal
    <2> QED
      BY <1>4, <2>1, <2>2, <2>3, <2>4, <2>5, <2>6, <2>7 DEF IsReal, Many
  <1> QED
    BY <1>1, <1>2, <1>3, <1>4, ValIs DEF Many

\* A field that is not written: another binary form of the same meaning fits as well.
LEMMA MeaningFits ==
  ASSUME NEW f, NEW v, NEW t, NEW c, NEW U, NEW W, NEW i,
         Fits(f, t, c, i \in U), i \in U \/ Meaning(f, Encode(f, v)) # Meaning(f, t) => i \in W
  PROVE  Fits(f, Encode(f, v), c, i \in W)
  <1> SUFFICES ASSUME IsKeptColumn(f, c), i \notin W
               PROVE  Proper(f, Encode(f, v)) /\ Agrees(f, Encode(f, v), c)
    BY DEF Fits
  <1>1. Proper(f, t) /\ Agrees(f, t, c) /\ Meaning(f, Encode(f, v)) = Meaning(f, t)
    BY DEF Fits
  <1>2. f.kind # "set" => Encode(f, v) = t
    BY <1>1 DEF Meaning
  <1>3. Proper(f, Encode(f, v))
    BY <1>1, <1>2 DEF Proper
  <1>4. Agrees(f, Encode(f, v), c)
    BY <1>1 DEF Agrees, Meaning, IsReal
  <1> QED
    BY <1>3, <1>4

-----------------------------------------------------------------------------
(* What is said of a field.                                                 *)

\* The binary form of a time that was read from its column, or is as good as that.
LEMMA TimesAgree ==
  ASSUME setup \in Setups, NEW f \in FieldType, f.kind \in Times, NEW c \in Col(f), IsKeptColumn(f, c),
         NEW t, t = FromDB(f, c)
  PROVE  \/ f.null /\ c = Nil /\ t = <<0>> /\ Decode(f, t) = Nil
         \/ ~f.null /\ c = <<ZeroTime>> /\ t = <<ZeroDateSeconds>> /\ Decode(f, t) = <<ZeroTime>>
         \/ \E n \in Int, x \in Int, k \in Int :
              /\ c = <<n>> /\ IsDay(f, n) /\ x = n - TimeOffset /\ IsKeptTime(f, x) /\ x > 0
              /\ Instant(f, x) = x /\ Format(f, x) = n
              /\ k - TimeStampSeconds = x /\ k # ZeroDateSeconds
              /\ t = (IF f.null THEN <<1, k>> ELSE <<k>>) /\ Decode(f, t) = <<x>>
  <1>1. CASE c = Nil /\ f.null
    <2>1. t = <<0>> /\ Decode(f, <<0>>) = Nil
      BY <1>1, FromDBIs, DecodeIs DEF MayBeNil
    <2> QED
      BY <1>1, <2>1
  <1>2. ASSUME NEW n \in Int, c = <<n>>, ~f.null, n = ZeroTime, TimeFromDB(f, n) = ZeroDateSeconds
        PROVE  ~f.null /\ c = <<ZeroTime>> /\ t = <<ZeroDateSeconds>> /\ Decode(f, t) = <<ZeroTime>>
    <2>1. t = <<ZeroDateSeconds>> /\ ZeroDateSeconds \in Int /\ ZeroDateSeconds - TimeStampSeconds = ZeroTime
      <3>1. FromDB(f, <<n>>) = <<TimeFromDB(f, n)>>
        BY <1>2, FromDBIs
      <3>2. ZeroDateSeconds \in Int
        BY Constants
      <3> QED
        BY <1>2, <3>1, <3>2, DecodeZero
    <2>2. Decode(f, <<ZeroDateSeconds>>) = <<ZeroDateSeconds - TimeStampSeconds>>
      BY <1>2, <2>1, TimesDecoded
    <2> QED
      BY <1>2, <2>1, <2>2
  <1>3. ASSUME NEW n \in Int, c = <<n>>, IsDay(f, n), NEW x \in Int, x = n - TimeOffset, IsKeptTime(f, x), x > 0,
               Instant(f, x) = x, Format(f, x) = n, TimeFromDB(f, n) = x + TimeStampSeconds
        PROVE  \E k \in Int : /\ k - TimeStampSeconds = x /\ k # ZeroDateSeconds
                              /\ t = (IF f.null THEN <<1, k>> ELSE <<k>>) /\ Decode(f, t) = <<x>>
    <2>1. PICK k \in Int : k = x + TimeStampSeconds /\ k - TimeStampSeconds = x /\ k # ZeroDateSeconds
      BY <1>3, Constants
    <2>2. t = IF f.null THEN <<1, k>> ELSE <<k>>
      BY <1>3, <2>1, FromDBIs
    <2>3. /\ f.null => Decode(f, <<1, k>>) = <<k - TimeStampSeconds>>
          /\ ~f.null => Decode(f, <<k>>) = <<k - TimeStampSeconds>>
      BY TimesDecoded
    <2>4. Decode(f, t) = <<x>>
      BY <2>1, <2>2, <2>3
    <2> QED
      BY <2>1, <2>2, <2>4
  <1>4. CASE \E n \in Int : /\ c = <<n>> /\ c # Nil /\ IsDay(f, n)
                            /\ ~f.null /\ n = ZeroTime /\ TimeFromDB(f, n) = ZeroDateSeconds
    BY <1>2, <1>4
  <1>5. ASSUME NEW n \in Int, c = <<n>>, IsDay(f, n),
               IsKeptTime(f, n - TimeOffset), n - TimeOffset \in Int,
               n - TimeOffset > 0, Instant(f, n - TimeOffset) = n - TimeOffset,
               Format(f, n - TimeOffset) = n,
               TimeFromDB(f, n) = n - TimeOffset + TimeStampSeconds
        PROVE  \E m \in Int, x \in Int, k \in Int :
              /\ c = <<m>> /\ IsDay(f, m) /\ x = m - TimeOffset /\ IsKeptTime(f, x) /\ x > 0
              /\ Instant(f, x) = x /\ Format(f, x) = m
              /\ k - TimeStampSeconds = x /\ k # ZeroDateSeconds
              /\ t = (IF f.null THEN <<1, k>> ELSE <<k>>) /\ Decode(f, t) = <<x>>
    <2>1. PICK x \in Int : x = n - TimeOffset
      BY <1>5
    <2>2. PICK k \in Int : /\ k - TimeStampSeconds = x /\ k # ZeroDateSeconds
                           /\ t = (IF f.null THEN <<1, k>> ELSE <<k>>) /\ Decode(f, t) = <<x>>
      BY <1>3, <1>5, <2>1
    <2> WITNESS n \in Int, x \in Int, k \in Int
    <2> QED
      BY <1>5, <2>1, <2>2
  <1> QED
    BY <1>1, <1>2, <1>5, TimesRead

LEMMA SameIs ==
  ASSUME NEW f \in FieldType
  PROVE  /\ f.null => \A v : Same(f, <<0>>, v) <=> v = Nil
         /\ f.null => \A k, v : Same(f, <<1, k>>, v) <=>
                        v # Nil /\ SameNumber(f, DecodeNumber(f, k), IF f.kind \in Times THEN InstantOf(f, v) ELSE v[1])
         /\ f.kind \in Numbers /\ ~f.null => \A k, v : Same(f, <<k>>, v) <=> SameNumber(f, k, v[1])
         /\ f.kind \in Times /\ ~f.null => \A k, v : Same(f, <<k>>, v) <=> SameTime(f, k, v)
         /\ f.kind = "ref" => \A k, v : Same(f, <<k>>, v) <=> k = IF v = Nil THEN 0 ELSE v[1]
         /\ f.kind = "set" => \A t, v : Same(f, t, v) <=> SameSet(t, v)
         /\ f.kind = "enum" => \A k, v : Same(f, <<k>>, v) <=> k = Index(v[1])
         /\ f.kind \in {"fakeDelete", "string", "bytes", "json", "refsMany"} => \A t, v : Same(f, t, v) <=> Decode(f, t) = v
  <1> USE KindsAre DEF Kinds, Numbers, Times
  <1>1. /\ \A k : <<k>>[1] = k
        /\ \A k, n : <<k, n>>[1] = k /\ <<k, n>>[2] = n
    OBVIOUS
  <1>2. f.null => \A t, v : Same(f, t, v) <=> SamePointer(f, t, v)
    BY DEF Same
  <1>3. f.null => \A v : Same(f, <<0>>, v) <=> v = Nil
    BY <1>1, <1>2 DEF SamePointer
  <1>4. f.null => \A k, v : Same(f, <<1, k>>, v) <=>
                    v # Nil /\ SameNumber(f, DecodeNumber(f, k), IF f.kind \in Times THEN InstantOf(f, v) ELSE v[1])
    BY <1>1, <1>2 DEF SamePointer
  <1>5. f.kind \in Numbers /\ ~f.null => \A k, v : Same(f, <<k>>, v) <=> SameNumber(f, k, v[1])
    BY <1>1 DEF Same
  <1>6. f.kind \in Times /\ ~f.null => \A k, v : Same(f, <<k>>, v) <=> SameTime(f, k, v)
    BY <1>1 DEF Same
  <1>7. f.kind = "ref" => \A k, v : Same(f, <<k>>, v) <=> k = IF v = Nil THEN 0 ELSE v[1]
    BY <1>1 DEF Same
  <1>8. f.kind = "set" => \A t, v : Same(f, t, v) <=> SameSet(t, v)
    BY DEF Same
  <1>9. f.kind = "enum" => \A k, v : Same(f, <<k>>, v) <=> k = Index(v[1])
    BY <1>1 DEF Same
  <1>10. f.kind \in {"fakeDelete", "string", "bytes", "json", "refsMany"} => \A t, v : Same(f, t, v) <=> Decode(f, t) = v
    BY DEF Same
  <1> QED
    BY <1>3, <1>4, <1>5, <1>6, <1>7, <1>8, <1>9, <1>10

\* What a cache or a load has of a field is what its column says.
LEMMA ReadSays ==
  ASSUME setup \in Setups, NEW f \in FieldType, NEW c \in Col(f), NEW t \in Tok(f),
         IsKeptColumn(f, c), Agrees(f, t, c)
  PROVE  Says(f, c, Decode(f, t))
  <1> USE KindsAre DEF Kinds, Numbers, Times
  <1>0. f.kind \notin {"float", "decimal", "set", "json"} => t = FromDB(f, c)
    BY DEF Agrees
  <1>1. CASE f.kind \in {"ref", "int", "bool"}
    <2>1. f.kind \notin Many \cup Times
      BY <1>1 DEF Many
    <2>2. CASE c = Nil
      <3>1. f.null \/ f.kind = "ref"
        BY <1>1, <2>1, <2>2, ColIs, OneIs
      <3>2. t = <<0>> /\ Decode(f, <<0>>) = Nil
        BY <1>0, <1>1, <2>2, <3>1, FromDBIs, DecodeIs DEF MayBeNil
      <3> QED
        BY <1>1, <2>2, <3>2 DEF Says
    <2>3. CASE c # Nil
      <3>1. PICK n \in Int : c = <<n>> /\ (f.kind = "ref" => n # 0)
        BY <2>1, <2>3, ColIs
      <3>2. DecodeNumber(f, n) = n
        BY <2>1, NumbersAre
      <3>3. CASE f.kind = "ref"
        BY <1>0, <3>1, <3>3, FromDBIs, DecodeIs DEF Says
      <3>4. CASE f.kind # "ref"
        <4>1. t = IF f.null THEN <<1, n>> ELSE <<n>>
          BY <1>0, <1>1, <3>1, <3>4, FromDBIs
        <4>2. Decode(f, t) = <<DecodeNumber(f, n)>>
          BY <1>1, <3>4, <4>1, DecodeIs
        <4> QED
          BY <1>1, <3>1, <3>2, <4>2 DEF Says
      <3> QED
        BY <3>3, <3>4
    <2> QED
      BY <2>2, <2>3
  <1>2. CASE IsReal(f)
    <2>1. Close(Decode(f, t), c)
      BY <1>2 DEF Agrees
    <2>2. CASE Decode(f, t) = c
      BY <1>2, <2>2 DEF Says, IsReal
    <2>3. CASE Decode(f, t) # c
      <3>1. f.kind \notin Many
        BY <1>2 DEF IsReal, Many
      <3>2. PICK n \in Int : c = <<n>> /\ c[1] = n /\ c # Nil
        BY <2>1, <2>3, <3>1, ColIs DEF Close
      <3>3. Decode(f, t) \in Val(f) /\ Decode(f, t) # Nil
        BY <2>1, <2>3, DecodeType DEF Close
      <3>4. PICK k \in Int : Decode(f, t) = <<k>> /\ Decode(f, t)[1] = k
        BY <3>1, <3>3, ValIs
      <3>5. 2 * (k - n) <= Unit /\ 2 * (n - k) <= Unit /\ Unit \in Int /\ Unit > 0
        BY <2>1, <2>3, <3>2, <3>4, Constants DEF Close
      <3>6. Near(n, k)
        BY <3>5 DEF Near
      <3> QED
        BY <1>2, <3>2, <3>3, <3>4, <3>6 DEF Says, IsReal
    <2> QED
      BY <2>2, <2>3
  <1>3. CASE f.kind \in Times
    <2>1. t = FromDB(f, c)
      BY <1>0, <1>3
    <2>2. CASE f.null /\ c = Nil /\ Decode(f, t) = Nil
      BY <1>3, <2>2 DEF Says
    <2>3. CASE c = <<ZeroTime>> /\ Decode(f, t) = <<ZeroTime>>
      <3>1. Format(f, ZeroTime) = ZeroTime /\ Decode(f, t) # Nil /\ Decode(f, t)[1] = ZeroTime
        BY <1>3, <2>3, OneIs, Zeros DEF IsTime
      <3> QED
        BY <1>3, <2>3, <3>1, AtHome DEF Says
    <2>4. ASSUME NEW n \in Int, NEW x \in Int, c = <<n>>, Format(f, x) = n, Decode(f, t) = <<x>>
          PROVE Says(f, c, Decode(f, t))
      <3>1. Decode(f, t) # Nil /\ Decode(f, t)[1] = x
        BY <2>4, OneIs
      <3> QED
        BY <1>3, <2>4, <3>1, AtHome DEF Says
    <2> QED
      BY <1>3, <2>1, <2>2, <2>3, <2>4, TimesAgree
  <1>4. CASE f.kind = "fakeDelete"
    <2>1. PICK n \in Int : c = <<n>> /\ c[1] = n
      BY <1>4, ColIs DEF Many
    <2>2. Decode(f, t) = <<IF n > 0 THEN 1 ELSE 0>>
      BY <1>0, <1>4, <2>1, FromDBIs, DecodeIs
    <2>3. Decode(f, t)[1] = IF n > 0 THEN 1 ELSE 0
      BY <2>2
    <2> QED
      BY <1>4, <2>1, <2>3 DEF Says
  <1>5. CASE f.kind \in {"string", "bytes"}
    <2>1. CASE c = Nil
      <3>1. t = <<0>> /\ Decode(f, <<0>>) = <<0>>
        BY <1>0, <1>5, <2>1, FromDBIs, DecodeIs
      <3> QED
        BY <1>5, <2>1, <3>1 DEF Says
    <2>2. CASE c # Nil
      <3>1. PICK n \in Int : c = <<n>>
        BY <1>5, <2>2, ColIs DEF Many
      <3>2. Decode(f, t) = <<n>>
        <4>1. t = IF n = 0 THEN <<0>> ELSE <<1, n>>
          BY <1>0, <1>5, <3>1, FromDBIs
        <4> QED
          BY <1>5, <4>1, DecodeIs
      <3> QED
        BY <1>5, <3>1, <3>2 DEF Says
    <2> QED
      BY <2>1, <2>2
  <1>6. CASE f.kind = "enum"
    <2>1. CASE c = Nil
      <3>1. t = <<0>> /\ Decode(f, t) = t
        BY <1>0, <1>6, <2>1, FromDBIs, DecodeIs
      <3> QED
        BY <1>6, <2>1, <3>1 DEF Says
    <2>2. CASE c # Nil
      <3>1. PICK n \in Int : c = <<n>> /\ c[1] = n
        BY <1>6, <2>2, ColIs DEF Many
      <3>2. n \in Members
        BY <1>6, <2>2, <3>1 DEF IsKeptColumn
      <3>3. Index(n) = n
        BY <3>2, IndexIs DEF Members
      <3>4. Decode(f, t) = <<n>>
        BY <1>0, <1>6, <3>1, <3>3, FromDBIs, DecodeIs
      <3> QED
        BY <1>6, <3>1, <3>4 DEF Says
    <2> QED
      BY <2>1, <2>2
  <1>7. CASE f.kind = "set"
    <2>1. Decode(f, t) = Tail(t) /\ ToSet(Tail(t)) = ToSet(Listed(c))
      BY <1>7, DecodeIs DEF Agrees, Many
    <2> QED
      BY <1>7, <2>1 DEF Says
  <1>8. CASE f.kind = "json"
    <2>1. Decode(f, t) = Decode(f, FromDB(f, c))
      BY <1>8 DEF Agrees
    <2>2. CASE c = Nil
      <3>1. FromDB(f, c) = <<0>> /\ Decode(f, <<0>>) = Nil
        BY <1>8, <2>2, FromDBIs, DecodeIs DEF MayBeNil
      <3> QED
        BY <1>8, <2>1, <2>2, <3>1 DEF Says
    <2>3. CASE c # Nil
      <3>1. PICK n \in Int : c = <<n>> /\ c[1] = n
        BY <1>8, <2>3, ColIs DEF Many
      <3>2. Decode(f, t) = <<Parsed(n)>>
        BY <1>8, <2>1, <3>1, FromDBIs, DecodeIs
      <3>3. Decode(f, t) # Nil /\ Decode(f, t)[1] = Parsed(n)
        BY <3>2, OneIs
      <3> QED
        BY <1>8, <2>3, <3>1, <3>3 DEF Says
    <2> QED
      BY <2>2, <2>3
  <1>9. CASE f.kind = "refsMany"
    <2>1. Decode(f, t) = Tail(t) /\ t = FromDB(f, c)
      BY <1>0, <1>9, DecodeIs DEF Many
    <2>2. CASE c = Nil
      <3>1. t = <<0>> /\ Listed(c) = << >> /\ Tail(<<0>>) = << >>
        BY <1>9, <2>1, <2>2, FromDBIs, OneIs DEF Many, Listed
      <3> QED
        BY <1>9, <2>1, <3>1 DEF Says
    <2>3. CASE c # Nil
      <3>1. PICK s \in Seq(Int) : c = <<Mark>> \o s
        BY <1>9, <2>3, ColIs DEF Many
      <3>2. t = Prefixed(s) /\ Listed(c) = s
        BY <1>9, <2>1, <3>1, FromDBIs, ListedIs
      <3>3. Tail(Prefixed(s)) = s
        BY PrefixedSeq
      <3> QED
        BY <1>9, <2>1, <3>2, <3>3 DEF Says
    <2> QED
      BY <2>2, <2>3
  <1> QED
    BY <1>1, <1>2, <1>3, <1>4, <1>5, <1>6, <1>7, <1>8, <1>9 DEF IsReal

\* An entity that was just loaded is not dirty.
LEMMA DecodedSame ==
  ASSUME setup \in Setups, NEW f \in FieldType, NEW t \in Tok(f), Proper(f, t)
  PROVE  Same(f, t, Decode(f, t))
  <1> USE KindsAre DEF Kinds, Numbers, Times
  <1>1. ASSUME NEW d \in Int PROVE SameNumber(f, d, d)
    <2>1. d - d < Unit
      BY Constants
    <2> QED
      BY <2>1 DEF SameNumber
  <1>2. CASE f.null
    <2>1. f.kind \notin Many /\ ~IsSingle(f)
      BY <1>2 DEF Many, IsSingle
    <2>2. CASE t = <<0>>
      BY <1>2, <2>2, DecodeIs, SameIs
    <2>3. CASE t # <<0>>
      <3>1. PICK k \in Int : t = <<1, k>>
        BY <2>1, <2>3, TokIs
      <3> DEFINE d == DecodeNumber(f, k)
      <3>2. d \in Int /\ Decode(f, t) = <<d>>
        BY <1>2, <3>1, NumbersAre, DecodeIs
      <3> HIDE DEF d
      <3>3. <<d>> # Nil /\ <<d>>[1] = d
        BY OneIs
      <3>4. f.kind = "date" => StartOfDay(d) = d
        BY <3>2, <3>3 DEF Proper
      <3>5. SameNumber(f, d, IF f.kind \in Times THEN InstantOf(f, <<d>>) ELSE d)
        BY <1>1, <3>2, <3>4, AtHome DEF Instant
      <3> QED
        BY <1>2, <3>1, <3>2, <3>3, <3>5, SameIs DEF d
    <2> QED
      BY <2>2, <2>3
  <1>3. CASE IsSingle(f)
    <2>1. PICK k \in Int : t = <<k>> /\ (f.kind = "enum" => k \in 0 .. 2)
      BY <1>3, TokIs
    <2>2. CASE f.kind \in Numbers
      <3>1. DecodeNumber(f, k) = k /\ <<k>>[1] = k
        BY <2>2, NumbersAre
      <3>2. Decode(f, t) = <<k>>
        BY <1>3, <2>1, <2>2, <3>1, DecodeIs DEF IsSingle
      <3> QED
        BY <1>1, <1>3, <2>1, <2>2, <3>1, <3>2, SameIs DEF IsSingle
    <2>3. CASE f.kind \in Times
      <3>1. ~f.null /\ Decode(f, t) = <<k - TimeStampSeconds>>
        BY <1>3, <2>1, <2>3, TimesDecoded DEF IsSingle
      <3>2. <<k - TimeStampSeconds>> # Nil /\ <<k - TimeStampSeconds>>[1] = k - TimeStampSeconds
        BY OneIs
      <3>3. f.kind = "date" => StartOfDay(k - TimeStampSeconds) = k - TimeStampSeconds
        BY <3>1, <3>2 DEF Proper
      <3>4. Instant(f, k - TimeStampSeconds) = k - TimeStampSeconds
        BY <3>3 DEF Instant
      <3>5. SameTime(f, k, <<k - TimeStampSeconds>>)
        BY <3>2, <3>4, AtHome, DecodeZero DEF SameTime, OldTime, IsZero
      <3> QED
        BY <2>1, <2>3, <3>1, <3>2, <3>5, SameIs
    <2>4. CASE f.kind = "ref"
      <3>1. Decode(f, t) = IF k = 0 THEN Nil ELSE <<k>>
        BY <2>1, <2>4, DecodeIs
      <3>2. <<k>> # Nil /\ <<k>>[1] = k
        BY OneIs
      <3> QED
        BY <2>1, <2>4, <3>1, <3>2, SameIs
    <2>5. CASE f.kind = "enum"
      <3>1. Decode(f, t) = <<k>> /\ <<k>>[1] = k /\ Index(k) = k
        BY <2>1, <2>5, DecodeIs, IndexIs
      <3> QED
        BY <2>1, <2>5, <3>1, SameIs
    <2>6. CASE f.kind = "fakeDelete"
      BY <2>6, SameIs
    <2> QED
      BY <1>3, <2>2, <2>3, <2>4, <2>5, <2>6 DEF IsSingle, Many
  <1>4. CASE f.kind = "set"
    <2>1. PICK s \in Seq(Int) : t = Prefixed(s) /\ s \in Seq(0 .. 2)
      BY <1>4, TokIs DEF Many
    <2>2. t[1] = Len(s) /\ Tail(t) = s /\ Decode(f, t) = s
      BY <1>4, <2>1, PrefixedSeq, DecodeIs DEF Many
    <2>3. \A i \in DOMAIN s : s[i] \in 0 .. 2 /\ s[i] \in ToSet(s)
      BY <2>1 DEF ToSet
    <2>4. \A i \in DOMAIN s : Index(s[i]) \in ToSet(s)
      BY <2>3, IndexIs
    <2>5. SameSet(t, s)
      BY <2>2, <2>4 DEF SameSet
    <2> QED
      BY <1>4, <2>2, <2>5, SameIs
  <1>5. CASE f.kind \in {"string", "bytes", "json", "refsMany"}
    BY <1>5, SameIs
  <1> QED
    BY <1>2, <1>3, <1>4, <1>5 DEF IsSingle, Many

\* An entity that was just written is not dirty.
LEMMA EncodedSame ==
  ASSUME setup \in Setups, NEW f \in FieldType, NEW v \in Val(f), IsKept(f, v)
  PROVE  Same(f, Encode(f, v), v)
  <1> USE KindsAre DEF Kinds, Numbers, Times
  <1>1. CASE v = Nil /\ f.kind \notin Many
    <2>1. MayBeNil(f)
      BY <1>1, ValIs, OneIs
    <2>2. Encode(f, v) = <<0>>
      BY <1>1, <2>1, EncodeIs DEF MayBeNil
    <2> QED
      BY <1>1, <2>1, <2>2, SameIs, DecodeIs DEF MayBeNil
  <1>2. ASSUME NEW n \in Int, v = <<n>>, v[1] = n, v # Nil, f.kind \notin Many
        PROVE  Same(f, Encode(f, v), v)
    <2>1. CASE f.kind \in Numbers
      <3>1. EncodeNumber(f, n) \in Int /\ DecodeNumber(f, EncodeNumber(f, n)) = EncodeNumber(f, n)
        BY <2>1, NumbersAre
      <3>2. SameNumber(f, EncodeNumber(f, n), n)
        <4>1. CASE f.kind \in {"int", "bool"}
          BY <4>1, NumbersAre DEF SameNumber
        <4>2. CASE IsReal(f)
          <5>1. EncodeNumber(f, n) = Round(n)
            BY <4>2, NumbersAre DEF IsReal
          <5>2. n - Round(n) < Unit /\ Round(n) - n < Unit
            BY RoundIs, Constants
          <5> QED
            BY <4>2, <5>1, <5>2 DEF SameNumber, IsReal
        <4> QED
          BY <2>1, <4>1, <4>2 DEF IsReal
      <3>3. Encode(f, v) = IF f.null THEN <<1, EncodeNumber(f, n)>> ELSE <<EncodeNumber(f, n)>>
        BY <1>2, <2>1, EncodeIs
      <3>4. CASE f.null
        <4>1. Same(f, <<1, EncodeNumber(f, n)>>, v) <=> SameNumber(f, DecodeNumber(f, EncodeNumber(f, n)), n)
          BY <1>2, <2>1, <3>4, SameIs
        <4> QED
          BY <3>1, <3>2, <3>3, <3>4, <4>1
      <3>5. CASE ~f.null
        BY <1>2, <2>1, <3>2, <3>3, <3>5, SameIs
      <3> QED
        BY <3>4, <3>5
    <2>2. CASE f.kind \in Times
      <3>1. IsKeptTime(f, n) \/ (n = ZeroTime /\ ~f.null)
        BY <1>2, <2>2, AtHome DEF IsKept, IsKeptTime
      <3>2. Encode(f, v) = IF f.null THEN <<1, TimeToken(f, n)>> ELSE <<TimeToken(f, n)>>
        BY <1>2, <2>2, EncodeIs, NumbersAre
      <3>3. CASE IsKeptTime(f, n)
        <4>1. Instant(f, n) > 0 /\ Instant(f, n) \in Int /\ TimeToken(f, n) \in Int
              /\ TimeToken(f, n) - TimeStampSeconds = Instant(f, n) /\ TimeToken(f, n) # ZeroDateSeconds
          <5>1. Instant(f, n) > 0
            BY <3>3 DEF IsKeptTime, IsKeptInstant
          <5>2. Instant(f, n) \in Int
            BY InstantOnce
          <5> QED
            BY <5>1, <5>2, TimeTokenIs, DecodeZero
        <4>2. CASE f.null
          <5>1. DecodeNumber(f, TimeToken(f, n)) = Instant(f, n)
            BY <2>2, <4>1, NumbersAre
          <5>2. SameNumber(f, Instant(f, n), Instant(f, n))
            BY <2>2 DEF SameNumber
          <5>3. Same(f, <<1, TimeToken(f, n)>>, v) <=>
                  SameNumber(f, DecodeNumber(f, TimeToken(f, n)), Instant(f, n))
            BY <1>2, <2>2, <4>2, AtHome, SameIs
          <5> QED
            BY <3>2, <4>2, <5>1, <5>2, <5>3
        <4>3. CASE ~f.null
          <5>1. SameTime(f, TimeToken(f, n), v)
            BY <1>2, <4>1, AtHome DEF SameTime, OldTime
          <5> QED
            BY <1>2, <2>2, <3>2, <4>3, <5>1, SameIs
        <4> QED
          BY <4>2, <4>3
      <3>4. CASE n = ZeroTime /\ ~f.null
        <4>1. TimeToken(f, n) = ZeroDateSeconds
          BY <2>2, <3>4, Zeros, TimeTokenIs, DecodeZero DEF IsTime
        <4>2. SameTime(f, TimeToken(f, n), v)
          BY <1>2, <3>4, <4>1 DEF SameTime, OldTime, IsZero
        <4> QED
          BY <1>2, <2>2, <3>2, <3>4, <4>2, SameIs
      <3> QED
        BY <3>1, <3>3, <3>4
    <2>3. CASE f.kind \in {"ref", "enum"}
      BY <1>2, <2>3, EncodeIs, SameIs
    <2>4. CASE f.kind = "fakeDelete"
      BY <2>4, EncodeIs, DecodeIs, SameIs
    <2>5. CASE f.kind \in {"string", "bytes"}
      <3>1. Encode(f, v) = IF n = 0 THEN <<0>> ELSE <<1, n>>
        BY <1>2, <2>5, EncodeIs
      <3>2. Decode(f, Encode(f, v)) = v
        BY <1>2, <2>5, <3>1, DecodeIs
      <3> QED
        BY <2>5, <3>2, SameIs
    <2>6. CASE f.kind = "json"
      <3>1. Encode(f, v) = <<1, GoText(n)>> /\ Parsed(GoText(n)) = n
        BY <1>2, <2>6, EncodeIs, NumbersAre
      <3>2. Decode(f, Encode(f, v)) = v
        BY <1>2, <2>6, <3>1, DecodeIs
      <3> QED
        BY <2>6, <3>2, SameIs
    <2> QED
      BY <1>2, <2>1, <2>2, <2>3, <2>4, <2>5, <2>6 DEF Many
  <1>3. CASE f.kind = "set"
    <2>1. v \in Seq(Int) /\ Encode(f, v) = Prefixed(IndexAll(v)) /\ IndexAll(v) \in Seq(Int) /\ Len(IndexAll(v)) = Len(v)
      <3>1. v \in Seq(Int)
        BY ValIs
      <3> QED
        BY <1>3, <3>1, EncodeIs, IndexIs
    <2>2. Encode(f, v)[1] = Len(v) /\ Tail(Encode(f, v)) = IndexAll(v)
      BY <2>1, PrefixedSeq
    <2>3. \A i \in DOMAIN v : Index(v[i]) \in ToSet(IndexAll(v))
      BY SMTT(30), <2>1 DEF IndexAll, ToSet
    <2>4. SameSet(Encode(f, v), v)
      BY <2>2, <2>3 DEF SameSet
    <2> QED
      BY <1>3, <2>4, SameIs
  <1>4. CASE f.kind = "refsMany"
    <2>1. Encode(f, v) = Prefixed(v) /\ v \in Seq(Int)
      BY <1>4, EncodeIs, ValIs
    <2>2. Decode(f, Encode(f, v)) = v
      BY ZenonT(40), <1>4, <2>1, PrefixedSeq, DecodeIs DEF Many
    <2> QED
      BY <1>4, <2>2, SameIs
  <1> QED
    BY <1>1, <1>2, <1>3, <1>4, ValIs DEF Many

\* A field that is not dirty holds what its binary form does, when that is exact.
LEMMA SameDecodes ==
  ASSUME setup \in Setups, NEW f \in FieldType, NEW t \in Tok(f), NEW v \in Val(f), Same(f, t, v), IsKept(f, v),
         f.kind \notin Times \cup {"float", "decimal", "set"}
  PROVE  Decode(f, t) = v
  <1> USE KindsAre DEF Kinds, Numbers, Times
  <1>1. CASE f.kind \in {"fakeDelete", "string", "bytes", "json", "refsMany"}
    BY <1>1, SameIs
  <1>2. CASE f.kind = "ref"
    <2>1. PICK k \in Int : t = <<k>>
      BY <1>2, TokIs DEF IsSingle, Many
    <2>2. k = IF v = Nil THEN 0 ELSE v[1]
      BY <1>2, <2>1, SameIs
    <2>3. v = Nil \/ \E n \in Int : v = <<n>> /\ v[1] = n /\ n # 0
      BY <1>2, ValIs DEF Many
    <2> QED
      BY <1>2, <2>1, <2>2, <2>3, DecodeIs
  <1>3. CASE f.kind = "enum"
    <2>1. PICK k \in Int : t = <<k>>
      BY <1>3, TokIs DEF IsSingle, Many
    <2>2. PICK n \in Int : v = <<n>> /\ v[1] = n
      BY <1>3, ValIs DEF Many, MayBeNil
    <2>3. n \in 0 .. 2
      BY <1>3, <2>2 DEF IsKept, Members
    <2>4. k = Index(n) /\ Index(n) = n
      BY <1>3, <2>1, <2>2, <2>3, SameIs, IndexIs
    <2> QED
      BY <1>3, <2>1, <2>2, <2>4, DecodeIs
  <1>4. CASE f.kind \in {"int", "bool"} /\ f.null
    <2>0. f.kind \notin Many /\ ~IsSingle(f)
      BY <1>4 DEF Many, IsSingle
    <2>1. CASE t = <<0>>
      BY <1>4, <2>1, SameIs, DecodeIs
    <2>2. CASE t # <<0>>
      <3>1. PICK k \in Int : t = <<1, k>>
        BY <2>0, <2>2, TokIs
      <3>2. v # Nil /\ SameNumber(f, DecodeNumber(f, k), v[1])
        BY <1>4, <3>1, SameIs
      <3>3. PICK n \in Int : v = <<n>> /\ v[1] = n
        BY <2>0, <3>2, ValIs
      <3>4. DecodeNumber(f, k) = n
        BY <1>4, <3>2, <3>3 DEF SameNumber
      <3> QED
        BY <1>4, <3>1, <3>3, <3>4, DecodeIs
    <2> QED
      BY <2>1, <2>2
  <1>5. CASE f.kind \in {"int", "bool"} /\ ~f.null
    <2>1. PICK k \in Int : t = <<k>>
      BY <1>5, TokIs DEF IsSingle, Many
    <2>2. PICK n \in Int : v = <<n>> /\ v[1] = n
      BY <1>5, ValIs DEF Many, MayBeNil
    <2>3. SameNumber(f, k, n)
      BY <1>5, <2>1, <2>2, SameIs
    <2>4. k = n /\ DecodeNumber(f, k) = k
      BY <1>5, <2>3, NumbersAre DEF SameNumber
    <2> QED
      BY <1>5, <2>1, <2>2, <2>4, DecodeIs
  <1> QED
    BY <1>1, <1>2, <1>3, <1>4, <1>5

\* As many as there are, none of them twice and none that is not there, are all.
LEMMA AllThere ==
  ASSUME NEW s \in Seq(Int), NEW v \in Seq(Int), IsInjective(v), Len(v) = Len(s),
         ToSet(v) \subseteq ToSet(s), ToSet(s) \subseteq {1, 2}
  PROVE  ToSet(v) = ToSet(s)
  <1> SUFFICES ASSUME NEW k \in ToSet(s), k \notin ToSet(v) PROVE FALSE
    OBVIOUS
  <1>1. PICK i \in 1 .. Len(s) : s[i] = k
    BY DEF ToSet
  <1>2. v[1] \in ToSet(v)
    BY <1>1 DEF ToSet
  <1>3. v[1] \in ToSet(s) /\ v[1] # k
    BY <1>2
  <1>4. PICK j \in 1 .. Len(s) : s[j] = v[1]
    BY <1>3 DEF ToSet
  <1>5. i # j /\ Len(s) >= 2
    BY <1>1, <1>3, <1>4
  <1>6. v[2] \in ToSet(v) /\ 2 \in DOMAIN v /\ 1 \in DOMAIN v
    BY SMTT(30), <1>5 DEF ToSet
  <1>7. v[2] = v[1]
    BY <1>3, <1>6
  <1> QED
    BY <1>6, <1>7 DEF IsInjective

\* A field that is not dirty is what its column says.
LEMMA CleanSays ==
  ASSUME setup \in Setups, NEW f \in FieldType, NEW c \in Col(f), NEW t \in Tok(f), NEW v \in Val(f),
         IsKeptColumn(f, c), Agrees(f, t, c), Same(f, t, v), IsKept(f, v)
  PROVE  Says(f, c, v)
  <1> USE KindsAre DEF Kinds, Numbers, Times
  <1>1. CASE f.kind \notin Times \cup {"float", "decimal", "set"}
    BY <1>1, SameDecodes, ReadSays
  <1>2. CASE IsReal(f)
    <2>0. f.kind \notin Many \cup Times /\ f.kind \in Numbers
      BY <1>2 DEF Many, IsReal
    <2>1. Close(Decode(f, t), c)
      BY <1>2 DEF Agrees
    <2>2. CASE f.null /\ t = <<0>>
      <3>1. v = Nil /\ Decode(f, t) = Nil
        BY <2>2, SameIs, DecodeIs
      <3> QED
        BY <1>2, <2>1, <3>1 DEF Close, Says, IsReal
    <2>3. ASSUME NEW k \in Int, Decode(f, t) = <<k>>, v # Nil, SameNumber(f, k, v[1])
          PROVE  Says(f, c, v)
      <3>1. PICK n \in Int : v = <<n>> /\ v[1] = n
        BY <2>0, <2>3, ValIs
      <3>2. Decode(f, t) # Nil /\ Decode(f, t)[1] = k
        BY <2>3, OneIs
      <3>3. PICK m \in Int : c = <<m>> /\ c[1] = m /\ c # Nil
        BY <2>0, <2>1, <3>2, ColIs DEF Close
      <3>4. 2 * (k - m) <= Unit /\ 2 * (m - k) <= Unit /\ Unit \in Int /\ Unit > 0
        BY <2>1, <2>3, <3>2, <3>3, Constants DEF Close
      <3>5. n - k < Unit /\ k - n < Unit
        BY <1>2, <2>3, <3>1 DEF SameNumber, IsReal
      <3>6. Near(m, n)
        BY <3>4, <3>5 DEF Near
      <3> QED
        BY <1>2, <2>3, <3>1, <3>3, <3>6 DEF Says, IsReal
    <2>4. CASE f.null /\ t # <<0>>
      <3>1. PICK k \in Int : t = <<1, k>>
        BY <2>0, <2>4, TokIs DEF IsSingle
      <3>2. DecodeNumber(f, k) = k
        BY <2>0, NumbersAre
      <3>3. Decode(f, t) = <<k>> /\ v # Nil /\ SameNumber(f, k, v[1])
        BY <1>2, <2>4, <3>1, <3>2, SameIs, DecodeIs DEF IsReal
      <3> QED
        BY <2>3, <3>3
    <2>5. CASE ~f.null
      <3>1. PICK k \in Int : t = <<k>>
        BY <1>2, <2>0, <2>5, TokIs DEF IsSingle, IsReal
      <3>2. DecodeNumber(f, k) = k
        BY <2>0, NumbersAre
      <3>3. Decode(f, t) = <<k>> /\ SameNumber(f, k, v[1])
        BY <2>0, <2>5, <3>1, <3>2, SameIs, DecodeIs
      <3>4. v # Nil
        BY <1>2, <2>5, ValIs, OneIs DEF MayBeNil, IsReal, Many
      <3> QED
        BY <2>3, <3>3, <3>4
    <2> QED
      BY <2>2, <2>4, <2>5
  <1>3. CASE f.kind \in Times
    <2>0. t = FromDB(f, c) /\ f.kind \notin Many
      BY <1>3 DEF Agrees, Many
    <2>1. CASE f.null /\ c = Nil /\ t = <<0>>
      BY <1>3, <2>1, SameIs DEF Says
    <2>2. CASE ~f.null /\ c = <<ZeroTime>> /\ t = <<ZeroDateSeconds>>
      <3>1. PICK n \in Int : v = <<n>> /\ v[1] = n /\ v # Nil
        BY <1>3, <2>0, <2>2, ValIs DEF MayBeNil
      <3>2. SameTime(f, ZeroDateSeconds, v)
        BY <1>3, <2>2, <3>1, SameIs
      <3>3. IsZero(n) \/ Instant(f, n) = 0
        BY <3>1, <3>2, AtHome DEF SameTime, OldTime
      <3>4. Instant(f, n) > 0 \/ n = ZeroTime
        BY <1>3, <3>1, AtHome DEF IsKept, IsKeptInstant
      <3>5. IsTime(f) /\ ~(Instant(f, Year1000) > 0)
        <4>1. IsTime(f)
          BY <1>3 DEF IsTime
        <4>2. Instant(f, Year1000) < 0 /\ Instant(f, Year1000) \in Int
          BY <4>1, Zeros, InstantOnce, Constants
        <4> QED
          BY <4>1, <4>2
      <3>6. n = ZeroTime
        BY <3>3, <3>4, <3>5 DEF IsZero
      <3>7. Format(f, n) = ZeroTime
        BY <3>5, <3>6, Zeros
      <3> QED
        BY <1>3, <2>2, <3>1, <3>7, AtHome DEF Says
    <2>3. ASSUME NEW n \in Int, NEW x \in Int, NEW k \in Int,
                 c = <<n>>, IsDay(f, n), x = n - TimeOffset, IsKeptTime(f, x), x > 0,
                 k - TimeStampSeconds = x, k # ZeroDateSeconds, t = IF f.null THEN <<1, k>> ELSE <<k>>
          PROVE  Says(f, c, v)
      <3>1. v # Nil
        <4>1. CASE f.null
          BY <1>3, <2>3, <4>1, SameIs
        <4>2. CASE ~f.null
          BY <1>3, <2>0, <4>2, ValIs DEF MayBeNil
        <4> QED
          BY <4>1, <4>2
      <3>2. PICK m \in Int : v = <<m>> /\ v[1] = m
        BY <2>0, <3>1, ValIs
      <3>3. Instant(f, m) = x
        <4>1. CASE f.null
          <5>1. SameNumber(f, DecodeNumber(f, k), Instant(f, m))
            BY <1>3, <2>3, <3>2, <4>1, AtHome, SameIs
          <5>2. DecodeNumber(f, k) = x
            BY <1>3, <2>3, NumbersAre
          <5> QED
            BY <1>3, <5>1, <5>2 DEF SameNumber
        <4>2. CASE ~f.null
          <5>1. SameTime(f, k, v)
            BY <1>3, <2>3, <3>2, <4>2, SameIs
          <5> QED
            BY <2>3, <3>2, <5>1, AtHome DEF SameTime, OldTime
        <4> QED
          BY <4>1, <4>2
      <3>4. Format(f, m) = n
        BY <1>3, <2>3, <3>3, SameColumn DEF IsTime
      <3> QED
        BY <1>3, <2>3, <3>1, <3>2, <3>4, AtHome DEF Says
    <2> QED
      BY <1>3, <2>0, <2>1, <2>2, <2>3, TimesAgree
  <1>4. CASE f.kind = "set"
    <2>1. PICK s \in Seq(Int) : t = Prefixed(s)
      BY <1>4, TokIs DEF Many
    <2>2. t[1] = Len(s) /\ Tail(t) = s
      BY <2>1, PrefixedSeq
    <2>3. ToSet(s) = ToSet(Listed(c))
      BY <1>4, <2>2 DEF Agrees
    <2>4. ToSet(Listed(c)) \subseteq {1, 2}
      <3>1. CASE c = Nil
        BY <3>1 DEF Listed, ToSet
      <3>2. CASE c # Nil
        <4>1. PICK r \in Seq(Int) : c = <<Mark>> \o r /\ r \in Seq(Members)
          BY <1>4, <3>2, ColIs DEF Many
        <4>2. Listed(c) = r
          BY <4>1, ListedIs
        <4> QED
          BY <4>1, <4>2 DEF ToSet, Members
      <3> QED
        BY <3>1, <3>2
    <2>5. v \in Seq(Int) /\ ToSet(v) \subseteq Members /\ IsInjective(v)
      BY <1>4, ValIs DEF IsKept
    <2>6. Len(v) = Len(s) /\ \A i \in DOMAIN v : Index(v[i]) \in ToSet(s)
      BY <1>4, <2>2, SameIs DEF SameSet
    <2>7. ToSet(v) \subseteq ToSet(s)
      <3>1. \A i \in DOMAIN v : v[i] \in Members
        BY <2>5 DEF ToSet
      <3>2. \A i \in DOMAIN v : Index(v[i]) = v[i]
        BY <3>1 DEF Index
      <3> QED
        BY <2>6, <3>2 DEF ToSet
    <2>8. ToSet(v) = ToSet(s)
      BY <2>3, <2>4, <2>5, <2>6, <2>7, AllThere
    <2> QED
      BY <1>4, <2>3, <2>8 DEF Says
  <1> QED
    BY <1>1, <1>2, <1>3, <1>4 DEF IsReal

\* The old value that a log gets is what the column is read as.
LEMMA BeforeSays ==
  ASSUME setup \in Setups, NEW f \in FieldType, NEW c \in Col(f), NEW t \in Tok(f), NEW v \in Val(f),
         IsKeptColumn(f, c), Agrees(f, t, c), ~IsForgotten(f, t, v)
  PROVE  Says(f, Before(f, t, v), Decode(f, FromDB(f, c)))
  <1> USE KindsAre DEF Kinds, Numbers, Times
  <1> DEFINE old == Decode(f, t)
             d == Decode(f, FromDB(f, c))
             missing == IF f.req THEN <<0>> ELSE Nil
  <1>0. /\ f.kind \notin {"float", "decimal", "set"} => old = d
        /\ old \in Val(f) /\ d \in Val(f) /\ FromDB(f, c) \in Tok(f)
    BY DecodeType, FromDBType DEF Agrees
  <1>00. Listed(<<0>>) = << >> /\ Listed(Nil) = << >> /\ << >> = Nil
    BY OneIs DEF Listed, Nil
  <1> HIDE DEF old, d
  <1>1. CASE f.kind \in {"ref", "int", "bool"}
    <2>1. Before(f, t, v) = old
      BY <1>1 DEF Before, old
    <2> QED
      BY <1>0, <1>1, <2>1 DEF Says, d
  <1>2. CASE IsReal(f)
    <2>0. f.kind \in Numbers /\ f.kind \notin Many \cup Times
      BY <1>2 DEF IsReal, Many
    <2>1. Before(f, t, v) = old
      BY <2>0 DEF Before, old
    <2>2. Close(old, c)
      BY <1>2 DEF Agrees, old
    <2>3. d = c
      <3>1. CASE c = Nil
        <4>1. f.null
          BY <2>0, <3>1, ColIs, OneIs
        <4> QED
          BY <3>1, <4>1, FromDBIs, DecodeIs DEF MayBeNil, d
      <3>2. CASE c # Nil
        <4>1. PICK n \in Int : c = <<n>>
          BY <2>0, <3>2, ColIs
        <4>2. FromDB(f, c) = (IF f.null THEN <<1, n>> ELSE <<n>>) /\ DecodeNumber(f, n) = n
          BY <2>0, <4>1, FromDBIs, NumbersAre
        <4>3. d = <<DecodeNumber(f, n)>>
          BY <2>0, <4>2, DecodeIs DEF d
        <4> QED
          BY <4>1, <4>2, <4>3
      <3> QED
        BY <3>1, <3>2
    <2>4. CASE old = c
      BY <1>2, <2>1, <2>3, <2>4 DEF Says, IsReal, d
    <2>5. CASE old # c
      <3>1. old # Nil /\ c # Nil
        BY <2>2, <2>5 DEF Close
      <3>2. PICK n \in Int : c[1] = n
        BY <2>0, <3>1, ColIs
      <3>3. PICK k \in Int : old[1] = k
        BY <1>0, <2>0, <3>1, ValIs
      <3>4. 2 * (k - n) <= Unit /\ 2 * (n - k) <= Unit /\ Unit \in Int /\ Unit > 0
        BY <2>2, <2>5, <3>2, <3>3, Constants DEF Close
      <3>5. Near(k, n)
        BY <3>4 DEF Near
      <3> QED
        BY <1>2, <2>1, <2>3, <3>1, <3>2, <3>3, <3>5 DEF Says, IsReal, d
    <2> QED
      BY <2>4, <2>5
  <1>3. CASE f.kind \in Times
    <2>0. old = d /\ t = FromDB(f, c)
      BY <1>0, <1>3 DEF Agrees
    <2>1. Before(f, t, v) = IF old = Nil THEN Nil ELSE <<BeforeTime(f, Last(t))>>
      BY <1>3 DEF Before, old
    <2>2. CASE old = Nil
      BY <1>3, <2>0, <2>1, <2>2 DEF Says, d
    <2>3. ASSUME NEW x \in Int, NEW k \in Int, k - TimeStampSeconds = x, k # ZeroDateSeconds,
                 t = IF f.null THEN <<1, k>> ELSE <<k>>, old = <<x>>
          PROVE  Says(f, Before(f, t, v), d)
      <3>1. Last(t) = k
        BY <2>3 DEF Last
      <3>2. BeforeTime(f, k) = Format(f, x)
        BY <2>3 DEF BeforeTime, OldTime
      <3>3. old # Nil /\ old[1] = x
        BY <2>3, OneIs
      <3>4. Text(f, old) = Format(f, x)
        BY <2>3, AtHome
      <3> QED
        BY <1>3, <2>0, <2>1, <3>1, <3>2, <3>3, <3>4 DEF Says
    <2>4. old # <<ZeroTime>>
      BY <1>3 DEF IsForgotten, old
    <2>5. \/ old = Nil
          \/ \E x \in Int, k \in Int : /\ k - TimeStampSeconds = x /\ k # ZeroDateSeconds
                                       /\ t = (IF f.null THEN <<1, k>> ELSE <<k>>) /\ old = <<x>>
      BY <1>3, <2>0, <2>4, TimesAgree DEF old
    <2> QED
      BY <2>2, <2>3, <2>5 DEF d
  <1>4. CASE f.kind = "fakeDelete"
    <2>1. PICK n \in {0, 1} : old = <<n>> /\ old[1] = n
      BY <1>0, <1>4, ValIs DEF Many, MayBeNil
    <2>2. Before(f, t, v) = IF old = <<0>> THEN <<0>> ELSE <<ID>>
      BY <1>4 DEF Before, old
    <2>3. Before(f, t, v)[1] > 0 <=> n = 1
      <3>1. ID > 0 /\ <<0>>[1] = 0 /\ <<ID>>[1] = ID
        BY Constants
      <3> QED
        BY <2>1, <2>2, <3>1
    <2> QED
      BY <1>0, <1>4, <2>1, <2>3 DEF Says, d
  <1>5. CASE f.kind = "string"
    <2>1. Before(f, t, v) = IF old = <<0>> THEN missing ELSE old
      BY <1>5 DEF Before, old
    <2> QED
      BY <1>0, <1>5, <2>1 DEF Says, d
  <1>6. CASE f.kind = "enum"
    <2>1. Before(f, t, v) = IF old = <<0>> THEN Nil ELSE old
      BY <1>6 DEF Before, old
    <2> QED
      BY <1>0, <1>6, <2>1 DEF Says, d
  <1>7. CASE f.kind = "bytes"
    <2>1. v = old
      BY <1>7 DEF IsForgotten, old
    <2>2. Before(f, t, v) = IF old = <<0>> THEN Nil ELSE v
      BY <1>7 DEF Before, old
    <2> QED
      BY <1>0, <1>7, <2>1, <2>2 DEF Says, d
  <1>8. CASE f.kind = "set"
    <2>1. old = Tail(t) /\ d = Tail(FromDB(f, c))
      BY <1>8, DecodeIs DEF old, d, Many
    <2>2. Len(v) = Len(old) /\ old \in Seq(Int)
      BY <1>0, <1>8, ValIs DEF IsForgotten, old
    <2>3. ToSet(old) = ToSet(d)
      <3>1. ToSet(old) = ToSet(Listed(c)) /\ ToSet(d) = ToSet(Listed(c))
        BY <1>8, <2>1, FromDBFits DEF Agrees, Fits
      <3> QED
        BY <3>1
    <2>4. Before(f, t, v) = IF old = Nil THEN missing ELSE <<Mark>> \o old
      BY <1>8, <2>2 DEF Before, old
    <2>5. ToSet(Listed(Before(f, t, v))) = ToSet(old)
      <3>1. CASE old = Nil
        BY <1>00, <2>4, <3>1
      <3>2. CASE old # Nil
        BY <2>2, <2>4, <3>2, ListedIs
      <3> QED
        BY <3>1, <3>2
    <2> QED
      BY <1>8, <2>3, <2>5 DEF Says, d
  <1>9. CASE f.kind = "json"
    <2>0. f.kind \notin Many
      BY <1>9 DEF Many
    <2>1. Before(f, t, v) = IF old = Nil THEN missing ELSE Tail(t)
      BY <1>9 DEF Before, old
    <2>2. CASE old = Nil
      <3>1. c = Nil
        <4> SUFFICES ASSUME c # Nil PROVE FALSE
          OBVIOUS
        <4>1. PICK n \in Int : c = <<n>>
          BY <2>0, ColIs
        <4>2. d = <<Parsed(n)>>
          BY <1>9, <4>1, FromDBIs, DecodeIs DEF d
        <4> QED
          BY <1>0, <1>9, <2>2, <4>2, OneIs
      <3>2. ~f.req
        BY <3>1, ColIs
      <3> QED
        BY <1>0, <1>9, <2>1, <2>2, <3>2 DEF Says, d
    <2>3. CASE old # Nil
      <3>1. t # <<0>>
        BY <1>9, <2>3, DecodeIs DEF old
      <3>2. PICK n \in Int : t = <<1, n>>
        BY <1>9, <2>0, <3>1, TokIs DEF IsSingle
      <3>3. old = <<Parsed(n)>> /\ Tail(t) = <<n>>
        BY <1>9, <3>2, DecodeIs, PrefixedIs DEF old
      <3>4. old[1] = Parsed(n) /\ Tail(t) # Nil /\ Tail(t)[1] = n
        BY <3>3, OneIs
      <3> QED
        BY <1>0, <1>9, <2>1, <2>3, <3>4 DEF Says, d
    <2> QED
      BY <2>2, <2>3
  <1>10. CASE f.kind = "refsMany"
    <2>1. v # Nil /\ old \in Seq(Int)
      BY <1>0, <1>10, ValIs DEF IsForgotten
    <2>2. Before(f, t, v) = IF old = Nil THEN missing ELSE <<Mark>> \o old
      BY <1>10, <2>1 DEF Before, old
    <2>3. Listed(Before(f, t, v)) = old
      <3>1. CASE old = Nil
        BY <1>00, <2>2, <3>1
      <3>2. CASE old # Nil
        BY <2>1, <2>2, <3>2, ListedIs
      <3> QED
        BY <3>1, <3>2
    <2> QED
      BY <1>0, <1>10, <2>3 DEF Says, d
  <1> QED
    BY <1>1, <1>2, <1>3, <1>4, <1>5, <1>6, <1>7, <1>8, <1>9, <1>10 DEF IsReal

-----------------------------------------------------------------------------
(* Times of another Location.                                               *)

LEMMA HeldIs ==
  ASSUME NEW f \in FieldType, NEW v \in Held(f)
  PROVE  /\ v \in Seq(Int)
         /\ v \in Val(f) \/ (f.kind \in Times /\ \E n \in Int : v = <<n, UTC>>)
  <1>1. v \in Val(f) \/ (f.kind \in Times /\ \E n \in Int : v = <<n, UTC>>)
    BY DEF Held
  <1>2. \A n \in Int : <<n, UTC>> \in Seq(Int)
    BY DEF UTC
  <1> QED
    BY <1>1, <1>2, ValIs

\* m is the instant that the field stands for, and its text.
LEMMA Elsewhere ==
  ASSUME NEW f \in FieldType, f.kind \in Times, NEW n \in Int, NEW v, v = <<n, UTC>>,
         NEW m, m = InstantOf(f, v)
  PROVE  /\ InUTC(f, v) /\ v # Nil /\ v # <<ZeroTime>> /\ v[1] = n
         /\ m \in Int /\ m <= n /\ IsDay(f, m) /\ Text(f, v) = m
         /\ Seconds(m) \in Int
         /\ m > 0 => Seconds(m) - TimeStampSeconds = m /\ Seconds(m) # ZeroDateSeconds
         /\ Encode(f, v) = IF f.null THEN <<1, Seconds(m)>> ELSE <<Seconds(m)>>
         /\ Written(f, v) = <<m>>
  <1> USE KindsAre DEF Kinds, Numbers, Times
  <1>1. InUTC(f, v) /\ v # Nil /\ v # <<ZeroTime>> /\ v[1] = n
    BY DEF InUTC, Nil
  <1>2. m = IF f.kind = "date" THEN Midnight(n) ELSE n
    BY <1>1 DEF InstantOf
  <1>3. m \in Int /\ m <= n /\ IsDay(f, m)
    BY <1>2, MidnightIs DEF IsDay
  <1>4. Text(f, v) = m
    BY <1>1 DEF Text
  <1>5. Seconds(m) \in Int /\ (m > 0 => Seconds(m) - TimeStampSeconds = m /\ Seconds(m) # ZeroDateSeconds)
    BY <1>3, Constants DEF Seconds
  <1>6. Encode(f, v) = IF f.null THEN <<1, Seconds(m)>> ELSE <<Seconds(m)>>
    <2>1. Encode(f, v) = IF f.null THEN Prefixed(<<Seconds(m)>>) ELSE <<Seconds(m)>>
      BY <1>1 DEF Encode
    <2> QED
      BY <2>1, PrefixedIs
  <1>7. Written(f, v) = <<m>>
    <2>1. ~IsEmpty(f, v)
      BY <1>1 DEF IsEmpty
    <2>2. Stored(f, v) = <<Text(f, v)>>
      BY DEF Stored
    <2> QED
      BY <1>4, <2>1, <2>2 DEF Written
  <1> QED
    BY <1>1, <1>3, <1>4, <1>5, <1>6, <1>7

LEMMA HeldEncodes ==
  ASSUME setup \in Setups, NEW f \in FieldType, NEW v \in Held(f)
  PROVE  Encode(f, v) \in Tok(f)
  <1>1. CASE v \in Val(f)
    BY <1>1, EncodeType
  <1>2. ASSUME NEW n \in Int, v = <<n, UTC>>, f.kind \in Times PROVE Encode(f, v) \in Tok(f)
    <2> DEFINE k == Seconds(InstantOf(f, v))
    <2>1. k \in Int /\ Encode(f, v) = IF f.null THEN <<1, k>> ELSE <<k>>
      BY <1>2, Elsewhere
    <2> HIDE DEF k
    <2>2. IsSingle(f) <=> ~f.null
      BY <1>2 DEF IsSingle, Many, Times
    <2> QED
      BY <1>2, <2>1, <2>2, TokOf DEF Many, Times
  <1> QED
    BY <1>1, <1>2, HeldIs

LEMMA HeldWritten ==
  ASSUME setup \in Setups, NEW f \in FieldType, NEW v \in Held(f), IsStorable(f, v), ~IsRefused(f, v)
  PROVE  Written(f, v) \in Col(f)
  <1>1. CASE v \in Val(f)
    BY <1>1, WrittenType
  <1>2. ASSUME NEW n \in Int, v = <<n, UTC>>, f.kind \in Times PROVE Written(f, v) \in Col(f)
    <2> DEFINE m == InstantOf(f, v)
    <2>1. m \in Int /\ IsDay(f, m) /\ Written(f, v) = <<m>>
      BY <1>2, Elsewhere
    <2> HIDE DEF m
    <2> QED
      BY <1>2, <2>1, ColOf DEF IsDay, Many, Times
  <1> QED
    BY <1>1, <1>2, HeldIs

\* A time that is not abroad is one in the Location of the process, of its instant.
LEMMA NotAbroad ==
  ASSUME NEW f \in FieldType, f.kind \in Times, NEW n \in Int, NEW v, v = <<n, UTC>>,
         NEW m, m = InstantOf(f, v), ~IsAbroad(f, v)
  PROVE  /\ m \in Int /\ <<m>> \in Val(f) /\ Instant(f, m) = m /\ Text(f, <<m>>) = Text(f, v)
         /\ InstantOf(f, <<m>>) = m
         /\ Encode(f, <<m>>) = Encode(f, v) /\ Written(f, <<m>>) = Written(f, v)
  <1>1. InUTC(f, v) /\ m \in Int /\ Text(f, v) = m /\ Written(f, v) = <<m>>
        /\ Encode(f, v) = IF f.null THEN <<1, Seconds(m)>> ELSE <<Seconds(m)>>
    BY Elsewhere
  <1>2. Format(f, m) = m /\ Instant(f, m) = m
    BY <1>1 DEF IsAbroad
  <1>3. <<m>> \in Val(f)
    BY <1>1, ValOf DEF Many, Times
  <1>4. Text(f, <<m>>) = m /\ InstantOf(f, <<m>>) = m
    BY <1>2, AtHome
  <1>5. Encode(f, <<m>>) = Encode(f, v)
    <2>1. EncodeNumber(f, m) = Seconds(m)
      BY <1>2 DEF EncodeNumber, TimeToken, Times
    <2> QED
      BY <1>1, <2>1, EncodeIs
  <1>6. Written(f, <<m>>) = Written(f, v)
    <2>1. ~IsEmpty(f, <<m>>)
      BY OneIs DEF IsEmpty, Times
    <2>2. Stored(f, <<m>>) = <<Text(f, <<m>>)>>
      BY DEF Stored, Times
    <2> QED
      BY <1>1, <1>4, <2>1, <2>2 DEF Written
  <1> QED
    BY <1>1, <1>2, <1>3, <1>4, <1>5, <1>6

LEMMA HeldFits ==
  ASSUME setup \in Setups, NEW f \in FieldType, NEW v \in Held(f), IsStorable(f, v), ~IsRefused(f, v),
         NEW U, NEW i, ~inDB /\ IsUntold(f, v) => i \in U, IsAbroad(f, v) => i \in U
  PROVE  Fits(f, Encode(f, v), Written(f, v), i \in U)
  <1>1. CASE v \in Val(f)
    BY <1>1, WrittenFits
  <1>2. ASSUME NEW n \in Int, v = <<n, UTC>>, f.kind \in Times PROVE Fits(f, Encode(f, v), Written(f, v), i \in U)
    <2>1. CASE IsAbroad(f, v)
      BY <2>1 DEF Fits
    <2>2. CASE ~IsAbroad(f, v)
      <3> DEFINE m == InstantOf(f, v)
      <3>1. <<m>> \in Val(f) /\ Encode(f, <<m>>) = Encode(f, v) /\ Written(f, <<m>>) = Written(f, v)
        BY <1>2, <2>2, NotAbroad
      <3> HIDE DEF m
      <3>2. IsStorable(f, <<m>>) /\ ~IsRefused(f, <<m>>) /\ ~IsUntold(f, <<m>>)
        BY <1>2, <3>1 DEF IsStorable, IsRefused, IsUntold, Times
      <3> QED
        BY <3>1, <3>2, WrittenFits
    <2> QED
      BY <2>1, <2>2
  <1> QED
    BY <1>1, <1>2, HeldIs

LEMMA HeldSame ==
  ASSUME setup \in Setups, NEW f \in FieldType, NEW v \in Held(f), IsKept(f, v)
  PROVE  Same(f, Encode(f, v), v)
  <1>1. CASE v \in Val(f)
    BY <1>1, EncodedSame
  <1>2. ASSUME NEW n \in Int, v = <<n, UTC>>, f.kind \in Times PROVE Same(f, Encode(f, v), v)
    <2> DEFINE m == InstantOf(f, v)
               k == Seconds(m)
    <2>1. v # Nil /\ v # <<ZeroTime>> /\ m \in Int /\ k \in Int
          /\ (m > 0 => k - TimeStampSeconds = m /\ k # ZeroDateSeconds)
          /\ Encode(f, v) = IF f.null THEN <<1, k>> ELSE <<k>>
      BY <1>2, Elsewhere
    <2>2. m > 0
      BY <1>2, <2>1 DEF IsKept, IsKeptInstant, Times
    <2>3. CASE f.null
      <3>1. DecodeNumber(f, k) = m
        BY <1>2, <2>1, <2>2, NumbersAre
      <3>2. SameNumber(f, m, m)
        BY <1>2 DEF SameNumber, Times
      <3> HIDE DEF k, m
      <3> QED
        BY <1>2, <2>1, <2>3, <3>1, <3>2, SameIs DEF m
    <2>4. CASE ~f.null
      <3>1. SameTime(f, k, v)
        BY <2>1, <2>2 DEF SameTime, OldTime
      <3> HIDE DEF k
      <3> QED
        BY <1>2, <2>1, <2>4, <3>1, SameIs
    <2> QED
      BY <2>3, <2>4
  <1> QED
    BY <1>1, <1>2, HeldIs

LEMMA HeldSays ==
  ASSUME setup \in Setups, NEW f \in FieldType, NEW c \in Col(f), NEW t \in Tok(f), NEW v \in Held(f),
         IsKeptColumn(f, c), Agrees(f, t, c), Same(f, t, v), IsKept(f, v), ~IsAbroad(f, v)
  PROVE  Says(f, c, v)
  <1>1. CASE v \in Val(f)
    BY <1>1, CleanSays
  <1>2. ASSUME NEW n \in Int, v = <<n, UTC>>, f.kind \in Times PROVE Says(f, c, v)
    <2> DEFINE m == InstantOf(f, v)
    <2>1. v # Nil /\ v # <<ZeroTime>> /\ v[1] = n /\ m \in Int /\ m <= n
      BY <1>2, Elsewhere
    <2>2. <<m>> \in Val(f) /\ Instant(f, m) = m /\ Text(f, <<m>>) = Text(f, v) /\ InstantOf(f, <<m>>) = m
      BY <1>2, NotAbroad
    <2>3. <<m>> # Nil /\ <<m>>[1] = m
      BY OneIs
    <2>4. IsKeptInstant(m)
      BY <1>2, <2>1 DEF IsKept, Times
    <2>5. IsKept(f, <<m>>)
      BY <1>2, <2>2, <2>4 DEF IsKept, Times
    <2>6. ~IsZero(n)
      <3>1. m > 0
        BY <2>4 DEF IsKeptInstant
      <3> QED
        BY <2>1, <3>1, Constants DEF IsZero
    <2> HIDE DEF m
    <2>7. Same(f, t, <<m>>)
      <3>1. CASE f.null
        <4>1. IsSingle(f) = FALSE /\ f.kind \notin Many
          BY <1>2, <3>1 DEF IsSingle, Many, Times
        <4>2. t # <<0>>
          BY <2>1, <3>1, SameIs
        <4>3. PICK k \in Int : t = <<1, k>>
          BY <4>1, <4>2, TokIs
        <4> QED
          BY <1>2, <2>2, <2>3, <3>1, <4>3, SameIs DEF m
      <3>2. CASE ~f.null
        <4>1. PICK k \in Int : t = <<k>>
          <5>1. IsSingle(f)
            BY <1>2, <3>2 DEF IsSingle, Many, Times
          <5> QED
            BY <5>1, TokIs
        <4>2. SameTime(f, k, v)
          BY <1>2, <3>2, <4>1, SameIs
        <4>3. SameTime(f, k, <<m>>)
          BY <2>1, <2>2, <2>6, <4>2 DEF SameTime, m
        <4> QED
          BY <1>2, <3>2, <4>1, <4>3, SameIs
      <3> QED
        BY <3>1, <3>2
    <2>8. Says(f, c, <<m>>)
      BY <2>2, <2>5, <2>7, CleanSays
    <2> QED
      BY <1>2, <2>1, <2>2, <2>3, <2>8 DEF Says, Times
  <1> QED
    BY <1>1, <1>2, HeldIs

LEMMA HeldBefore ==
  ASSUME setup \in Setups, NEW f \in FieldType, NEW c \in Col(f), NEW t \in Tok(f), NEW v \in Held(f),
         IsKeptColumn(f, c), Agrees(f, t, c), ~IsForgotten(f, t, v)
  PROVE  Says(f, Before(f, t, v), Decode(f, FromDB(f, c)))
  <1>1. CASE v \in Val(f)
    BY <1>1, BeforeSays
  <1>2. CASE f.kind \in Times
    <2> DEFINE d == Decode(f, t)
    <2>1. d \in Val(f)
      BY DecodeType
    <2>2. ~IsForgotten(f, t, d)
      BY <1>2 DEF IsForgotten, Times
    <2>3. Before(f, t, d) = Before(f, t, v)
      BY <1>2 DEF Before, Numbers, Times
    <2> QED
      BY <2>1, <2>2, <2>3, BeforeSays
  <1> QED
    BY <1>1, <1>2, HeldIs

-----------------------------------------------------------------------------
(* The invariant.                                                           *)

IsBinary(b) == \E x \in Tok(FieldAt[1]), y \in Tok(FieldAt[2]) : b = x \o y

FitsAll(b, r, e) == \A i \in 1 .. 2 : Fits(FieldAt[i], TokensOf(b)[i], r[i], i \in e)

\* Each field was written from the binary form, or read from it.
MetAll(b, g) == \A i \in 1 .. 2 : \/ TokensOf(b)[i] = Encode(FieldAt[i], g[i])
                                  \/ g[i] = Decode(FieldAt[i], TokensOf(b)[i])

\* The variables but setup.
State(g, d, b, r, c, s, u, z) ==
    /\ d \in BOOLEAN /\ s \in BOOLEAN /\ u \subseteq {1, 2} /\ z \subseteq {1, 2}
    /\ g \in [1 .. 2 -> Seq(Int)] /\ \A i \in 1 .. 2 : g[i] \in Held(FieldAt[i])
    /\ r \in [1 .. 2 -> Seq(Int)] /\ (d => \A i \in 1 .. 2 : r[i] \in Col(FieldAt[i]))
    /\ IF d THEN IsBinary(b) /\ FitsAll(b, r, u) /\ (s => MetAll(b, g)) ELSE b = None /\ c = None
    /\ c # None => IsBinary(c) /\ FitsAll(c, r, z)

Inv == setup \in Setups /\ State(go, inDB, bin, row, cache, settled, unsaved, stale)

LEMMA Primed ==
  ASSUME setup' = setup, setup \in Setups, State(go', inDB', bin', row', cache', settled', unsaved', stale')
  PROVE  Inv'
  <1>1. FieldAt' = FieldAt /\ Zone' = Zone
    BY DEF FieldAt, Zone
  <1>2. \A u : OffsetAt(u)' = OffsetAt(u)
    BY <1>1 DEF OffsetAt
  <1>3. TimeOffset' = TimeOffset
    BY <1>1, <1>2 DEF TimeOffset, OffsetAt
  <1>4. \A u : StartOfDay(u)' = StartOfDay(u)
    BY <1>1, <1>2 DEF StartOfDay, Local
  <1>5. \A f, u : Instant(f, u)' = Instant(f, u)
    BY <1>4 DEF Instant
  <1>6. \A f, u : IsKeptTime(f, u)' <=> IsKeptTime(f, u)
    BY <1>2, <1>3, <1>5 DEF IsKeptTime, IsKeptInstant
  <1>7. \A b : TokensOf(b)' = TokensOf(b)
    BY <1>1 DEF TokensOf
  <1>8. \A f, v : EncodeNumber(f, v)' = EncodeNumber(f, v)
    BY <1>5 DEF EncodeNumber, TimeToken, Seconds
  <1>9. \A f, v : Encode(f, v)' = Encode(f, v)
    BY <1>5, <1>8 DEF Encode, InUTC, InstantOf, Seconds
  <1>10. \A f, u : TimeFromDB(f, u)' = TimeFromDB(f, u)
    BY <1>3 DEF TimeFromDB
  <1>11. \A f, c : FromDB(f, c)' = FromDB(f, c)
    BY <1>10 DEF FromDB
  <1>12. \A f, c : IsKeptColumn(f, c)' <=> IsKeptColumn(f, c)
    BY <1>3, <1>6 DEF IsKeptColumn
  <1>13. \A f, t, c, e : Fits(f, t, c, e)' <=> Fits(f, t, c, e)
    <2>1. \A f, t : Proper(f, t)' <=> Proper(f, t)
      BY <1>4 DEF Proper
    <2>2. \A f, t, c : Agrees(f, t, c)' <=> Agrees(f, t, c)
      BY <1>11 DEF Agrees
    <2> QED
      BY <1>12, <2>1, <2>2 DEF Fits
  <1> QED
    BY <1>1, <1>7, <1>9, <1>13 DEF Inv, State, IsBinary, FitsAll, MetAll

LEMMA ColumnsType ==
  ASSUME setup \in Setups, NEW f \in FieldType
  PROVE  Columns(f) \subseteq Col(f)
  <1> USE KindsAre DEF Kinds, Numbers, Times
  <1> SUFFICES ASSUME NEW c \in Columns(f) PROVE c \in Col(f)
    OBVIOUS
  <1>1. CASE f.kind \in Times
    <2>1. Midnight(LastYear) \in Int /\ Midnight(Midnight(LastYear)) = Midnight(LastYear)
      BY MidnightIs, SetupAssumption
    <2>2. \E n \in {Midnight(LastYear), Year1000, ZeroTime} : c = <<n>>
      BY <1>1 DEF Columns
    <2>3. \A n \in {Midnight(LastYear), Year1000, ZeroTime} : n \in Int /\ Midnight(n) = n
      BY <2>1, Constants
    <2> QED
      BY <1>1, <2>2, <2>3, ColOf DEF Many
  <1>2. CASE f.kind = "enum"
    <2>1. c = <<3>>
      BY <1>2 DEF Columns
    <2> QED
      BY <1>2, <2>1, ColOf DEF Many
  <1>3. CASE f.kind = "set"
    <2>1. <<2>> \in Seq(Members)
      BY DEF Members
    <2>2. <<Mark>> \o <<2>> = <<Mark, 2>>
      <3>1. <<Mark>> \in Seq(Int) /\ <<2>> \in Seq(Int) /\ <<Mark, 2>> \in Seq(Int)
        BY DEF Mark
      <3>2. /\ <<Mark>> \o <<2>> \in Seq(Int) /\ Len(<<Mark>> \o <<2>>) = 2
            /\ (<<Mark>> \o <<2>>)[1] = Mark /\ (<<Mark>> \o <<2>>)[2] = 2
        BY <3>1, ConcatProperties
      <3>3. Len(<<Mark, 2>>) = 2 /\ <<Mark, 2>>[1] = Mark /\ <<Mark, 2>>[2] = 2
        OBVIOUS
      <3>4. \A k \in 1 .. 2 : (<<Mark>> \o <<2>>)[k] = <<Mark, 2>>[k]
        BY <3>2, <3>3
      <3> QED
        BY <3>1, <3>2, <3>3, <3>4, SeqEqual
    <2>3. c = <<Mark, 2>>
      BY <1>3 DEF Columns
    <2> QED
      BY <1>3, <2>1, <2>2, <2>3, ColOf
  <1> QED
    BY <1>1, <1>2, <1>3 DEF Columns

LEMMA PairIs ==
  ASSUME NEW S, NEW a \in S, NEW b \in S
  PROVE  <<a, b>> \in [1 .. 2 -> S]
  OBVIOUS

LEMMA BinaryIs ==
  ASSUME setup \in Setups, NEW b, IsBinary(b)
  PROVE  /\ b \in Seq(Int) /\ b # None /\ Len(b) = Len(TokensOf(b)[1]) + Len(TokensOf(b)[2])
         /\ \A i \in 1 .. 2 : TokensOf(b)[i] \in Tok(FieldAt[i])
  <1>1. PICK x \in Tok(FieldAt[1]), y \in Tok(FieldAt[2]) : b = x \o y
    BY DEF IsBinary
  <1>2. b \in Seq(Int) /\ b # None /\ Len(b) = Len(x) + Len(y) /\ TokensOf(b) = <<x, y>>
    BY <1>1, ReadBack
  <1>3. TokensOf(b)[1] = x /\ TokensOf(b)[2] = y
    BY <1>2
  <1> QED
    BY <1>2, <1>3

LEMMA SerializedIs ==
  ASSUME setup \in Setups, NEW g, \A i \in 1 .. 2 : g[i] \in Held(FieldAt[i])
  PROVE  /\ IsBinary(Serialized(g))
         /\ \A i \in 1 .. 2 : TokensOf(Serialized(g))[i] = Encode(FieldAt[i], g[i])
  <1>1. \A i \in 1 .. 2 : Encode(FieldAt[i], g[i]) \in Tok(FieldAt[i])
    BY FieldsAre, HeldEncodes
  <1>2. TokensOf(Serialized(g)) = <<Encode(FieldAt[1], g[1]), Encode(FieldAt[2], g[2])>>
    BY <1>1, ReadBack DEF Serialized
  <1>3. \A i \in 1 .. 2 : TokensOf(Serialized(g))[i] = Encode(FieldAt[i], g[i])
    BY <1>2
  <1> QED
    BY <1>1, <1>3 DEF IsBinary, Serialized

LEMMA FromDBBinary ==
  ASSUME setup \in Setups, NEW r, \A i \in 1 .. 2 : r[i] \in Col(FieldAt[i])
  PROVE  /\ IsBinary(DeserializedFromDB(r))
         /\ \A i \in 1 .. 2 : TokensOf(DeserializedFromDB(r))[i] = FromDB(FieldAt[i], r[i])
         /\ \A e : FitsAll(DeserializedFromDB(r), r, e)
  <1>1. \A i \in 1 .. 2 : /\ FromDB(FieldAt[i], r[i]) \in Tok(FieldAt[i])
                          /\ Fits(FieldAt[i], FromDB(FieldAt[i], r[i]), r[i], FALSE)
    BY FieldsAre, FromDBType, FromDBFits
  <1>2. TokensOf(DeserializedFromDB(r)) = <<FromDB(FieldAt[1], r[1]), FromDB(FieldAt[2], r[2])>>
    BY <1>1, ReadBack DEF DeserializedFromDB
  <1>3. \A i \in 1 .. 2 : TokensOf(DeserializedFromDB(r))[i] = FromDB(FieldAt[i], r[i])
    BY <1>2
  <1>4. \A e : FitsAll(DeserializedFromDB(r), r, e)
    BY <1>1, <1>3 DEF FitsAll, Fits
  <1> QED
    BY <1>1, <1>3, <1>4 DEF IsBinary, DeserializedFromDB

LEMMA DeserializedIs ==
  ASSUME setup \in Setups, NEW b, IsBinary(b)
  PROVE  /\ Deserialized(b) \in [1 .. 2 -> Seq(Int)]
         /\ \A i \in 1 .. 2 : /\ Deserialized(b)[i] = Decode(FieldAt[i], TokensOf(b)[i])
                              /\ Deserialized(b)[i] \in Held(FieldAt[i])
         /\ MetAll(b, Deserialized(b))
  <1>1. \A i \in 1 .. 2 : Deserialized(b)[i] = Decode(FieldAt[i], TokensOf(b)[i])
    BY DEF Deserialized
  <1>2. \A i \in 1 .. 2 : Decode(FieldAt[i], TokensOf(b)[i]) \in Val(FieldAt[i])
    BY BinaryIs, FieldsAre, DecodeType
  <1>3. \A i \in 1 .. 2 : Decode(FieldAt[i], TokensOf(b)[i]) \in Seq(Int)
    BY <1>2, FieldsAre, ValIs
  <1> QED
    BY <1>1, <1>2, <1>3 DEF Deserialized, MetAll, Held

LEMMA InitInv ==
  ASSUME Init
  PROVE  Inv
  <1>1. setup \in Setups /\ settled = TRUE /\ unsaved = {} /\ stale = {} /\ cache = None
    BY DEF Init
  <1>2. \A i \in 1 .. 2 : FieldAt[i] \in FieldType
    BY <1>1, FieldsAre
  <1>3. CASE inDB = FALSE /\ bin = None /\ row = <<Nil, Nil>> /\ go = [i \in 1 .. 2 |-> Zero(FieldAt[i])]
    <2>1. \A i \in 1 .. 2 : Zero(FieldAt[i]) \in Val(FieldAt[i]) /\ Zero(FieldAt[i]) \in Seq(Int)
      BY <1>1, <1>2, ValuesType, ValIs
    <2>2. row \in [1 .. 2 -> Seq(Int)]
      <3>1. Nil \in Seq(Int)
        BY DEF Nil
      <3> QED
        BY <1>3, <3>1, PairIs
    <2>3. go \in [1 .. 2 -> Seq(Int)] /\ \A i \in 1 .. 2 : go[i] \in Held(FieldAt[i])
      BY <1>3, <2>1 DEF Held
    <2> QED
      BY <1>1, <1>3, <2>2, <2>3 DEF Inv, State
  <1>4. ASSUME inDB = TRUE, NEW c \in Columns(FieldAt[1]), row = <<c, << 0 >>>>,
               bin = DeserializedFromDB(row), go = Deserialized(bin)
        PROVE  Inv
    <2>1. c \in Col(FieldAt[1])
      BY <1>1, <1>2, <1>4, ColumnsType
    <2>2. <<0>> \in Col(FieldAt[2])
      <3>1. FieldAt[2].kind = "int" /\ FieldAt[2] \in FieldType
        BY <1>1, FieldsAre DEF Neighbour
      <3> QED
        BY <3>1, ColOf DEF Many
    <2>3. \A i \in 1 .. 2 : row[i] \in Col(FieldAt[i])
      BY <1>4, <2>1, <2>2
    <2>4. row \in [1 .. 2 -> Seq(Int)]
      <3>1. c \in Seq(Int) /\ <<0>> \in Seq(Int)
        BY <1>2, <2>1, ColIs
      <3> QED
        BY <1>4, <3>1, PairIs
    <2>5. IsBinary(bin) /\ FitsAll(bin, row, unsaved)
      BY <1>1, <1>4, <2>3, FromDBBinary
    <2>6. go \in [1 .. 2 -> Seq(Int)] /\ (\A i \in 1 .. 2 : go[i] \in Held(FieldAt[i])) /\ MetAll(bin, go)
      BY <1>1, <1>4, <2>5, DeserializedIs
    <2> QED
      BY <1>1, <1>4, <2>3, <2>4, <2>5, <2>6 DEF Inv, State
  <1> QED
    BY <1>3, <1>4 DEF Init

\* What the steps have in common.
LEMMA HaveTypes ==
  ASSUME Inv
  PROVE  /\ setup \in Setups /\ \A i \in 1 .. 2 : FieldAt[i] \in FieldType /\ go[i] \in Held(FieldAt[i])
         /\ go \in [1 .. 2 -> Seq(Int)] /\ row \in [1 .. 2 -> Seq(Int)]
         /\ inDB \in BOOLEAN /\ settled \in BOOLEAN /\ unsaved \subseteq {1, 2} /\ stale \subseteq {1, 2}
         /\ inDB => /\ IsBinary(bin) /\ FitsAll(bin, row, unsaved)
                    /\ \A i \in 1 .. 2 : row[i] \in Col(FieldAt[i]) /\ TokensOf(bin)[i] \in Tok(FieldAt[i])
         /\ cache # None => inDB /\ IsBinary(cache) /\ FitsAll(cache, row, stale)
  BY FieldsAre, BinaryIs DEF Inv, State

LEMMA AssignInv ==
  ASSUME Inv, NEW i \in 1 .. 2, NEW v \in Held(FieldAt[i]), Assign(i, v)
  PROVE  Inv'
  <1>1. v \in Seq(Int)
    BY HaveTypes, HeldIs
  <1>2. /\ go' = [go EXCEPT ![i] = v] /\ settled' = FALSE /\ setup' = setup
        /\ inDB' = inDB /\ bin' = bin /\ row' = row /\ cache' = cache /\ unsaved' = unsaved /\ stale' = stale
    BY DEF Assign
  <1>3. go' \in [1 .. 2 -> Seq(Int)] /\ \A j \in 1 .. 2 : go'[j] \in Held(FieldAt[j])
    BY <1>1, <1>2, HaveTypes
  <1>4. State(go', inDB', bin', row', cache', settled', unsaved', stale')
    BY <1>2, <1>3 DEF Inv, State
  <1> QED
    BY <1>2, <1>4, HaveTypes, Primed

LEMMA SetFieldInv ==
  ASSUME Inv, SetField(1)
  PROVE  Inv'
  <1>1. PICK x \in Inputs(FieldAt[1]) : FieldSet(FieldAt[1], x) # Invalid /\ Assign(1, FieldSet(FieldAt[1], x))
    BY DEF SetField
  <1>2. FieldSet(FieldAt[1], x) \in Held(FieldAt[1])
    BY <1>1, HaveTypes, FieldSetType
  <1> QED
    BY <1>1, <1>2, AssignInv

LEMMA InsertInv ==
  ASSUME Inv, Insert
  PROVE  Inv'
  <1> DEFINE u == Untold \cup Abroad
  <1>1. /\ ~inDB /\ inDB' = TRUE /\ setup' = setup /\ go' = go
        /\ row' = [i \in 1 .. 2 |-> Written(FieldAt[i], go[i])]
        /\ bin' = Serialized(go) /\ cache' = Serialized(go)
        /\ settled' = TRUE /\ unsaved' = u /\ stale' = u
        /\ \A i \in 1 .. 2 : IsStorable(FieldAt[i], go[i]) /\ ~IsRefused(FieldAt[i], go[i])
    BY DEF Insert, IsBuilt, IsAccepted
  <1>2. u \subseteq {1, 2} /\ \A i \in 1 .. 2 : IsUntold(FieldAt[i], go[i]) \/ IsAbroad(FieldAt[i], go[i]) => i \in u
    BY DEF Untold, IsUntold, Abroad
  <1>3. \A i \in 1 .. 2 : row'[i] = Written(FieldAt[i], go[i]) /\ row'[i] \in Col(FieldAt[i])
    BY <1>1, HaveTypes, HeldWritten
  <1>4. row' \in [1 .. 2 -> Seq(Int)]
    <2>1. \A i \in 1 .. 2 : Written(FieldAt[i], go[i]) \in Seq(Int)
      BY <1>3, HaveTypes, ColIs
    <2> QED
      BY <1>1, <2>1
  <1>5. IsBinary(bin') /\ \A i \in 1 .. 2 : TokensOf(bin')[i] = Encode(FieldAt[i], go[i])
    BY <1>1, HaveTypes, SerializedIs
  <1>6. \A i \in 1 .. 2 : Fits(FieldAt[i], Encode(FieldAt[i], go[i]), Written(FieldAt[i], go[i]), i \in u)
    BY <1>1, <1>2, HaveTypes, HeldFits
  <1>7. FitsAll(bin', row', u)
    BY <1>3, <1>5, <1>6 DEF FitsAll
  <1>8. MetAll(bin', go')
    BY <1>1, <1>5 DEF MetAll
  <1> HIDE DEF u
  <1>9. State(go', inDB', bin', row', cache', settled', unsaved', stale')
    BY <1>1, <1>2, <1>3, <1>4, <1>5, <1>7, <1>8, HaveTypes DEF State
  <1> QED
    BY <1>1, <1>9, HaveTypes, Primed

\* A field that is not written.
LEMMA UnwrittenFits ==
  ASSUME Inv, inDB, NEW i \in 1 .. 2, NEW u, i \in unsaved => i \in u, i \in Slipped => i \in u, i \notin Dirty
  PROVE  Fits(FieldAt[i], Encode(FieldAt[i], go[i]), row[i], i \in u)
  <1>1. Fits(FieldAt[i], TokensOf(bin)[i], row[i], i \in unsaved)
    BY HaveTypes DEF FitsAll
  <1>2. Meaning(FieldAt[i], Encode(FieldAt[i], go[i])) # Meaning(FieldAt[i], TokensOf(bin)[i]) => i \in Slipped
    BY DEF Slipped
  <1> QED
    BY <1>1, <1>2, HaveTypes, MeaningFits

LEMMA UpdateInv ==
  ASSUME Inv, Update
  PROVE  Inv'
  <1> DEFINE u == (unsaved \ Dirty) \cup Slipped \cup (Abroad \cap Dirty)
  <1>1. /\ inDB /\ inDB' = inDB /\ setup' = setup /\ go' = go
        /\ row' = [i \in 1 .. 2 |-> IF i \in Dirty THEN Written(FieldAt[i], go[i]) ELSE row[i]]
        /\ bin' = Serialized(go) /\ cache' = Serialized(go)
        /\ settled' = TRUE /\ unsaved' = u /\ stale' = u
        /\ \A i \in Dirty : IsStorable(FieldAt[i], go[i]) /\ ~IsRefused(FieldAt[i], go[i])
    BY DEF Update, IsBuilt, IsAccepted
  <1>2. u \subseteq {1, 2} /\ \A i \in Dirty : IsAbroad(FieldAt[i], go[i]) => i \in u
    BY HaveTypes DEF Slipped, Abroad, Dirty
  <1>3. Dirty \subseteq 1 .. 2
    BY DEF Dirty
  <1>4. ASSUME NEW i \in Dirty
        PROVE  Fits(FieldAt[i], Encode(FieldAt[i], go[i]), Written(FieldAt[i], go[i]), i \in u) /\ Written(FieldAt[i], go[i]) \in Col(FieldAt[i])
    BY <1>1, <1>2, <1>3, <1>4, HaveTypes, HeldFits, HeldWritten
  <1>5. ASSUME NEW i \in 1 .. 2, i \notin Dirty
        PROVE  Fits(FieldAt[i], Encode(FieldAt[i], go[i]), row[i], i \in u)
    BY <1>1, <1>5, UnwrittenFits
  <1>6. \A i \in 1 .. 2 : row'[i] \in Col(FieldAt[i])
    BY <1>1, <1>4, HaveTypes
  <1>7. row' \in [1 .. 2 -> Seq(Int)]
    <2>1. \A i \in 1 .. 2 : row'[i] \in Seq(Int)
      BY <1>6, HaveTypes, ColIs
    <2> QED
      BY <1>1, <2>1
  <1>8. IsBinary(bin') /\ \A i \in 1 .. 2 : TokensOf(bin')[i] = Encode(FieldAt[i], go[i])
    BY <1>1, HaveTypes, SerializedIs
  <1>9. FitsAll(bin', row', u)
    BY <1>1, <1>4, <1>5, <1>8 DEF FitsAll
  <1>10. MetAll(bin', go')
    BY <1>1, <1>8 DEF MetAll
  <1> HIDE DEF u
  <1>11. State(go', inDB', bin', row', cache', settled', unsaved', stale')
    BY <1>1, <1>2, <1>6, <1>7, <1>8, <1>9, <1>10, HaveTypes DEF State
  <1> QED
    BY <1>1, <1>11, HaveTypes, Primed

LEMMA UpdateFailsInv ==
  ASSUME Inv, UpdateFails
  PROVE  Inv'
  <1> DEFINE u == unsaved \cup Dirty \cup Slipped
  <1>1. /\ inDB /\ inDB' = inDB /\ setup' = setup /\ go' = go /\ row' = row
        /\ bin' = Serialized(go) /\ cache' = cache /\ settled' = FALSE
        /\ unsaved' = u /\ stale' = stale
    BY DEF UpdateFails
  <1>2. u \subseteq {1, 2}
    BY HaveTypes DEF Slipped, Dirty
  <1>3. IsBinary(bin') /\ \A i \in 1 .. 2 : TokensOf(bin')[i] = Encode(FieldAt[i], go[i])
    BY <1>1, HaveTypes, SerializedIs
  <1>4. ASSUME NEW i \in 1 .. 2 PROVE Fits(FieldAt[i], Encode(FieldAt[i], go[i]), row[i], i \in u)
    <2>1. CASE i \in Dirty
      BY <2>1 DEF Fits
    <2>2. CASE i \notin Dirty
      BY <1>1, <2>2, UnwrittenFits
    <2> QED
      BY <2>1, <2>2
  <1>5. FitsAll(bin', row', u)
    BY <1>1, <1>3, <1>4 DEF FitsAll
  <1> HIDE DEF u
  <1>6. State(go', inDB', bin', row', cache', settled', unsaved', stale')
    BY <1>1, <1>2, <1>3, <1>5, HaveTypes DEF State
  <1> QED
    BY <1>1, <1>6, HaveTypes, Primed

LEMMA LoadRowInv ==
  ASSUME Inv, LoadRow
  PROVE  Inv'
  <1>1. /\ inDB /\ inDB' = inDB /\ setup' = setup /\ row' = row
        /\ bin' = DeserializedFromDB(row) /\ cache' = bin' /\ go' = Deserialized(bin')
        /\ settled' = TRUE /\ unsaved' = {} /\ stale' = {}
    BY DEF LoadRow, Deserialized, TokensOf, FieldAt
  <1>2. IsBinary(bin') /\ FitsAll(bin', row', {})
    BY <1>1, HaveTypes, FromDBBinary
  <1>3. go' \in [1 .. 2 -> Seq(Int)] /\ (\A i \in 1 .. 2 : go'[i] \in Held(FieldAt[i])) /\ MetAll(bin', go')
    BY <1>1, <1>2, HaveTypes, DeserializedIs
  <1>4. State(go', inDB', bin', row', cache', settled', unsaved', stale')
    BY <1>1, <1>2, <1>3, HaveTypes DEF State
  <1> QED
    BY <1>1, <1>4, HaveTypes, Primed

LEMMA LoadCachedInv ==
  ASSUME Inv, LoadCached
  PROVE  Inv'
  <1>1. /\ cache # None /\ inDB' = inDB /\ setup' = setup /\ row' = row /\ cache' = cache
        /\ bin' = cache /\ go' = Deserialized(cache)
        /\ settled' = TRUE /\ unsaved' = stale /\ stale' = stale
    BY DEF LoadCached
  <1>2. inDB /\ IsBinary(cache) /\ FitsAll(cache, row, stale)
    BY <1>1, HaveTypes
  <1>3. go' \in [1 .. 2 -> Seq(Int)] /\ (\A i \in 1 .. 2 : go'[i] \in Held(FieldAt[i])) /\ MetAll(bin', go')
    BY <1>1, <1>2, HaveTypes, DeserializedIs
  <1>4. State(go', inDB', bin', row', cache', settled', unsaved', stale')
    BY <1>1, <1>2, <1>3, HaveTypes DEF State
  <1> QED
    BY <1>1, <1>4, HaveTypes, Primed

LEMMA StepInv ==
  ASSUME Inv, [Next]_vars
  PROVE  Inv'
  <1>1. CASE UNCHANGED vars
    <2>1. State(go', inDB', bin', row', cache', settled', unsaved', stale') /\ setup' = setup
      BY <1>1 DEF vars, Inv, State
    <2> QED
      BY <2>1, HaveTypes, Primed
  <1>2. ASSUME NEW v \in Values(FieldAt[1]), Assign(1, v) PROVE Inv'
    <2>1. v \in Held(FieldAt[1])
      BY HaveTypes, ValuesType
    <2> QED
      BY <1>2, <2>1, AssignInv
  <1>3. ASSUME NEW v \in {<< 0 >>, << 1 >>}, Assign(2, v) PROVE Inv'
    <2>1. v \in Held(FieldAt[2])
      <3>1. FieldAt[2].kind = "int" /\ FieldAt[2] \in FieldType
        BY HaveTypes, FieldsAre DEF Neighbour
      <3> QED
        BY <3>1, ValOf DEF Many, Held
    <2> QED
      BY <1>3, <2>1, AssignInv
  <1> QED
    BY <1>1, <1>2, <1>3, SetFieldInv, InsertInv, UpdateInv, UpdateFailsInv, LoadRowInv, LoadCachedInv DEF Next

-----------------------------------------------------------------------------
(* What follows from the invariant.                                         *)

\* The invariant holds from the start on: every field, its column and its binary
\* form are of the kind's values, and agree but for what unsaved and stale record (orm.go,
\* bind_builder.go).
THEOREM Invariant == Spec => []Inv
  <1>1. Init => Inv
    BY InitInv
  <1>2. Inv /\ [Next]_vars => Inv'
    BY StepInv
  <1> QED
    BY <1>1, <1>2, PTL DEF Spec

LEMMA InvTypeOK ==
  ASSUME Inv
  PROVE  TypeOK
  <1>1. ASSUME NEW g \in [1 .. 2 -> Seq(Int)] PROVE g \in Seq(Seq(Int))
    <2>1. 2 \in Nat /\ g \in [1 .. 2 -> Seq(Int)]
      BY <1>1
    <2>2. g \in UNION {[1 .. n -> Seq(Int)] : n \in Nat}
      BY <2>1
    <2> QED
      BY <2>2, SeqDef
  <1>2. /\ inDB => bin # None
        /\ ~inDB => bin = None /\ cache = None
        /\ cache # None => inDB
    BY HaveTypes, BinaryIs DEF Inv, State
  <1>3. \A b \in {bin, cache} \ {None} : b \in Seq(Int) /\ Len(b) = Len(TokensOf(b)[1]) + Len(TokensOf(b)[2])
    BY <1>2, HaveTypes, BinaryIs
  <1> QED
    BY <1>1, <1>2, <1>3, HaveTypes DEF TypeOK

LEMMA InvCleanIsRow ==
  ASSUME Inv
  PROVE  CleanIsRow
  <1> SUFFICES ASSUME inDB, NEW i \in 1 .. 2, i \notin Dirty, i \notin unsaved,
                      IsKept(FieldAt[i], go[i]), ~IsAbroad(FieldAt[i], go[i]), IsKeptColumn(FieldAt[i], row[i])
               PROVE  Says(FieldAt[i], row[i], go[i])
    BY DEF CleanIsRow
  <1>1. Same(FieldAt[i], TokensOf(bin)[i], go[i])
    BY DEF Dirty, IsSame
  <1>2. Agrees(FieldAt[i], TokensOf(bin)[i], row[i])
    BY HaveTypes DEF FitsAll, Fits
  <1> QED
    BY <1>1, <1>2, HaveTypes, HeldSays

LEMMA InvSettledIsClean ==
  ASSUME Inv
  PROVE  SettledIsClean
  <1> SUFFICES ASSUME inDB, settled, NEW i \in 1 .. 2, IsKept(FieldAt[i], go[i]), IsKeptColumn(FieldAt[i], row[i]),
                      ~(FieldAt[i].kind = "date" /\ i \in unsaved)
               PROVE  Same(FieldAt[i], TokensOf(bin)[i], go[i])
    BY DEF SettledIsClean, Dirty, IsSame
  <1>1. MetAll(bin, go)
    BY DEF Inv, State
  <1>2. CASE TokensOf(bin)[i] = Encode(FieldAt[i], go[i])
    BY <1>2, HaveTypes, HeldSame
  <1>3. CASE go[i] = Decode(FieldAt[i], TokensOf(bin)[i])
    <2>1. Proper(FieldAt[i], TokensOf(bin)[i])
      BY HaveTypes DEF FitsAll, Fits, Proper
    <2> QED
      BY <1>3, <2>1, HaveTypes, DecodedSame
  <1> QED
    BY <1>1, <1>2, <1>3 DEF MetAll

LEMMA InvCacheIsRow ==
  ASSUME Inv
  PROVE  CacheIsRow
  <1> SUFFICES ASSUME cache # None, NEW i \in 1 .. 2, i \notin stale, IsKeptColumn(FieldAt[i], row[i])
               PROVE  Says(FieldAt[i], row[i], Deserialized(cache)[i])
    BY DEF CacheIsRow
  <1>1. /\ inDB /\ IsBinary(cache) /\ Fits(FieldAt[i], TokensOf(cache)[i], row[i], i \in stale)
        /\ TokensOf(cache)[i] \in Tok(FieldAt[i]) /\ row[i] \in Col(FieldAt[i])
    BY HaveTypes, BinaryIs DEF FitsAll
  <1>2. Deserialized(cache)[i] = Decode(FieldAt[i], TokensOf(cache)[i])
    BY <1>1, HaveTypes, DeserializedIs
  <1>3. Agrees(FieldAt[i], TokensOf(cache)[i], row[i])
    BY <1>1 DEF Fits
  <1> QED
    BY <1>1, <1>2, <1>3, HaveTypes, ReadSays

LEMMA InvBeforeIsRow ==
  ASSUME Inv
  PROVE  BeforeIsRow
  <1> SUFFICES ASSUME inDB, NEW i \in 1 .. 2, i \notin unsaved, IsKeptColumn(FieldAt[i], row[i]),
                      ~IsForgotten(FieldAt[i], TokensOf(bin)[i], go[i])
               PROVE  Says(FieldAt[i], Before(FieldAt[i], TokensOf(bin)[i], go[i]),
                           Decode(FieldAt[i], FromDB(FieldAt[i], row[i])))
    BY DEF BeforeIsRow
  <1>1. Agrees(FieldAt[i], TokensOf(bin)[i], row[i])
    BY HaveTypes DEF FitsAll, Fits
  <1> QED
    BY <1>1, HaveTypes, HeldBefore

\* The entity has what its type says, and a binary form of its two fields and no more
\* while it is in the database (orm.go, serializer.go).
THEOREM TypeCorrect == Spec => []TypeOK
  BY Invariant, InvTypeOK, PTL

\* A field that the bind builder does not find dirty is what the column says, for any
\* precision and in any time zone, as far as the field keeps the value at all and a time
\* is not of another Location (bind_builder.go).
THEOREM CleanMeansWritten == Spec => []CleanIsRow
  BY Invariant, InvCleanIsRow, PTL

\* An entity that was just flushed or loaded has no dirty field, but for a value that its
\* column or its binary form does not keep, and a date of which the cache has the start in
\* another Location (bind_builder.go, orm.go: serializeFields, deserializeFields).
THEOREM FlushedIsClean == Spec => []SettledIsClean
  BY Invariant, InvSettledIsClean, PTL

\* The binary form that a cache has is read as the row says, but for fields that are stale
\* and columns that are not read for what they are (orm.go: deserializeFields,
\* deserializeStructFromDB).
THEOREM CachedIsWritten == Spec => []CacheIsRow
  BY Invariant, InvCacheIsRow, PTL

\* The old values that the log of an UPDATE and the cached queries get are those of the
\* row, unless the field never reached it, the column is not read for what it is, or its
\* kind forgets the old value (bind_builder.go: current).
THEOREM OldIsWritten == Spec => []BeforeIsRow
  BY Invariant, InvBeforeIsRow, PTL
=============================================================================
