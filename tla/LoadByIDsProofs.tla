-------------------------- MODULE LoadByIDsProofs --------------------------
(* Theorems about LoadByIDs, for any rows, programs and numbers of writes. *)
EXTENDS LoadByIDs, TLAPS, WellFoundedInduction

-----------------------------------------------------------------------------
(* Facts about the helpers.                                                *)

Findings == UNION {[D -> Copy] : D \in SUBSET Ids}

LEMMA FoundType ==
  ASSUME NEW f \in Findings
  PROVE  /\ DOMAIN f \subseteq Ids
         /\ \A i \in DOMAIN f : f[i] \in Copy
         /\ f = [i \in DOMAIN f |-> f[i]]
  <1>1. PICK D \in SUBSET Ids : f \in [D -> Copy]
    BY DEF Findings
  <1> QED
    BY <1>1

LEMMA FoundIs ==
  ASSUME NEW D \in SUBSET Ids, NEW f \in [D -> Copy]
  PROVE  f \in Findings
  BY DEF Findings

\* What was found together with what is new.
LEMMA WithIs ==
  ASSUME NEW f \in Findings, call.found \in Findings
  PROVE  /\ With(f) \in Findings
         /\ DOMAIN With(f) = DOMAIN f \cup DOMAIN call.found
         /\ \A i \in DOMAIN f : With(f)[i] = f[i]
         /\ \A i \in DOMAIN call.found \ DOMAIN f : With(f)[i] = call.found[i]
  <1>1. With(f) \in [DOMAIN f \cup DOMAIN call.found -> Copy]
    BY FoundType DEF With
  <1>2. DOMAIN f \cup DOMAIN call.found \in SUBSET Ids
    BY FoundType
  <1>3. With(f) \in Findings
    BY <1>1, <1>2, FoundIs
  <1> QED
    BY <1>3 DEF With

\* The first position of an id is one of its positions.
LEMMA PlaceIsThere ==
  ASSUME NEW ids \in Seq(Ids), NEW k \in DOMAIN ids
  PROVE  Place(ids, ids[k]) \in DOMAIN ids /\ ids[Place(ids, ids[k])] = ids[k]
  <1> DEFINE S == {j \in DOMAIN ids : ids[j] = ids[k]}
  <1>1. S \subseteq Nat /\ k \in S
    BY DEF S
  <1>2. PICK x \in S : \A y \in S : <<y, x>> \notin OpToRel(<, Nat)
    BY <1>1, NatLessThanWellFounded, WFMin
  <1>3. ASSUME NEW y \in S PROVE x <= y
    <2>1. x \in Nat /\ y \in Nat
      BY <1>1
    <2>2. ~(y < x)
      BY <1>2, <2>1 DEF OpToRel
    <2> QED
      BY <2>1, <2>2
  <1> HIDE DEF S
  <1>4. Min(S) \in S
    BY <1>3 DEF Min
  <1> QED
    BY <1>4 DEF Place, S

LEMMA PlacedIs ==
  ASSUME NEW ids \in Seq(Ids), NEW there
  PROVE  /\ Placed(ids, there) \in Seq(Ids \cup {None})
         /\ Len(Placed(ids, there)) = Len(ids)
         /\ DOMAIN Placed(ids, there) = DOMAIN ids
         /\ \A k \in DOMAIN ids : Placed(ids, there)[k] = IF ids[k] \in there THEN ids[k] ELSE None
  <1> DEFINE first == [k \in DOMAIN ids |->
                         IF k = Place(ids, ids[k]) /\ ids[k] \in there THEN ids[k] ELSE None]
             P == [k \in DOMAIN ids |-> first[Place(ids, ids[k])]]
  <1>1. Placed(ids, there) = P
    BY DEF Placed
  <1>2. ASSUME NEW k \in DOMAIN ids
        PROVE  P[k] = IF ids[k] \in there THEN ids[k] ELSE None
    <2> DEFINE j == Place(ids, ids[k])
    <2>1. j \in DOMAIN ids /\ ids[j] = ids[k]
      BY PlaceIsThere
    <2>2. j = Place(ids, ids[j])
      BY <2>1
    <2> HIDE DEF j
    <2>3. first[j] = IF j = Place(ids, ids[j]) /\ ids[j] \in there THEN ids[j] ELSE None
      BY <2>1
    <2>4. P[k] = first[j]
      BY DEF j
    <2> QED
      BY <2>1, <2>2, <2>3, <2>4
  <1>3. \A k \in DOMAIN ids : P[k] \in Ids \cup {None}
    BY <1>2
  <1>4. P \in Seq(Ids \cup {None}) /\ Len(P) = Len(ids)
    <2>1. DOMAIN ids = 1 .. Len(ids) /\ Len(ids) \in Nat
      OBVIOUS
    <2>2. P \in [1 .. Len(ids) -> Ids \cup {None}]
      BY <1>3, <2>1
    <2> QED
      BY <2>1, <2>2
  <1> QED
    BY <1>1, <1>2, <1>4

-----------------------------------------------------------------------------
(* Types.                                                                  *)

\* The types of what the steps set; those of the history follow from them.
TypeCore ==
    /\ db \in [Ids -> Row \cup {NoRow}]
    /\ redis \in [Ids -> Copy \cup {Miss}] /\ local \in [Ids -> Copy \cup {Miss}]
    /\ slice \in Seq(Ids \cup {None})
    /\ chain \in [Ids -> [1 .. 3 -> Row \cup {Unloaded}]]
    /\ call \in CallType
    /\ calls \in Nat /\ writes \in 0 .. MaxWrites
    /\ writer \in [at : {"idle", "local", "redis", "clear"}, ids : SUBSET Ids]
    /\ unseen \subseteq Ids

LEMMA IdleIs == Idle \in CallType
  <1>1. <<>> \in [{} -> Copy] /\ <<>> \in Seq(Ids)
    OBVIOUS
  <1>2. <<>> \in Findings
    BY <1>1, FoundIs
  <1> QED
    BY <1>1, <1>2 DEF Idle, CallType, Findings, Levels

LEMMA TheSetup ==
  ASSUME setup \in Setups
  PROVE  /\ setup \in SetupType /\ MaxWrites \in Nat
         /\ setup.rows \in [Ids -> Row \cup {NoRow}]
         /\ setup.refs \subseteq Ids \cup {None}
         /\ setup.requests \subseteq Seq(Ids)
         /\ setup.calls \in Nat /\ setup.writes \in 0 .. MaxWrites
  BY SetupsAssumption DEF SetupType

LEMMA InitTypes == ASSUME Init PROVE TypeOK
  <1>0. setup \in Setups
    BY DEF Init
  <1>1. db \in [Ids -> Row \cup {NoRow}]
    BY <1>0, TheSetup DEF Init
  <1>2. ASSUME NEW i \in Ids PROVE Copies(db[i]) \subseteq Copy \cup {Miss}
    BY <1>1 DEF Copies, Copy
  <1>3. redis \in [Ids -> Copy \cup {Miss}] /\ local \in [Ids -> Copy \cup {Miss}]
    BY <1>2 DEF Init
  <1>4. chain \in [Ids -> [1 .. 3 -> Row \cup {Unloaded}]]
    <2>1. <<Unloaded, Unloaded, Unloaded>> \in [1 .. 3 -> Row \cup {Unloaded}]
      OBVIOUS
    <2> QED
      BY <2>1 DEF Init
  <1>5. /\ slice \in Seq(Ids \cup {None}) /\ call \in CallType
        /\ calls \in Nat /\ writes \in 0 .. MaxWrites
        /\ writer \in [at : {"idle", "local", "redis", "clear"}, ids : SUBSET Ids]
        /\ unseen \subseteq Ids /\ cleared \in {"no", "begun", "yes"}
    BY <1>0, TheSetup, IdleIs DEF Init
  <1>6. /\ seen \in [Ids -> SUBSET (Row \cup {NoRow})]
        /\ was \in [Ids -> SUBSET (Row \cup {NoRow})]
    BY <1>1 DEF Init
  <1> QED
    BY <1>0, <1>1, <1>3, <1>4, <1>5, <1>6 DEF TypeOK

\* What the call does with itself alone.
LEMMA CallFields ==
  ASSUME call \in CallType
  PROVE  /\ call.found \in Findings /\ call.tops \subseteq Ids /\ call.keys \subseteq Ids
         /\ call.notLocal \subseteq Ids /\ call.notRedis \subseteq Ids
         /\ call.level \in Levels /\ call.depth \in Levels /\ call.ids \in Seq(Ids)
         /\ call.missing \in BOOLEAN
  BY DEF CallType, Findings

\* The references of a chain are ids.
LEMMA ReachIs ==
  ASSUME NEW c \in [Ids -> [1 .. 3 -> Row \cup {Unloaded}]], NEW l \in {1, 2}, NEW T \in SUBSET Ids
  PROVE  Reach(c, l, T) \subseteq Ids /\ Lookup(c, l, Reach(c, l, T)) \subseteq Ids
  <1>1. ASSUME NEW p \in Reach(c, l, T) PROVE c[p][l].ref \in Ids
    <2>1. c[p][l] \in Row /\ c[p][l].ref # None
      BY DEF Reach, IsRow
    <2> QED
      BY <2>1 DEF Row
  <1> QED
    BY <1>1 DEF Reach, Lookup

LEMMA CoreOfType == ASSUME TypeOK PROVE TypeCore /\ setup \in Setups
  BY DEF TypeOK, TypeCore

LEMMA LoadByIDsTypes == ASSUME TypeOK, LoadByIDs PROVE TypeCore'
  <1> USE CoreOfType
  <1>1. PICK ids \in setup.requests, depth \in Levels :
          call' = [Idle EXCEPT !.at = "local", !.ids = ids, !.depth = depth,
                               !.tops = ToSet(ids), !.keys = ToSet(ids)]
    BY DEF LoadByIDs
  <1>2. ids \in Seq(Ids) /\ ToSet(ids) \subseteq Ids
    BY TheSetup DEF ToSet
  <1>3. call' \in CallType
    BY <1>1, <1>2, IdleIs DEF CallType
  <1>4. slice' \in Seq(Ids \cup {None}) /\ chain' \in [Ids -> [1 .. 3 -> Row \cup {Unloaded}]]
    <2>1. <<Unloaded, Unloaded, Unloaded>> \in [1 .. 3 -> Row \cup {Unloaded}]
      OBVIOUS
    <2> QED
      BY <2>1 DEF LoadByIDs
  <1> QED
    BY <1>3, <1>4 DEF LoadByIDs, TypeCore, storeVars

LEMMA LoadTypes == ASSUME TypeOK, Load PROVE TypeCore'
  <1> USE CoreOfType
  <1>1. PICK p \in ToSet(slice) \ {None}, depth \in Levels \ {0} :
          call' = [Idle EXCEPT !.at = "local", !.depth = depth, !.level = 1,
                               !.tops = Reach(chain, 1, {p}),
                               !.keys = Lookup(chain, 1, Reach(chain, 1, {p}))]
    BY DEF Load
  <1>2. p \in Ids
    <2>1. PICK k \in DOMAIN slice : p = slice[k]
      BY DEF ToSet
    <2>2. slice \in Seq(Ids \cup {None})
      BY DEF TypeCore
    <2> QED
      BY <2>1, <2>2
  <1>3. Reach(chain, 1, {p}) \subseteq Ids /\ Lookup(chain, 1, Reach(chain, 1, {p})) \subseteq Ids
    <2>1. {p} \in SUBSET Ids /\ chain \in [Ids -> [1 .. 3 -> Row \cup {Unloaded}]] /\ 1 \in {1, 2}
      BY <1>2 DEF TypeCore
    <2> QED
      BY <2>1, ReachIs
  <1>4. call' \in CallType
    <2> DEFINE T == Reach(chain, 1, {p})
               K == Lookup(chain, 1, T)
    <2>1. T \in SUBSET Ids /\ K \in SUBSET Ids /\ depth \in Levels /\ 1 \in Levels
      BY <1>3 DEF Levels
    <2>2. call' = [Idle EXCEPT !.at = "local", !.depth = depth, !.level = 1, !.tops = T, !.keys = K]
      BY <1>1
    <2> HIDE DEF T, K
    <2> QED
      BY <2>1, <2>2, IdleIs DEF CallType
  <1> QED
    BY <1>4 DEF Load, TypeCore, storeVars, entityVars

LEMMA GetLocalTypes == ASSUME TypeOK, GetLocal PROVE TypeCore'
  <1> USE CoreOfType
  <1> DEFINE hits == {i \in call.keys : setup.hasLocal /\ Answers(local[i])}
             new == [i \in hits |-> local[i]]
  <1>1. new \in Findings
    <2>1. hits \in SUBSET Ids
      BY CallFields DEF TypeCore
    <2>2. \A i \in hits : local[i] \in Copy
      BY <2>1 DEF TypeCore, Answers
    <2> HIDE DEF hits
    <2>3. new \in [hits -> Copy]
      BY <2>2
    <2> QED
      BY <2>1, <2>3, FoundIs
  <1>2. call.keys \ hits \subseteq Ids
    BY CallFields DEF TypeCore
  <1>3. call' = [call EXCEPT !.at = "redis", !.found = new, !.notLocal = call.keys \ hits,
                             !.missing = @ \/ \E i \in hits : local[i].row = NoRow]
    BY DEF GetLocal
  <1> HIDE DEF hits, new
  <1>4. call' \in CallType
    BY <1>1, <1>2, <1>3 DEF TypeCore, CallType, Findings
  <1> QED
    BY <1>4 DEF GetLocal, TypeCore, storeVars, entityVars, countVars

LEMMA GetRedisTypes == ASSUME TypeOK, GetRedis PROVE TypeCore'
  <1> USE CoreOfType
  <1> DEFINE hits == {i \in call.notLocal : setup.hasRedis /\ Answers(redis[i])}
             new == [i \in hits |-> [row |-> redis[i].row, raced |-> redis[i].raced \/ i \in Pending]]
  <1>1. new \in Findings
    <2>1. hits \in SUBSET Ids
      BY CallFields DEF TypeCore
    <2>2. \A i \in hits : redis[i] \in Copy
      BY <2>1 DEF TypeCore, Answers
    <2>4. \A i \in hits : [row |-> redis[i].row, raced |-> redis[i].raced \/ i \in Pending] \in Copy
      BY <2>2 DEF Copy
    <2> HIDE DEF hits
    <2>3. new \in [hits -> Copy]
      BY <2>4
    <2> QED
      BY <2>1, <2>3, FoundIs
  <1>2. call.notLocal \ hits \subseteq Ids
    BY CallFields DEF TypeCore
  <1>3. call' = [call EXCEPT !.at = "select", !.found = With(new), !.notRedis = call.notLocal \ hits,
                             !.missing = @ \/ \E i \in hits : redis[i].row = NoRow]
    BY DEF GetRedis
  <1> HIDE DEF hits, new
  <1>5. With(new) \in Findings
    BY <1>1, WithIs, CallFields DEF TypeCore
  <1>4. call' \in CallType
    BY <1>5, <1>2, <1>3 DEF TypeCore, CallType, Findings
  <1> QED
    BY <1>4 DEF GetRedis, TypeCore, storeVars, entityVars, countVars

LEMMA SelectTypes == ASSUME TypeOK, Select PROVE TypeCore'
  <1> USE CoreOfType
  <1> DEFINE there == {i \in call.notRedis : db[i] # NoRow}
             ids == IF call.level = 0 THEN there ELSE call.notRedis
             new == [i \in ids |-> [row |-> db[i], raced |-> FALSE]]
  <1>1. new \in Findings
    <2>1. ids \in SUBSET Ids
      BY CallFields DEF TypeCore
    <2>2. \A i \in ids : [row |-> db[i], raced |-> FALSE] \in Copy
      BY <2>1 DEF TypeCore, Copy
    <2> HIDE DEF ids
    <2>3. new \in [ids -> Copy]
      BY <2>2
    <2> QED
      BY <2>1, <2>3, FoundIs
  <1>3. call' = [call EXCEPT !.at = IF call.level = 0 THEN "fill local" ELSE "fill redis",
                             !.found = With(new),
                             !.missing = @ \/ (call.level = 0 /\ there # call.notRedis)]
    BY DEF Select
  <1> HIDE DEF there, ids, new
  <1>5. With(new) \in Findings
    BY <1>1, WithIs, CallFields DEF TypeCore
  <1>4. call' \in CallType
    BY <1>5, <1>3 DEF TypeCore, CallType, Findings
  <1> QED
    BY <1>4 DEF Select, TypeCore, storeVars, entityVars, countVars

LEMMA ReturnTypes == ASSUME TypeOK, Return PROVE TypeCore'
  BY CoreOfType, IdleIs DEF Return, TypeCore, storeVars, entityVars, countVars

LEMMA WriteTypes == ASSUME TypeOK, NEW i \in Ids, Write(i) PROVE TypeCore'
  <1> USE CoreOfType
  <1>1. PICK r \in {NoRow} \cup {[n |-> writes + 1, ref |-> x] : x \in setup.refs} :
          db' = [db EXCEPT ![i] = r]
    BY DEF Write
  <1>2. writes + 1 \in 0 .. MaxWrites
    BY TheSetup DEF Write, TypeCore
  <1>3. r \in Row \cup {NoRow}
    BY <1>1, <1>2, TheSetup DEF Row
  <1>4. db' \in [Ids -> Row \cup {NoRow}]
    BY <1>1, <1>3 DEF TypeCore
  <1>5. call' \in CallType
    <2>1. CASE i \notin DOMAIN call.found
      BY <2>1 DEF Write, TypeCore
    <2>2. CASE i \in DOMAIN call.found
      <3> DEFINE new == [call.found EXCEPT ![i] = [call.found[i] EXCEPT !.raced = TRUE]]
      <3>1. call' = [call EXCEPT !.found = new]
        BY <2>2 DEF Write, TypeCore, CallType
      <3>2. call.found[i] \in Copy /\ DOMAIN call.found \in SUBSET Ids
        BY <2>2, CallFields, FoundType DEF TypeCore
      <3>3. [call.found[i] EXCEPT !.raced = TRUE] \in Copy
        BY <3>2 DEF Copy
      <3>4. new \in [DOMAIN call.found -> Copy]
        BY <3>3, CallFields, FoundType DEF TypeCore
      <3>5. new \in Findings
        BY <3>2, <3>4, FoundIs
      <3> QED
        BY <3>1, <3>5 DEF TypeCore, CallType, Findings
    <2> QED
      BY <2>1, <2>2
  <1>6. writer' \in [at : {"idle", "local", "redis", "clear"}, ids : SUBSET Ids]
    BY DEF Write
  <1> QED
    BY <1>2, <1>4, <1>5, <1>6 DEF Write, TypeCore, entityVars

LEMMA WriterTypes ==
  ASSUME TypeOK, SetLocal \/ ClearCacheByIDs(Ids) \/ DelRedis PROVE TypeCore'
  <1> USE CoreOfType
  <1>1. CASE SetLocal
    <2>1. \A i \in Ids : [row |-> db[i], raced |-> FALSE] \in Copy
      BY DEF TypeCore, Copy
    <2>2. local' \in [Ids -> Copy \cup {Miss}]
      BY <1>1, <2>1 DEF SetLocal, TypeCore
    <2> QED
      BY <1>1, <2>2 DEF SetLocal, TypeCore, entityVars, countVars
  <1>2. CASE ClearCacheByIDs(Ids)
    <2>1. local' \in [Ids -> Copy \cup {Miss}]
      BY <1>2 DEF ClearCacheByIDs, TypeCore
    <2>2. writes' \in 0 .. MaxWrites
      BY <1>2, TheSetup DEF ClearCacheByIDs, TypeCore
    <2> QED
      BY <1>2, <2>1, <2>2 DEF ClearCacheByIDs, TypeCore, entityVars
  <1>3. CASE DelRedis
    BY <1>3 DEF DelRedis, TypeCore, entityVars, countVars
  <1> QED
    BY <1>1, <1>2, <1>3

-----------------------------------------------------------------------------
(* The steps of a call: what was looked for, and where it was found.       *)

Searched == call.at \in {"fill local", "fill redis", "filled"}

Stage ==
    /\ call.at = "idle" => call = Idle
    /\ call.at = "local" => call.found = <<>> /\ call.notLocal = {} /\ call.notRedis = {}
    /\ call.at = "redis" => DOMAIN call.found \subseteq call.keys /\ call.notLocal = call.keys \ DOMAIN call.found
    /\ call.at = "select" => /\ DOMAIN call.found \subseteq call.keys /\ call.notLocal \subseteq call.keys
                             /\ call.notRedis = call.keys \ DOMAIN call.found
                             /\ call.notRedis \subseteq call.notLocal
    /\ Searched => /\ DOMAIN call.found \subseteq call.keys /\ call.notLocal \subseteq call.keys
                   /\ call.notRedis \subseteq call.notLocal
                   /\ call.level > 0 => DOMAIN call.found = call.keys

\* What is stored was found.
LEMMA StoredIs ==
  ASSUME TypeOK, Stage, Searched, NEW ids \in {call.notLocal, call.notRedis}
  PROVE  /\ Stored(ids) \subseteq ids
         /\ \A i \in Stored(ids) : /\ i \in DOMAIN call.found /\ call.found[i] \in Copy
                                   /\ i \in call.notLocal
  <1>1. Stored(ids) \subseteq DOMAIN call.found
    BY DEF Stored, Stage
  <1>2. call.found \in Findings
    BY CoreOfType, CallFields DEF TypeCore
  <1>3. \A i \in DOMAIN call.found : call.found[i] \in Copy
    BY <1>2, FoundType
  <1>4. Stored(ids) \subseteq ids /\ ids \subseteq call.notLocal
    BY DEF Stored, Stage
  <1> QED
    BY <1>1, <1>3, <1>4

LEMMA FillTypes == ASSUME TypeOK, Stage, FillLocal \/ FillRedis PROVE TypeCore'
  <1>0. TypeCore
    BY CoreOfType
  <1>1. CASE FillLocal
    <2> DEFINE ids == IF setup.hasLocal THEN Stored(call.notLocal) ELSE {}
    <2>1. \A i \in ids : call.found[i] \in Copy
      BY <1>1, StoredIs DEF FillLocal, Searched
    <2>2. local' = [i \in Ids |-> IF i \in ids THEN call.found[i] ELSE local[i]] /\ unseen' = unseen \ ids
      BY <1>1 DEF FillLocal
    <2> HIDE DEF ids
    <2>3. local' \in [Ids -> Copy \cup {Miss}] /\ unseen' \subseteq Ids
      BY <1>0, <2>1, <2>2 DEF TypeCore
    <2>4. call' \in CallType
      BY <1>0, <1>1 DEF FillLocal, TypeCore, CallType
    <2> QED
      BY <1>0, <1>1, <2>3, <2>4 DEF FillLocal, TypeCore, entityVars, countVars
  <1>2. CASE FillRedis
    <2>1. \A i \in Stored(call.notRedis) : call.found[i] \in Copy
      BY <1>2, StoredIs DEF FillRedis, Searched
    <2>2. redis' = [i \in Ids |-> IF setup.hasRedis /\ i \in Stored(call.notRedis) THEN call.found[i] ELSE redis[i]]
      BY <1>2 DEF FillRedis
    <2>3. redis' \in [Ids -> Copy \cup {Miss}]
      BY <1>0, <2>1, <2>2 DEF TypeCore
    <2>4. call' \in CallType
      BY <1>0, <1>2 DEF FillRedis, TypeCore, CallType
    <2> QED
      BY <1>0, <1>2, <2>3, <2>4 DEF FillRedis, TypeCore, entityVars, countVars
  <1> QED
    BY <1>1, <1>2

\* What Filled makes of the chains, and of the call.
Has(p) == p \in call.tops /\ IdAt(p, call.level) \in Found
Chained == [p \in Ids |-> IF Has(p)
                          THEN [chain[p] EXCEPT ![call.level + 1] = call.found[IdAt(p, call.level)].row]
                          ELSE chain[p]]
Onward == IF call.level < call.depth
          THEN Reach(Chained, call.level + 1, {p \in call.tops : Has(p)}) ELSE {}

LEMMA FilledIs ==
  ASSUME Filled
  PROVE  /\ call.at = "filled"
         /\ chain' = Chained
         /\ slice' = IF call.level = 0 THEN Placed(call.ids, Found) ELSE slice
         /\ call' = IF Onward = {} THEN [call EXCEPT !.at = "done"]
                    ELSE [call EXCEPT !.at = "local", !.level = @ + 1, !.tops = Onward,
                                      !.keys = Lookup(Chained, call.level + 1, Onward), !.found = <<>>,
                                      !.notLocal = {}, !.notRedis = {}]
         /\ UNCHANGED <<storeVars, writer, countVars, unseen>>
  BY DEF Filled, Has, Chained, Onward

LEMMA FilledTypes == ASSUME TypeOK, Filled PROVE TypeCore' /\ Onward \subseteq call.tops
  <1>0. TypeCore /\ call.found \in Findings /\ call.tops \subseteq Ids /\ call.level \in 0 .. 2 /\ call.depth \in 0 .. 2
    BY CoreOfType, CallFields DEF TypeCore, Levels
  <1>1. \A i \in Found : call.found[i].row \in Row
    <2>1. \A i \in DOMAIN call.found : call.found[i] \in Copy
      BY <1>0, FoundType
    <2> QED
      BY <2>1 DEF Found, Copy
  <1>2. Chained \in [Ids -> [1 .. 3 -> Row \cup {Unloaded}]]
    <2>1. ASSUME NEW p \in Ids
          PROVE  (IF Has(p) THEN [chain[p] EXCEPT ![call.level + 1] = call.found[IdAt(p, call.level)].row]
                            ELSE chain[p]) \in [1 .. 3 -> Row \cup {Unloaded}]
      <3>1. chain[p] \in [1 .. 3 -> Row \cup {Unloaded}]
        BY <1>0 DEF TypeCore
      <3>2. CASE Has(p)
        <4>1. call.found[IdAt(p, call.level)].row \in Row
          BY <1>1, <3>2 DEF Has
        <4> QED
          BY <3>1, <3>2, <4>1
      <3> QED
        BY <3>1, <3>2
    <2> QED
      BY <2>1 DEF Chained
  <1>3. Onward \subseteq call.tops /\ Onward \subseteq Ids
    BY <1>0 DEF Onward, Reach
  <1>4. CASE Onward = {}
    <2>1. call' \in CallType
      BY <1>0, <1>4, FilledIs DEF TypeCore, CallType
    <2>2. slice' \in Seq(Ids \cup {None})
      BY <1>0, FilledIs, PlacedIs, CallFields DEF TypeCore
    <2> QED
      BY <1>0, <1>2, <1>3, <2>1, <2>2, FilledIs DEF TypeCore, storeVars, countVars
  <1>5. CASE Onward # {}
    <2> DEFINE T == {p \in call.tops : Has(p)}
    <2>1. call.level + 1 \in {1, 2} /\ Onward = Reach(Chained, call.level + 1, T) /\ T \in SUBSET Ids
      BY <1>0, <1>5 DEF Onward
    <2> HIDE DEF T
    <2>2. Lookup(Chained, call.level + 1, Onward) \subseteq Ids
      BY <1>2, <2>1, ReachIs
    <2>3. <<>> \in Findings
      BY IdleIs, CallFields DEF CallType, Idle, Findings
    <2>4. call' = [call EXCEPT !.at = "local", !.level = @ + 1, !.tops = Onward,
                               !.keys = Lookup(Chained, call.level + 1, Onward), !.found = <<>>,
                               !.notLocal = {}, !.notRedis = {}]
      BY <1>5, FilledIs
    <2>5. call' \in CallType
      <3> DEFINE K == Lookup(Chained, call.level + 1, Onward)
                 l == call.level + 1
      <3>1. K \in SUBSET Ids /\ Onward \in SUBSET Ids /\ call \in CallType /\ l \in Levels
        BY <1>0, <1>3, <2>1, <2>2 DEF TypeCore, Levels
      <3>2. call' = [call EXCEPT !.at = "local", !.level = l, !.tops = Onward, !.keys = K, !.found = <<>>,
                                 !.notLocal = {}, !.notRedis = {}]
        BY <2>4, <1>0 DEF TypeCore, CallType
      <3> HIDE DEF K, l
      <3> QED
        BY <2>3, <3>1, <3>2 DEF CallType, Findings
    <2>6. slice' \in Seq(Ids \cup {None})
      BY <1>0, FilledIs, PlacedIs, CallFields DEF TypeCore
    <2> QED
      BY <1>0, <1>2, <1>3, <2>5, <2>6, FilledIs DEF TypeCore, storeVars, countVars
  <1> QED
    BY <1>4, <1>5

LEMMA NextTypes == ASSUME TypeOK, Stage, Next PROVE TypeOK'
  <1>1. TypeCore'
    BY LoadByIDsTypes, LoadTypes, GetLocalTypes, GetRedisTypes, SelectTypes, FillTypes, FilledTypes,
       ReturnTypes, WriteTypes, WriterTypes DEF Next, Step
  <1>2. setup' \in Setups
    BY CoreOfType DEF Next
  <1>3. ASSUME NEW i \in Ids
        PROVE  /\ Said(was, i, {db'[i]}) \subseteq Row \cup {NoRow}
               /\ Said(seen, i, {db'[i]} \cup RowIn(redis'[i]) \cup RowIn(local'[i])) \subseteq Row \cup {NoRow}
    <2>1. db'[i] \in Row \cup {NoRow} /\ redis'[i] \in Copy \cup {Miss} /\ local'[i] \in Copy \cup {Miss}
      BY <1>1 DEF TypeCore
    <2>2. RowIn(redis'[i]) \subseteq Row \cup {NoRow} /\ RowIn(local'[i]) \subseteq Row \cup {NoRow}
      BY <2>1 DEF RowIn, Copy
    <2>3. was[i] \subseteq Row \cup {NoRow} /\ seen[i] \subseteq Row \cup {NoRow}
      BY DEF TypeOK
    <2> QED
      BY <2>1, <2>2, <2>3 DEF Said
  <1>4. /\ seen' \in [Ids -> SUBSET (Row \cup {NoRow})]
        /\ was' \in [Ids -> SUBSET (Row \cup {NoRow})]
    BY <1>3 DEF Next
  <1>5. cleared' \in {"no", "begun", "yes"}
    BY DEF Next, Clearing, TypeOK
  <1> QED
    BY <1>1, <1>2, <1>4, <1>5 DEF TypeOK, TypeCore

-----------------------------------------------------------------------------
(* What each search leaves in the call.                                    *)

SameQuestion == /\ call'.ids = call.ids /\ call'.depth = call.depth /\ call'.level = call.level
                /\ call'.tops = call.tops /\ call'.keys = call.keys

LEMMA GetLocalIs ==
  ASSUME TypeOK, Stage, GetLocal
  PROVE  /\ call'.at = "redis" /\ SameQuestion
         /\ DOMAIN call'.found = {i \in call.keys : setup.hasLocal /\ Answers(local[i])}
         /\ \A i \in DOMAIN call'.found : call'.found[i] = local[i]
         /\ call'.notLocal = call.keys \ DOMAIN call'.found
         /\ call'.missing = (call.missing \/ \E i \in DOMAIN call'.found : call'.found[i].row = NoRow)
  <1> DEFINE hits == {i \in call.keys : setup.hasLocal /\ Answers(local[i])}
             new == [i \in hits |-> local[i]]
  <1>1. call' = [call EXCEPT !.at = "redis", !.found = new, !.notLocal = call.keys \ hits,
                             !.missing = @ \/ \E i \in hits : local[i].row = NoRow]
    BY DEF GetLocal
  <1>2. DOMAIN new = hits /\ \A i \in hits : new[i] = local[i]
    OBVIOUS
  <1>3. call \in CallType
    BY DEF TypeOK
  <1> HIDE DEF hits, new
  <1>4. /\ call'.at = "redis" /\ call'.found = new /\ call'.notLocal = call.keys \ hits /\ SameQuestion
        /\ call'.missing = (call.missing \/ \E i \in hits : local[i].row = NoRow)
    BY <1>1, <1>3 DEF CallType, SameQuestion
  <1> QED
    BY <1>2, <1>4 DEF hits

LEMMA GetRedisIs ==
  ASSUME TypeOK, Stage, GetRedis
  PROVE  /\ call'.at = "select" /\ SameQuestion /\ call'.notLocal = call.notLocal
         /\ DOMAIN call'.found = DOMAIN call.found \cup {i \in call.notLocal : setup.hasRedis /\ Answers(redis[i])}
         /\ \A i \in DOMAIN call.found : call'.found[i] = call.found[i]
         /\ \A i \in DOMAIN call'.found \ DOMAIN call.found :
              /\ call'.found[i].row = redis[i].row /\ Answers(redis[i]) /\ i \in call.notLocal
              /\ call'.found[i].raced = (redis[i].raced \/ i \in Pending)
         /\ call'.notRedis = call.keys \ DOMAIN call'.found
         /\ call'.missing = (call.missing \/ \E i \in DOMAIN call'.found \ DOMAIN call.found : call'.found[i].row = NoRow)
  <1> DEFINE hits == {i \in call.notLocal : setup.hasRedis /\ Answers(redis[i])}
             value(i) == [row |-> redis[i].row, raced |-> redis[i].raced \/ i \in Pending]
             new == [i \in hits |-> value(i)]
  <1>1. call' = [call EXCEPT !.at = "select", !.found = With(new), !.notRedis = call.notLocal \ hits,
                             !.missing = @ \/ \E i \in hits : redis[i].row = NoRow]
    BY DEF GetRedis
  <1>2. DOMAIN new = hits /\ \A i \in hits : new[i] = value(i)
    OBVIOUS
  <1>3. call \in CallType /\ call.at = "redis"
    BY DEF TypeOK, GetRedis
  <1>4. hits \cap DOMAIN call.found = {} /\ call.notLocal = call.keys \ DOMAIN call.found
    BY <1>3 DEF Stage
  <1> HIDE DEF hits, new
  <1>5. /\ DOMAIN With(new) = hits \cup DOMAIN call.found
        /\ \A i \in hits : With(new)[i] = value(i)
        /\ \A i \in DOMAIN call.found : With(new)[i] = call.found[i]
    BY <1>2, <1>4 DEF With
  <1>6. /\ call'.at = "select" /\ call'.found = With(new) /\ call'.notRedis = call.notLocal \ hits
        /\ call'.notLocal = call.notLocal /\ SameQuestion
        /\ call'.missing = (call.missing \/ \E i \in hits : redis[i].row = NoRow)
    BY <1>1, <1>3 DEF CallType, SameQuestion
  <1>7. DOMAIN call'.found \ DOMAIN call.found = hits
    BY <1>4, <1>5, <1>6
  <1>8. \A i \in hits : /\ call'.found[i].row = redis[i].row /\ Answers(redis[i]) /\ i \in call.notLocal
                        /\ call'.found[i].raced = (redis[i].raced \/ i \in Pending)
    <2>1. ASSUME NEW i \in hits
          PROVE  /\ call'.found[i].row = redis[i].row /\ Answers(redis[i]) /\ i \in call.notLocal
                 /\ call'.found[i].raced = (redis[i].raced \/ i \in Pending)
      <3> DEFINE b == redis[i].raced \/ i \in Pending
      <3>1. value(i) = [row |-> redis[i].row, raced |-> b]
        OBVIOUS
      <3>2. call'.found[i] = value(i) /\ Answers(redis[i]) /\ i \in call.notLocal
        BY <1>5, <1>6 DEF hits
      <3> HIDE DEF b, value
      <3>3. call'.found[i].row = redis[i].row /\ call'.found[i].raced = b
        BY <3>1, <3>2
      <3> QED
        BY <3>2, <3>3 DEF b
    <2> QED
      BY <2>1
  <1>9. call'.notRedis = call.keys \ DOMAIN call'.found
    BY <1>4, <1>5, <1>6
  <1>10. DOMAIN call'.found = DOMAIN call.found \cup {i \in call.notLocal : setup.hasRedis /\ Answers(redis[i])}
    BY <1>5, <1>6 DEF hits
  <1>11. \A i \in DOMAIN call.found : call'.found[i] = call.found[i]
    BY <1>5, <1>6
  <1>12. call'.missing = (call.missing \/ \E i \in hits : call'.found[i].row = NoRow)
    BY <1>6, <1>8
  <1> QED
    BY <1>6, <1>7, <1>8, <1>9, <1>10, <1>11, <1>12

LEMMA SelectIs ==
  ASSUME TypeOK, Stage, Select
  PROVE  /\ call'.at = IF call.level = 0 THEN "fill local" ELSE "fill redis"
         /\ SameQuestion /\ call'.notLocal = call.notLocal /\ call'.notRedis = call.notRedis
         /\ DOMAIN call'.found =
              DOMAIN call.found \cup {i \in call.notRedis : call.level = 0 => db[i] # NoRow}
         /\ \A i \in DOMAIN call.found : call'.found[i] = call.found[i]
         /\ \A i \in DOMAIN call'.found \ DOMAIN call.found :
              call'.found[i] = [row |-> db[i], raced |-> FALSE]
         /\ call'.missing = (call.missing \/ (call.level = 0 /\ \E i \in call.notRedis : db[i] = NoRow))
  <1> DEFINE there == {i \in call.notRedis : db[i] # NoRow}
             ids == IF call.level = 0 THEN there ELSE call.notRedis
             new == [i \in ids |-> [row |-> db[i], raced |-> FALSE]]
  <1>1. call' = [call EXCEPT !.at = IF call.level = 0 THEN "fill local" ELSE "fill redis",
                             !.found = With(new),
                             !.missing = @ \/ (call.level = 0 /\ there # call.notRedis)]
    BY DEF Select
  <1>2. DOMAIN new = ids /\ \A i \in ids : new[i] = [row |-> db[i], raced |-> FALSE]
    OBVIOUS
  <1>3. call \in CallType /\ call.at = "select"
    BY DEF TypeOK, Select
  <1>4. ids \cap DOMAIN call.found = {}
    BY <1>3 DEF Stage
  <1>0. /\ ids = {i \in call.notRedis : call.level = 0 => db[i] # NoRow}
        /\ there # call.notRedis <=> \E i \in call.notRedis : db[i] = NoRow
    OBVIOUS
  <1> HIDE DEF there, ids, new
  <1>5. /\ DOMAIN With(new) = ids \cup DOMAIN call.found
        /\ \A i \in ids : With(new)[i] = [row |-> db[i], raced |-> FALSE]
        /\ \A i \in DOMAIN call.found : With(new)[i] = call.found[i]
    BY <1>2, <1>4 DEF With
  <1>6. /\ call'.at = IF call.level = 0 THEN "fill local" ELSE "fill redis"
        /\ call'.found = With(new) /\ call'.notRedis = call.notRedis
        /\ call'.notLocal = call.notLocal /\ SameQuestion
        /\ call'.missing = (call.missing \/ (call.level = 0 /\ there # call.notRedis))
    BY <1>1, <1>3 DEF CallType, SameQuestion
  <1> QED
    BY <1>0, <1>4, <1>5, <1>6

\* A write marks what was found, and leaves the rest of the call.
LEMMA WriteIs ==
  ASSUME TypeOK, NEW i \in Ids, Write(i)
  PROVE  /\ call'.at = call.at /\ SameQuestion /\ call'.notLocal = call.notLocal
         /\ call'.notRedis = call.notRedis /\ call'.missing = call.missing
         /\ DOMAIN call'.found = DOMAIN call.found
         /\ \A j \in DOMAIN call.found : call'.found[j].row = call.found[j].row
         /\ \A j \in DOMAIN call.found : j # i => call'.found[j] = call.found[j]
         /\ i \in DOMAIN call.found => call'.found[i].raced
         /\ i \notin DOMAIN call.found => call' = call
         /\ \A j \in Ids : j # i => db'[j] = db[j]
  <1>1. call \in CallType
    BY DEF TypeOK
  <1>2. \A j \in Ids : j # i => db'[j] = db[j]
    BY DEF Write, TypeOK
  <1>3. CASE i \notin DOMAIN call.found
    BY <1>2, <1>3 DEF Write, SameQuestion
  <1>4. CASE i \in DOMAIN call.found
    <2> DEFINE new == [call.found EXCEPT ![i] = [call.found[i] EXCEPT !.raced = TRUE]]
    <2>1. call' = [call EXCEPT !.found = new]
      BY <1>1, <1>4 DEF Write, CallType
    <2>2. call.found[i] \in Copy
      BY <1>1, <1>4, CallFields, FoundType
    <2>3. /\ DOMAIN new = DOMAIN call.found /\ new[i].row = call.found[i].row /\ new[i].raced
          /\ \A j \in DOMAIN call.found : j # i => new[j] = call.found[j]
      BY <1>4, <2>2 DEF Copy
    <2> HIDE DEF new
    <2>4. /\ call'.at = call.at /\ SameQuestion /\ call'.notLocal = call.notLocal
          /\ call'.notRedis = call.notRedis /\ call'.missing = call.missing /\ call'.found = new
      BY <1>1, <2>1 DEF CallType, SameQuestion
    <2> QED
      BY <1>2, <1>4, <2>3, <2>4
  <1> QED
    BY <1>3, <1>4

LEMMA LoadByIDsIs ==
  ASSUME TypeOK, LoadByIDs
  PROVE  /\ call'.at = "local" /\ call'.level = 0 /\ call'.depth \in Levels /\ call'.ids \in Seq(Ids)
         /\ call'.tops = ToSet(call'.ids) /\ call'.keys = call'.tops
         /\ call'.found = <<>> /\ call'.notLocal = {} /\ call'.notRedis = {} /\ call'.missing = FALSE
  <1>1. setup \in SetupType
    BY SetupsAssumption DEF TypeOK
  <1> QED
    BY <1>1 DEF LoadByIDs, Idle, SetupType

LEMMA LoadIs ==
  ASSUME TypeOK, Load
  PROVE  \E p \in Ids :
         /\ call'.at = "local" /\ call'.level = 1 /\ call'.depth \in {1, 2} /\ call'.ids = <<>>
         /\ call'.tops = Reach(chain, 1, {p}) /\ call'.keys = Lookup(chain, 1, call'.tops)
         /\ call'.tops # {}
         /\ call'.found = <<>> /\ call'.notLocal = {} /\ call'.notRedis = {} /\ call'.missing = FALSE
  <1>1. PICK p \in ToSet(slice) \ {None}, depth \in Levels \ {0} :
          /\ Reach(chain, 1, {p}) # {}
          /\ call' = [Idle EXCEPT !.at = "local", !.depth = depth, !.level = 1,
                               !.tops = Reach(chain, 1, {p}),
                               !.keys = Lookup(chain, 1, Reach(chain, 1, {p}))]
    BY DEF Load
  <1>2. p \in Ids
    <2>1. PICK k \in DOMAIN slice : p = slice[k]
      BY DEF ToSet
    <2>2. slice \in Seq(Ids \cup {None})
      BY DEF TypeOK
    <2> QED
      BY <2>1, <2>2
  <1>3. depth \in {1, 2}
    BY DEF Levels
  <1> DEFINE T == Reach(chain, 1, {p})
             K == Lookup(chain, 1, T)
  <1>4. call' = [Idle EXCEPT !.at = "local", !.depth = depth, !.level = 1, !.tops = T, !.keys = K] /\ T # {}
    BY <1>1
  <1> HIDE DEF T, K
  <1>5. /\ call'.at = "local" /\ call'.level = 1 /\ call'.depth = depth /\ call'.ids = <<>>
        /\ call'.tops = T /\ call'.keys = K
        /\ call'.found = <<>> /\ call'.notLocal = {} /\ call'.notRedis = {} /\ call'.missing = FALSE
    BY <1>4 DEF Idle
  <1> QED
    BY <1>2, <1>3, <1>4, <1>5 DEF T, K

LEMMA FillIs ==
  ASSUME TypeOK, FillLocal \/ FillRedis
  PROVE  /\ Searched /\ Searched' /\ SameQuestion /\ call'.found = call.found
         /\ call'.notLocal = call.notLocal /\ call'.notRedis = call.notRedis /\ call'.missing = call.missing
  BY DEF FillLocal, FillRedis, TypeOK, CallType, SameQuestion, Searched

LEMMA FilledFields ==
  ASSUME TypeOK, Filled
  PROVE  /\ Onward = {} => /\ call'.at = "done" /\ SameQuestion /\ call'.found = call.found
                           /\ call'.notLocal = call.notLocal
         /\ Onward # {} => /\ call'.at = "local" /\ call'.level = call.level + 1 /\ call'.tops = Onward
                           /\ call'.keys = Lookup(Chained, call.level + 1, Onward)
                           /\ call'.ids = call.ids /\ call'.depth = call.depth
                           /\ call'.found = <<>> /\ call'.notLocal = {} /\ call'.notRedis = {}
         /\ call'.missing = call.missing
  <1>1. call \in CallType
    BY DEF TypeOK
  <1> DEFINE K == Lookup(Chained, call.level + 1, Onward)
             l == call.level + 1
             T == Onward
  <1>2. call' = IF T = {} THEN [call EXCEPT !.at = "done"]
                ELSE [call EXCEPT !.at = "local", !.level = @ + 1, !.tops = T, !.keys = K, !.found = <<>>,
                                  !.notLocal = {}, !.notRedis = {}]
    BY FilledIs
  <1> HIDE DEF K, T
  <1>3. /\ T = {} => /\ call'.at = "done" /\ SameQuestion /\ call'.found = call.found
                     /\ call'.notLocal = call.notLocal
        /\ T # {} => /\ call'.at = "local" /\ call'.level = l /\ call'.tops = T /\ call'.keys = K
                     /\ call'.ids = call.ids /\ call'.depth = call.depth
                     /\ call'.found = <<>> /\ call'.notLocal = {} /\ call'.notRedis = {}
        /\ call'.missing = call.missing
    BY <1>1, <1>2 DEF CallType, SameQuestion
  <1> QED
    BY <1>3 DEF K, T

LEMMA NextStage == ASSUME TypeOK, Stage, Next PROVE Stage'
  <1>1. CASE LoadByIDs
    BY <1>1, LoadByIDsIs DEF Stage, Searched
  <1>2. CASE Load
    BY <1>2, LoadIs DEF Stage, Searched
  <1>3. CASE GetLocal
    BY <1>3, GetLocalIs DEF Stage, Searched, SameQuestion
  <1>4. CASE GetRedis
    <2>1. call.at = "redis"
      BY <1>4 DEF GetRedis
    <2> QED
      BY <1>4, <2>1, GetRedisIs DEF Stage, Searched, SameQuestion
  <1>5. CASE Select
    <2>1. call.at = "select"
      BY <1>5 DEF Select
    <2>2. Searched' /\ call'.at \notin {"idle", "local", "redis", "select"}
      BY <1>5, SelectIs DEF Searched
    <2>3. call'.level > 0 => DOMAIN call'.found = call'.keys
      <3>1. ASSUME call.level > 0 PROVE DOMAIN call'.found = DOMAIN call.found \cup call.notRedis
        <4>1. call.level # 0
          BY <3>1
        <4>2. {i \in call.notRedis : call.level = 0 => db[i] # NoRow} = call.notRedis
          BY <4>1
        <4> QED
          BY <1>5, <4>2, SelectIs
      <3>2. DOMAIN call.found \subseteq call.keys /\ call.notRedis = call.keys \ DOMAIN call.found
        BY <2>1 DEF Stage
      <3>3. call'.level = call.level /\ call'.keys = call.keys
        BY <1>5, SelectIs DEF SameQuestion
      <3> QED
        BY <3>1, <3>2, <3>3
    <2>4. DOMAIN call'.found \subseteq call'.keys
      BY <1>5, <2>1, SelectIs DEF Stage, SameQuestion
    <2>5. call'.notLocal \subseteq call'.keys /\ call'.notRedis \subseteq call'.notLocal
      BY <1>5, <2>1, SelectIs DEF Stage, SameQuestion
    <2> QED
      BY <2>2, <2>3, <2>4, <2>5 DEF Stage
  <1>6. CASE FillLocal \/ FillRedis
    BY <1>6, FillIs DEF Stage, SameQuestion, Searched
  <1>7. CASE Filled
    BY <1>7, FilledFields DEF Stage, Searched
  <1>8. CASE Return
    BY <1>8 DEF Return, Stage, Searched, Idle
  <1>9. ASSUME NEW i \in Ids, Write(i) PROVE Stage'
    <2>1. ASSUME call.at = "idle" PROVE call' = call
      <3>1. call.found = <<>>
        BY <2>1 DEF Stage, Idle
      <3>2. i \notin DOMAIN call.found
        BY <3>1
      <3> QED
        BY <1>9, <3>2, WriteIs
    <2>2. ASSUME call.at = "local" PROVE call'.found = <<>>
      <3>1. call.found = <<>>
        BY <2>2 DEF Stage
      <3>2. i \notin DOMAIN call.found
        BY <3>1
      <3> QED
        BY <1>9, <3>1, <3>2, WriteIs
    <2> QED
      BY <1>9, <2>1, <2>2, WriteIs DEF Stage, Searched, SameQuestion
  <1>10. CASE SetLocal \/ ClearCacheByIDs(Ids) \/ DelRedis
    BY <1>10 DEF SetLocal, ClearCacheByIDs, DelRedis, Stage, Searched
  <1> QED
    BY <1>1, <1>2, <1>3, <1>4, <1>5, <1>6, <1>7, <1>8, <1>9, <1>10 DEF Next, Step

-----------------------------------------------------------------------------
(* Copies of rows.                                                         *)

\* What a search found and may be stored is the row, or was read before a write of it.
FoundExplained ==
    \A i \in DOMAIN call.found : i \in call.notLocal => call.found[i].row = db[i] \/ call.found[i].raced

\* What ClearCacheByIDs has done, and what may be stored when it has come to its end.
Cleared ==
    /\ cleared = "begun" => /\ call.at = "idle" /\ writer.at = "clear" /\ writer.ids = Ids
                            /\ setup.shared => \A i \in Ids : local[i] = Miss
    /\ cleared = "yes" =>
         /\ writer.at = "idle"
         /\ \A i \in DOMAIN call.found : i \in call.notLocal => call.found[i].row = db[i]

Caches == FoundExplained /\ CopiesExplained /\ Cleared /\ ClearHeals

LEMMA InitCaches == ASSUME Init PROVE Stage /\ Caches
  <1>1. Stage
    BY DEF Init, Stage, Searched, Idle
  <1>2. \A i \in Ids : /\ redis[i] # Miss => redis[i].row = db[i]
                       /\ local[i] # Miss => local[i].row = db[i]
    <2>1. ASSUME NEW i \in Ids
          PROVE  redis[i] \in Copies(db[i]) \cup {Miss} /\ local[i] \in Copies(db[i]) \cup {Miss}
      BY DEF Init
    <2> QED
      BY <2>1 DEF Copies
  <1>3. DOMAIN call.found = {}
    BY DEF Init, Idle
  <1> QED
    BY <1>1, <1>2, <1>3 DEF Caches, FoundExplained, CopiesExplained, Cleared, ClearHeals, Init

\* Steps that only change the call.
LEMMA CallCaches ==
  ASSUME TypeOK, Stage, Caches, Next, UNCHANGED <<storeVars, writer, writes, unseen>>,
         \A i \in DOMAIN call'.found : i \in call'.notLocal =>
           \/ i \in DOMAIN call.found /\ i \in call.notLocal /\ call'.found[i] = call.found[i]
           \/ redis[i] # Miss /\ call'.found[i].row = redis[i].row /\ i \in Ids
              /\ (call'.found[i].raced = (redis[i].raced \/ i \in Pending))
           \/ call'.found[i].row = db[i]
  PROVE  Caches'
  <1>1. /\ db' = db /\ redis' = redis /\ local' = local /\ writer' = writer /\ unseen' = unseen /\ setup' = setup
        /\ Pending' = Pending
    BY DEF Next, storeVars, Pending
  <1>2. FoundExplained'
    <2>1. ASSUME NEW i \in DOMAIN call'.found, i \in call'.notLocal
          PROVE  call'.found[i].row = db[i] \/ call'.found[i].raced
      <3>1. CASE i \in DOMAIN call.found /\ i \in call.notLocal /\ call'.found[i] = call.found[i]
        BY <3>1 DEF Caches, FoundExplained
      <3>2. CASE redis[i] # Miss /\ call'.found[i].row = redis[i].row /\ i \in Ids
                 /\ (call'.found[i].raced = (redis[i].raced \/ i \in Pending))
        <4>1. redis[i].row = db[i] \/ redis[i].raced \/ i \in Pending
          BY <3>2 DEF Caches, CopiesExplained
        <4> QED
          BY <3>2, <4>1
      <3>3. CASE call'.found[i].row = db[i]
        BY <3>3
      <3> QED
        BY <2>1, <3>1, <3>2, <3>3
    <2> QED
      BY <1>1, <2>1 DEF FoundExplained
  <1>3. CopiesExplained'
    BY <1>1 DEF Caches, CopiesExplained
  <1>4. cleared' \in {cleared, "no"}
    BY <1>1 DEF Next, Clearing, Caches, Cleared
  <1>5. Cleared'
    <2>1. ASSUME cleared' = "begun" PROVE cleared = "begun" /\ call'.at = "idle"
      BY <1>1, <1>4, <2>1 DEF Next, Clearing
    <2>2. ASSUME cleared' = "yes", NEW i \in DOMAIN call'.found, i \in call'.notLocal
          PROVE  call'.found[i].row = db[i]
      <3>1. cleared = "yes"
        BY <1>4, <2>2
      <3>2. CASE i \in DOMAIN call.found /\ i \in call.notLocal /\ call'.found[i] = call.found[i]
        BY <3>1, <3>2 DEF Caches, Cleared
      <3>3. CASE redis[i] # Miss /\ call'.found[i].row = redis[i].row /\ i \in Ids
        BY <3>1, <3>3 DEF Caches, ClearHeals
      <3> QED
        BY <2>2, <3>2, <3>3
    <2> QED
      BY <1>1, <1>4, <2>1, <2>2 DEF Caches, Cleared
  <1>6. ClearHeals'
    BY <1>1, <1>4 DEF Caches, ClearHeals
  <1> QED
    BY <1>2, <1>3, <1>5, <1>6 DEF Caches

LEMMA FillCaches ==
  ASSUME TypeOK, Stage, Caches, Next, FillLocal \/ FillRedis PROVE Caches'
  <1>1. /\ db' = db /\ writer' = writer /\ setup' = setup /\ Pending' = Pending
        /\ call'.found = call.found /\ call'.notLocal = call.notLocal
        /\ Searched /\ Searched'
    BY FillIs DEF Next, FillLocal, FillRedis, Pending
  <1>2. cleared' = cleared /\ cleared # "begun"
    <2>1. call.at # "idle"
      BY <1>1 DEF Searched
    <2> QED
      BY <1>1, <2>1 DEF Next, Clearing, Caches, Cleared
  <1>3. ASSUME NEW i \in Stored(call.notLocal) \cup Stored(call.notRedis)
        PROVE  /\ call.found[i].row = db[i] \/ call.found[i].raced
               /\ cleared = "yes" => call.found[i].row = db[i]
    <2>1. i \in DOMAIN call.found /\ i \in call.notLocal
      BY <1>1, StoredIs
    <2> QED
      BY <2>1 DEF Caches, FoundExplained, Cleared
  <1>4. ASSUME NEW i \in Ids
        PROVE  /\ \/ redis'[i] = redis[i]
                  \/ redis'[i] = call.found[i] /\ i \in Stored(call.notRedis)
               /\ \/ local'[i] = local[i] /\ (i \in unseen => i \in unseen')
                  \/ local'[i] = call.found[i] /\ i \in Stored(call.notLocal)
    BY DEF FillLocal, FillRedis, TypeOK
  <1>5. CopiesExplained'
    <2>1. ASSUME NEW i \in Ids
          PROVE  /\ redis'[i] # Miss => redis'[i].row = db[i] \/ redis'[i].raced \/ i \in Pending
                 /\ local'[i] # Miss => \/ local'[i].row = db[i] \/ local'[i].raced \/ i \in unseen'
                                        \/ setup.shared /\ writer.at = "local" /\ i \in writer.ids
      BY <1>3, <1>4 DEF Caches, CopiesExplained
    <2> QED
      BY <1>1, <2>1 DEF CopiesExplained
  <1>6. ClearHeals'
    <2>1. ASSUME cleared = "yes", NEW i \in Ids
          PROVE  /\ redis'[i] # Miss => redis'[i].row = db[i]
                 /\ setup.shared /\ local'[i] # Miss => local'[i].row = db[i]
      BY <1>3, <1>4, <2>1 DEF Caches, ClearHeals
    <2> QED
      BY <1>1, <1>2, <2>1 DEF ClearHeals
  <1>7. FoundExplained' /\ Cleared'
    BY <1>1, <1>2 DEF Caches, FoundExplained, Cleared
  <1> QED
    BY <1>5, <1>6, <1>7 DEF Caches

LEMMA WriteCaches ==
  ASSUME TypeOK, Stage, Caches, Next, NEW i \in Ids, Write(i) PROVE Caches'
  <1>1. /\ redis' = redis /\ local' = local /\ setup' = setup /\ writer.at = "idle"
        /\ writer' = [at |-> IF setup.shared THEN "local" ELSE "redis", ids |-> {i}]
        /\ unseen' = IF setup.shared THEN unseen ELSE unseen \cup {i}
    BY DEF Next, Write
  <1>2. Pending = {} /\ Pending' = {i}
    BY <1>1 DEF Pending
  <1>3. cleared' = "no"
    BY <1>1 DEF Next, Clearing
  <1>4. FoundExplained'
    <2>1. ASSUME NEW j \in DOMAIN call'.found, j \in call'.notLocal
          PROVE  call'.found[j].row = db'[j] \/ call'.found[j].raced
      <3>0. j \in DOMAIN call.found /\ j \in call.notLocal /\ j \in Ids
        BY <2>1, WriteIs, CallFields DEF TypeOK
      <3>1. CASE j = i
        BY <3>0, <3>1, WriteIs
      <3>2. CASE j # i
        <4>1. call'.found[j] = call.found[j] /\ db'[j] = db[j]
          BY <3>0, <3>2, WriteIs
        <4>2. call.found[j].row = db[j] \/ call.found[j].raced
          BY <3>0 DEF Caches, FoundExplained
        <4> QED
          BY <4>1, <4>2
      <3> QED
        BY <3>1, <3>2
    <2> QED
      BY <2>1 DEF FoundExplained
  <1>5. CopiesExplained'
    <2>1. ASSUME NEW j \in Ids
          PROVE  /\ redis[j] # Miss => redis[j].row = db'[j] \/ redis[j].raced \/ j \in Pending'
                 /\ local[j] # Miss => \/ local[j].row = db'[j] \/ local[j].raced \/ j \in unseen'
                                       \/ setup.shared /\ writer'.at = "local" /\ j \in writer'.ids
      <3>1. CASE j = i
        BY <1>1, <1>2, <3>1
      <3>2. CASE j # i
        <4>1. db'[j] = db[j]
          BY <3>2, WriteIs
        <4>2. /\ redis[j] # Miss => redis[j].row = db[j] \/ redis[j].raced
              /\ local[j] # Miss => local[j].row = db[j] \/ local[j].raced \/ j \in unseen
          BY <1>1, <1>2 DEF Caches, CopiesExplained
        <4> QED
          BY <1>1, <4>1, <4>2
      <3> QED
        BY <3>1, <3>2
    <2> QED
      BY <1>1, <2>1 DEF CopiesExplained
  <1> QED
    BY <1>3, <1>4, <1>5 DEF Caches, Cleared, ClearHeals

LEMMA WriterCaches ==
  ASSUME TypeOK, Stage, Caches, Next, SetLocal \/ ClearCacheByIDs(Ids) \/ DelRedis PROVE Caches'
  <1>0. db' = db /\ call' = call /\ setup' = setup
    BY DEF Next, SetLocal, ClearCacheByIDs, DelRedis
  <1>1. FoundExplained'
    BY <1>0 DEF Caches, FoundExplained
  <1>2. CASE SetLocal
    <2>1. /\ redis' = redis /\ writer.at = "local" /\ writer' = [writer EXCEPT !.at = "redis"] /\ unseen' = unseen
          /\ local' = [i \in Ids |-> IF i \in writer.ids THEN [row |-> db[i], raced |-> FALSE] ELSE local[i]]
      BY <1>2 DEF SetLocal
    <2>2. writer'.at = "redis" /\ writer'.ids = writer.ids /\ Pending' = Pending
      BY <2>1 DEF TypeOK, Pending
    <2>3. cleared \notin {"begun", "yes"} /\ cleared' = cleared
      BY <2>1, <2>2 DEF Next, Clearing, Caches, Cleared
    <2>4. CopiesExplained'
      <3>1. ASSUME NEW i \in Ids
            PROVE  \/ i \in writer.ids /\ local'[i].row = db[i]
                   \/ i \notin writer.ids /\ local'[i] = local[i]
        BY <2>1
      <3> QED
        BY <1>0, <2>1, <2>2, <3>1 DEF Caches, CopiesExplained
    <2> QED
      BY <1>0, <1>1, <2>3, <2>4 DEF Caches, Cleared, ClearHeals
  <1>3. CASE ClearCacheByIDs(Ids)
    <2>1. /\ redis' = redis /\ writer.at = "idle" /\ writer'.at = "clear" /\ writer'.ids = Ids
          /\ local' = [i \in Ids |-> IF setup.shared THEN Miss ELSE local[i]]
          /\ ~setup.shared => unseen' = unseen
      BY <1>3 DEF ClearCacheByIDs
    <2>2. Pending = {} /\ Pending' = {}
      BY <2>1 DEF Pending
    <2>3. cleared' \in {"begun", "no"} /\ (cleared' = "begun" => call.at = "idle")
      BY <1>0, <2>1 DEF Next, Clearing
    <2>4. CopiesExplained'
      BY <1>0, <2>1, <2>2 DEF Caches, CopiesExplained
    <2> QED
      BY <1>0, <1>1, <2>1, <2>3, <2>4 DEF Caches, Cleared, ClearHeals
  <1>4. CASE DelRedis
    <2>1. /\ writer.at \in {"redis", "clear"} /\ writer'.at = "idle" /\ local' = local /\ unseen' = unseen
          /\ redis' = [i \in Ids |-> IF i \in writer.ids THEN Miss ELSE redis[i]]
      BY <1>4 DEF DelRedis
    <2>2. Pending \subseteq writer.ids /\ Pending' = {}
      BY <2>1 DEF Pending
    <2>3. CopiesExplained'
      BY <1>0, <2>1, <2>2 DEF Caches, CopiesExplained
    <2>4. CASE cleared = "begun"
      <3>1. cleared' = "yes" \/ cleared' = "no"
        BY <2>1, <2>4 DEF Next, Clearing
      <3>2. \A i \in Ids : redis'[i] = Miss /\ (setup.shared => local'[i] = Miss)
        BY <2>1, <2>4 DEF Caches, Cleared
      <3>3. DOMAIN call.found = {}
        BY <2>4 DEF Caches, Cleared, Stage, Idle
      <3> QED
        BY <1>0, <1>1, <2>1, <2>3, <3>1, <3>2, <3>3 DEF Caches, Cleared, ClearHeals
    <2>5. CASE cleared # "begun"
      <3>1. cleared' = cleared /\ cleared # "yes"
        BY <2>1, <2>5 DEF Next, Clearing, Caches, Cleared
      <3> QED
        BY <1>0, <1>1, <2>3, <2>5, <3>1 DEF Caches, Cleared, ClearHeals
    <2> QED
      BY <2>4, <2>5
  <1> QED
    BY <1>2, <1>3, <1>4

LEMMA NextCaches == ASSUME TypeOK, Stage, Caches, Next PROVE Caches'
  <1>1. CASE LoadByIDs
    <2>1. call'.found = <<>>
      BY <1>1, LoadByIDsIs
    <2>2. UNCHANGED <<storeVars, writer, writes, unseen>>
      BY <1>1 DEF LoadByIDs
    <2>3. DOMAIN call'.found = {}
      BY <2>1
    <2> QED
      BY <2>2, <2>3, CallCaches
  <1>2. CASE Load
    <2>1. call'.found = <<>>
      BY <1>2, LoadIs
    <2>2. UNCHANGED <<storeVars, writer, writes, unseen>>
      BY <1>2 DEF Load
    <2>3. DOMAIN call'.found = {}
      BY <2>1
    <2> QED
      BY <2>2, <2>3, CallCaches
  <1>3. CASE GetLocal
    <2>1. \A i \in DOMAIN call'.found : i \notin call'.notLocal
      BY <1>3, GetLocalIs
    <2>2. UNCHANGED <<storeVars, writer, writes, unseen>>
      BY <1>3 DEF GetLocal, countVars
    <2> QED
      BY <2>1, <2>2, CallCaches
  <1>4. CASE GetRedis
    <2>1. ASSUME NEW i \in DOMAIN call'.found, i \in call'.notLocal
          PROVE  \/ i \in DOMAIN call.found /\ i \in call.notLocal /\ call'.found[i] = call.found[i]
                 \/ redis[i] # Miss /\ call'.found[i].row = redis[i].row /\ i \in Ids
                    /\ (call'.found[i].raced = (redis[i].raced \/ i \in Pending))
      <3>1. CASE i \in DOMAIN call.found
        BY <1>4, <2>1, <3>1, GetRedisIs
      <3>2. CASE i \notin DOMAIN call.found
        <4>1. /\ call'.found[i].row = redis[i].row /\ Answers(redis[i]) /\ i \in call.notLocal
              /\ call'.found[i].raced = (redis[i].raced \/ i \in Pending)
          BY <1>4, <2>1, <3>2, GetRedisIs
        <4>2. redis[i] # Miss /\ i \in Ids
          BY <4>1, CallFields DEF Answers, TypeOK
        <4> QED
          BY <4>1, <4>2
      <3> QED
        BY <3>1, <3>2
    <2>2. UNCHANGED <<storeVars, writer, writes, unseen>>
      BY <1>4 DEF GetRedis, countVars
    <2> QED
      BY <2>1, <2>2, CallCaches
  <1>5. CASE Select
    <2>1. ASSUME NEW i \in DOMAIN call'.found, i \in call'.notLocal
          PROVE  \/ i \in DOMAIN call.found /\ i \in call.notLocal /\ call'.found[i] = call.found[i]
                 \/ call'.found[i].row = db[i]
      <3>1. CASE i \in DOMAIN call.found
        BY <1>5, <2>1, <3>1, SelectIs
      <3>2. CASE i \notin DOMAIN call.found
        <4>1. call'.found[i] = [row |-> db[i], raced |-> FALSE]
          BY <1>5, <2>1, <3>2, SelectIs
        <4> QED
          BY <4>1
      <3> QED
        BY <3>1, <3>2
    <2>2. UNCHANGED <<storeVars, writer, writes, unseen>>
      BY <1>5 DEF Select, countVars
    <2> QED
      BY <2>1, <2>2, CallCaches
  <1>6. CASE FillLocal \/ FillRedis
    BY <1>6, FillCaches
  <1>7. CASE Filled
    <2>1. ASSUME NEW i \in DOMAIN call'.found, i \in call'.notLocal
          PROVE  i \in DOMAIN call.found /\ i \in call.notLocal /\ call'.found[i] = call.found[i]
      BY <1>7, <2>1, FilledFields
    <2>2. UNCHANGED <<storeVars, writer, writes, unseen>>
      BY <1>7 DEF Filled, countVars
    <2> QED
      BY <2>1, <2>2, CallCaches
  <1>8. CASE Return
    <2>1. DOMAIN call'.found = {} /\ UNCHANGED <<storeVars, writer, writes, unseen>>
      BY <1>8 DEF Return, Idle, countVars
    <2> QED
      BY <2>1, CallCaches
  <1>9. ASSUME NEW i \in Ids, Write(i) PROVE Caches'
    BY <1>9, WriteCaches
  <1>10. CASE SetLocal \/ ClearCacheByIDs(Ids) \/ DelRedis
    BY <1>10, WriterCaches
  <1> QED
    BY <1>1, <1>2, <1>3, <1>4, <1>5, <1>6, <1>7, <1>8, <1>9, <1>10 DEF Next, Step

-----------------------------------------------------------------------------
(* What was loaded.                                                        *)

Working == call.at \notin {"idle", "done"}

\* The entity of p at a level refers to another.
Goes(p, l) == IsRow(chain[p][l]) /\ chain[p][l].ref # None

\* That one is loaded as something that was said of its row, or MySQL said it is not there.
Told(p, l) ==
    Goes(p, l) => LET r == chain[p][l].ref IN
                  IF chain[p][l + 1] = Unloaded THEN NoRow \in was[r] ELSE chain[p][l + 1] \in seen[r]

\* The slice is what was asked for.
Sliced ==
    /\ Len(slice) = Len(call.ids)
    /\ \A k \in DOMAIN slice :
         IF slice[k] = None THEN NoRow \in seen[call.ids[k]]
         ELSE slice[k] = call.ids[k] /\ chain[slice[k]][1] \in seen[slice[k]]
    /\ call.missing <=> None \in ToSet(slice)

LEMMA LoadedIs ==
  LoadedAsAsked <=> (call.at = "done" => /\ call.ids # <<>> => Sliced
                                         /\ \A p \in Subjects, l \in 1 .. call.depth : Told(p, l))
  BY DEF LoadedAsAsked, Sliced, Told, Goes

\* What is in the stores was said.
Known == \A i \in Ids : /\ db[i] \in seen[i] /\ db[i] \in was[i]
                        /\ RowIn(redis[i]) \subseteq seen[i] /\ RowIn(local[i]) \subseteq seen[i]

\* What is not loaded refers to nothing.
Prefix == \A p \in Ids, l \in {1, 2} : ~IsRow(chain[p][l]) => chain[p][l + 1] = Unloaded

\* What was found was said; what is found not to be of references, by MySQL.
Hits == \A i \in DOMAIN call.found :
          /\ call.found[i].row \in seen[i]
          /\ call.level # 0 /\ call.found[i].row = NoRow => NoRow \in was[i]

\* The level of what was asked for.
First ==
    call.level = 0 =>
      /\ call.tops = ToSet(call.ids) /\ \A p \in Ids : chain[p][1] = Unloaded
      /\ call.at = "local" => ~call.missing
      /\ call.at \in {"redis", "select"} =>
           (call.missing <=> \E i \in DOMAIN call.found : call.found[i].row = NoRow)
      /\ Searched => /\ \A i \in call.keys \ DOMAIN call.found : NoRow \in seen[i]
                     /\ call.missing <=> \E i \in call.keys : i \notin Found

\* The levels of references.
Later ==
    call.level # 0 =>
      /\ call.tops \subseteq Subjects
      /\ \A p \in call.tops : Goes(p, call.level)
      /\ \A p \in Subjects : /\ chain[p][call.level + 1] = Unloaded
                             /\ p \notin call.tops => ~Goes(p, call.level)
                             /\ \A l \in 1 .. call.level - 1 : Told(p, l)
      /\ call.ids # <<>> => Sliced

Question == call.keys = Lookup(chain, call.level, call.tops) /\ call.level <= call.depth

Loading == /\ Known /\ Prefix /\ LoadedAsAsked
           /\ Working => Hits /\ First /\ Later /\ Question

LEMMA SubjectsAreIds == ASSUME TypeOK PROVE Subjects \subseteq Ids
  <1>1. call.tops \subseteq Ids /\ slice \in Seq(Ids \cup {None})
    BY CallFields DEF TypeOK
  <1>2. \A k \in DOMAIN slice : slice[k] \in Ids \cup {None}
    BY <1>1
  <1> QED
    BY <1>1, <1>2 DEF Subjects, ToSet

\* The reference of an entity of a chain is an id.
LEMMA GoesTo ==
  ASSUME TypeOK, NEW p \in Ids, NEW l \in 1 .. 3, Goes(p, l)
  PROVE  chain[p][l] \in Row /\ chain[p][l].ref \in Ids
  <1>1. chain[p][l] \in Row \cup {Unloaded}
    BY DEF TypeOK
  <1>2. chain[p][l] \in Row
    BY <1>1 DEF Goes, IsRow
  <1> QED
    BY <1>2 DEF Row, Goes

LEMMA InitLoading == ASSUME Init PROVE Loading
  <1>1. TypeOK
    BY InitTypes
  <1>2. Known
    <2>1. ASSUME NEW i \in Ids
          PROVE  redis[i] \in Copies(db[i]) \cup {Miss} /\ local[i] \in Copies(db[i]) \cup {Miss}
      BY DEF Init
    <2>2. ASSUME NEW i \in Ids
          PROVE RowIn(redis[i]) \subseteq {db[i]} /\ RowIn(local[i]) \subseteq {db[i]}
      BY <2>1 DEF Copies, RowIn
    <2> QED
      BY <2>2 DEF Init, Known
  <1>3. Prefix
    <2>1. \A p \in Ids : chain[p][2] = Unloaded /\ chain[p][3] = Unloaded
      BY DEF Init
    <2>2. \A p \in Ids, l \in {1, 2} : chain[p][l + 1] = Unloaded
      BY <2>1
    <2> QED
      BY <2>2 DEF Prefix
  <1>4. call.at = "idle"
    BY DEF Init, Idle
  <1> QED
    BY <1>2, <1>3, <1>4 DEF Loading, LoadedAsAsked, Working

\* What was said during a call is remembered, and what is in the stores is said.
LEMMA Grows ==
  ASSUME TypeOK, Next, call.at # "idle", NEW i \in Ids
  PROVE  seen[i] \subseteq seen'[i] /\ was[i] \subseteq was'[i]
  BY DEF Next, Said

LEMMA NextKnown == ASSUME TypeOK, Next PROVE Known'
  <1>1. ASSUME NEW i \in Ids
        PROVE  /\ db'[i] \in seen'[i] /\ db'[i] \in was'[i]
               /\ RowIn(redis'[i]) \subseteq seen'[i] /\ RowIn(local'[i]) \subseteq seen'[i]
    BY DEF Next, Said
  <1> QED
    BY <1>1 DEF Known, RowIn

\* Steps that leave the entities and what was asked for.
LEMMA StillTold ==
  ASSUME TypeOK, Next, call.at # "idle", UNCHANGED entityVars, NEW p \in Ids, NEW l \in 1 .. 2, Told(p, l)
  PROVE  Told(p, l)'
  <1>1. chain' = chain
    BY DEF entityVars
  <1>2. CASE ~Goes(p, l)
    BY <1>1, <1>2 DEF Told, Goes
  <1>3. CASE Goes(p, l)
    <2>1. chain[p][l].ref \in Ids
      BY <1>3, GoesTo
    <2>2. seen[chain[p][l].ref] \subseteq seen'[chain[p][l].ref] /\ was[chain[p][l].ref] \subseteq was'[chain[p][l].ref]
      BY <2>1, Grows
    <2> QED
      BY <1>1, <1>3, <2>2 DEF Told, Goes
  <1> QED
    BY <1>2, <1>3

LEMMA StillSliced ==
  ASSUME TypeOK, Next, call.at # "idle", UNCHANGED entityVars, call'.ids = call.ids,
         call'.missing = call.missing, Sliced
  PROVE  Sliced'
  <1>1. slice' = slice /\ chain' = chain
    BY DEF entityVars
  <1>2. ASSUME NEW k \in DOMAIN slice
        PROVE  IF slice[k] = None THEN NoRow \in seen'[call.ids[k]]
               ELSE slice[k] = call.ids[k] /\ chain[slice[k]][1] \in seen'[slice[k]]
    <2>1. slice \in Seq(Ids \cup {None}) /\ call.ids \in Seq(Ids) /\ Len(slice) = Len(call.ids)
      BY CallFields DEF TypeOK, Sliced
    <2>2. call.ids[k] \in Ids
      BY <2>1
    <2>3. seen[call.ids[k]] \subseteq seen'[call.ids[k]]
      BY <2>2, Grows
    <2> QED
      BY <2>3 DEF Sliced
  <1> QED
    BY <1>1, <1>2 DEF Sliced

\* A step of a search, or of the other engine during one.
LEMMA WorkingOn ==
  ASSUME TypeOK, Next, Loading, Working, Working', UNCHANGED entityVars, SameQuestion,
         call.level # 0 => call'.missing = call.missing
  PROVE  (Later /\ Question)'
  <1>1. slice' = slice /\ chain' = chain /\ Subjects' = Subjects
    BY DEF entityVars, SameQuestion, Subjects
  <1>2. Question'
    BY <1>1 DEF Loading, Question, SameQuestion, Lookup
  <1>3. ASSUME call.level # 0 PROVE Later'
    <2>1. Subjects \subseteq Ids /\ call.level \in 1 .. 2 /\ call.at # "idle"
      BY <1>3, SubjectsAreIds, CallFields DEF TypeOK, Levels, Working
    <2>2. Later
      BY DEF Loading
    <2>3. \A p \in Subjects, l \in 1 .. call.level - 1 : Told(p, l)'
      <3>1. ASSUME NEW p \in Subjects, NEW l \in 1 .. call.level - 1 PROVE Told(p, l)'
        <4>1. Told(p, l) /\ p \in Ids /\ l \in 1 .. 2
          BY <1>3, <2>1, <2>2 DEF Later
        <4> QED
          BY <2>1, <4>1, StillTold
      <3> QED
        BY <3>1
    <2>4. call.ids # <<>> => Sliced'
      BY <1>3, <2>1, <2>2, StillSliced DEF SameQuestion, Later
    <2>5. \A p \in Ids, l \in 1 .. 3 : Goes(p, l)' <=> Goes(p, l)
      BY <1>1 DEF Goes
    <2>6. \A p \in call.tops : Goes(p, call.level)'
      BY <1>1, <1>3, <2>2 DEF Later, Goes, SameQuestion
    <2>7. \A p \in Subjects : /\ chain'[p][call.level + 1] = Unloaded
                              /\ p \notin call.tops => ~Goes(p, call.level)'
      BY <1>1, <1>3, <2>2 DEF Later, Goes, SameQuestion
    <2>8. call.tops \subseteq Subjects
      BY <1>3, <2>2 DEF Later
    <2> QED
      BY <1>1, <2>3, <2>4, <2>6, <2>7, <2>8 DEF Later, SameQuestion
  <1>4. ASSUME call.level = 0 PROVE Later'
    BY <1>4 DEF Later, SameQuestion
  <1> QED
    BY <1>2, <1>3, <1>4

\* Hits and First after a step that leaves the entities and what was asked for.
LEMMA GetLocalLoading ==
  ASSUME TypeOK, Stage, Loading, Next, GetLocal PROVE (Hits /\ First)'
  <1>1. call.at = "local" /\ call.at # "idle" /\ Working
    BY DEF GetLocal, Working
  <1>2. ASSUME NEW i \in DOMAIN call'.found
        PROVE  /\ call'.found[i].row \in seen'[i]
               /\ call.level # 0 => call'.found[i].row # NoRow
    <2>1. call'.found[i] = local[i] /\ Answers(local[i]) /\ i \in Ids
      BY <1>2, GetLocalIs, CallFields DEF TypeOK
    <2>2. local[i].row \in seen[i]
      BY <2>1 DEF Loading, Known, RowIn, Answers
    <2> QED
      BY <1>1, <2>1, <2>2, Grows DEF Answers
  <1>3. Hits'
    BY <1>2, GetLocalIs DEF Hits, SameQuestion
  <1>4. First'
    <2>1. /\ call'.level = call.level /\ call'.tops = call.tops /\ call'.ids = call.ids /\ call'.at = "redis"
          /\ call'.missing = (call.missing \/ \E i \in DOMAIN call'.found : call'.found[i].row = NoRow)
          /\ chain' = chain
      BY GetLocalIs DEF SameQuestion, GetLocal, entityVars
    <2>2. First
      BY <1>1 DEF Loading
    <2> QED
      BY <1>1, <2>1, <2>2 DEF First, Searched
  <1> QED
    BY <1>3, <1>4

LEMMA GetRedisLoading ==
  ASSUME TypeOK, Stage, Loading, Next, GetRedis PROVE (Hits /\ First)'
  <1>1. call.at = "redis" /\ call.at # "idle" /\ Working
    BY DEF GetRedis, Working
  <1>0. call'.level = call.level
    BY GetRedisIs DEF SameQuestion
  <1>2. ASSUME NEW i \in DOMAIN call'.found \ DOMAIN call.found
        PROVE  /\ call'.found[i].row \in seen'[i]
               /\ call.level # 0 => call'.found[i].row # NoRow
    <2>1. call'.found[i].row = redis[i].row /\ Answers(redis[i]) /\ i \in Ids
      BY <1>2, GetRedisIs, CallFields DEF TypeOK
    <2>2. redis[i].row \in seen[i]
      BY <2>1 DEF Loading, Known, RowIn, Answers
    <2> QED
      BY <1>1, <2>1, <2>2, Grows DEF Answers
  <1>3. ASSUME NEW i \in DOMAIN call.found
        PROVE  /\ call'.found[i] = call.found[i] /\ call'.found[i].row \in seen'[i]
               /\ call.level # 0 /\ call'.found[i].row = NoRow => NoRow \in was'[i]
    <2>1. i \in Ids /\ call'.found[i] = call.found[i]
      BY GetRedisIs, CallFields, FoundType DEF TypeOK
    <2> QED
      BY <1>1, <2>1, Grows DEF Loading, Hits
  <1>4. Hits'
    BY <1>0, <1>2, <1>3 DEF Hits
  <1>5. First'
    <2>1. /\ call'.level = call.level /\ call'.tops = call.tops /\ call'.ids = call.ids /\ call'.at = "select"
          /\ call'.missing = (call.missing \/ \E i \in DOMAIN call'.found \ DOMAIN call.found : call'.found[i].row = NoRow)
          /\ chain' = chain
      BY GetRedisIs DEF SameQuestion, GetRedis, entityVars
    <2>2. First
      BY <1>1 DEF Loading
    <2>3. DOMAIN call.found \subseteq DOMAIN call'.found
      BY GetRedisIs
    <2>4. (\E i \in DOMAIN call'.found : call'.found[i].row = NoRow) <=>
            \/ \E i \in DOMAIN call.found : call.found[i].row = NoRow
            \/ \E i \in DOMAIN call'.found \ DOMAIN call.found : call'.found[i].row = NoRow
      BY <1>3, <2>3
    <2> QED
      BY <1>1, <2>1, <2>2, <2>4 DEF First, Searched
  <1> QED
    BY <1>4, <1>5

LEMMA SelectLoading ==
  ASSUME TypeOK, Stage, Loading, Next, Select PROVE (Hits /\ First)'
  <1>1. call.at = "select" /\ call.at # "idle" /\ Working
    BY DEF Select, Working
  <1>0. call'.level = call.level /\ call'.keys = call.keys
    BY SelectIs DEF SameQuestion
  <1>2. ASSUME NEW i \in DOMAIN call'.found \ DOMAIN call.found
        PROVE  /\ call'.found[i].row = db[i] /\ i \in call.notRedis
               /\ call'.found[i].row \in seen'[i] /\ call'.found[i].row \in was'[i]
               /\ call.level = 0 => call'.found[i].row # NoRow
    <2>1. call'.found[i] = [row |-> db[i], raced |-> FALSE] /\ i \in call.notRedis
          /\ (call.level = 0 => db[i] # NoRow)
      BY <1>2, SelectIs
    <2>2. i \in Ids
      BY <2>1, CallFields DEF TypeOK
    <2>3. db[i] \in seen[i] /\ db[i] \in was[i]
      BY <2>2 DEF Loading, Known
    <2> QED
      BY <1>1, <2>1, <2>2, <2>3, Grows
  <1>3. ASSUME NEW i \in DOMAIN call.found
        PROVE  /\ call'.found[i] = call.found[i] /\ call'.found[i].row \in seen'[i]
               /\ call.level # 0 /\ call'.found[i].row = NoRow => NoRow \in was'[i]
    <2>1. i \in Ids /\ call'.found[i] = call.found[i]
      BY SelectIs, CallFields, FoundType DEF TypeOK
    <2> QED
      BY <1>1, <2>1, Grows DEF Loading, Hits
  <1>4. Hits'
    BY <1>0, <1>2, <1>3 DEF Hits
  <1>5. First'
    <2>1. /\ call'.tops = call.tops /\ call'.ids = call.ids /\ Searched' /\ call'.at \notin {"local", "redis", "select"}
          /\ call'.missing = (call.missing \/ (call.level = 0 /\ \E i \in call.notRedis : db[i] = NoRow))
          /\ chain' = chain
      BY SelectIs DEF SameQuestion, Select, entityVars, Searched
    <2>2. First
      BY <1>1 DEF Loading
    <2>3. DOMAIN call.found \subseteq call.keys /\ call.notRedis = call.keys \ DOMAIN call.found
      BY <1>1 DEF Stage
    <2>4. ASSUME call.level = 0 PROVE First'
      <3>1. DOMAIN call'.found = DOMAIN call.found \cup {i \in call.notRedis : db[i] # NoRow}
        BY <2>4, SelectIs
      <3>2. ASSUME NEW i \in call.keys \ DOMAIN call'.found PROVE i \in call.notRedis /\ db[i] = NoRow
        BY <2>3, <3>1, <3>2
      <3>3. \A i \in call.keys \ DOMAIN call'.found : NoRow \in seen'[i]
        <4>1. ASSUME NEW i \in call.keys \ DOMAIN call'.found PROVE NoRow \in seen'[i]
          <5>1. i \in Ids /\ db[i] = NoRow
            BY <3>2, CallFields DEF TypeOK
          <5>2. db[i] \in seen[i]
            BY <5>1 DEF Loading, Known
          <5> QED
            BY <1>1, <5>1, <5>2, Grows
        <4> QED
          BY <4>1
      <3>4. ASSUME NEW i \in call.keys
            PROVE  i \notin Found' <=> \/ i \in DOMAIN call.found /\ call.found[i].row = NoRow
                                       \/ i \in call.notRedis /\ db[i] = NoRow
        <4>1. CASE i \in DOMAIN call.found
          BY <1>3, <2>3, <3>1, <4>1 DEF Found
        <4>2. CASE i \notin DOMAIN call.found /\ db[i] # NoRow
          <5>1. i \in DOMAIN call'.found \ DOMAIN call.found
            BY <2>3, <3>1, <4>2
          <5> QED
            BY <1>2, <2>4, <4>2, <5>1 DEF Found
        <4>3. CASE i \notin DOMAIN call.found /\ db[i] = NoRow
          BY <2>3, <3>1, <4>3 DEF Found
        <4> QED
          BY <4>1, <4>2, <4>3
      <3>5. call.missing <=> \E i \in DOMAIN call.found : call.found[i].row = NoRow
        BY <1>1, <2>2, <2>4 DEF First
      <3>6. call'.missing <=> \E i \in call.keys : i \notin Found'
        BY <2>1, <2>3, <2>4, <3>4, <3>5
      <3> QED
        BY <1>0, <2>1, <2>2, <2>4, <3>3, <3>6 DEF First
    <2> QED
      BY <1>0, <2>4 DEF First
  <1> QED
    BY <1>4, <1>5

\* A fill, or a step of the other engine.
LEMMA OtherLoading ==
  ASSUME TypeOK, Stage, Loading, Next, Working, Working', UNCHANGED entityVars, SameQuestion,
         DOMAIN call'.found = DOMAIN call.found, call'.missing = call.missing,
         \A i \in DOMAIN call.found : call'.found[i].row = call.found[i].row,
         call'.at = call.at \/ (Searched /\ Searched')
  PROVE  (Hits /\ First)'
  <1>1. \A i \in DOMAIN call.found : i \in Ids
    BY CallFields, FoundType DEF TypeOK
  <1>2. call.at # "idle"
    BY DEF Working
  <1>3. Hits'
    <2>1. ASSUME NEW i \in DOMAIN call.found
          PROVE  /\ call'.found[i].row \in seen'[i]
                 /\ call.level # 0 /\ call'.found[i].row = NoRow => NoRow \in was'[i]
      BY <1>1, <1>2, Grows DEF Loading, Hits
    <2> QED
      BY <2>1 DEF Hits, SameQuestion
  <1>4. Found' = Found
    BY DEF Found
  <1>5. First'
    <2>1. First
      BY DEF Loading
    <2>2. ASSUME call.level = 0, Searched'
          PROVE  /\ \A i \in call.keys \ DOMAIN call.found : NoRow \in seen'[i]
                 /\ call.missing <=> \E i \in call.keys : i \notin Found
      <3>1. Searched
        BY <2>2 DEF Searched
      <3>2. call.keys \subseteq Ids
        BY CallFields DEF TypeOK
      <3> QED
        BY <1>2, <2>1, <2>2, <3>1, <3>2, Grows DEF First
    <2>3. chain' = chain
      BY DEF entityVars
    <2>4. Searched' => call'.at \notin {"local", "redis", "select"}
      BY DEF Searched
    <2>5. call.level = 0 /\ call'.at \in {"redis", "select"} =>
            (call.missing <=> \E i \in DOMAIN call.found : call'.found[i].row = NoRow)
      BY <2>1, <2>4 DEF First
    <2> QED
      BY <1>4, <2>1, <2>2, <2>3, <2>4, <2>5 DEF First, SameQuestion
  <1> QED
    BY <1>3, <1>5

LEMMA LoadByIDsLoading ==
  ASSUME TypeOK, Stage, Loading, Next, LoadByIDs PROVE Loading'
  <1>1. /\ call'.at = "local" /\ call'.level = 0 /\ call'.depth \in Levels
        /\ call'.tops = ToSet(call'.ids) /\ call'.keys = call'.tops
        /\ DOMAIN call'.found = {} /\ call'.missing = FALSE
    <2>1. call'.found = <<>>
      BY LoadByIDsIs
    <2>2. DOMAIN call'.found = {}
      BY <2>1
    <2> QED
      BY <2>2, LoadByIDsIs
  <1>2. chain' = [p \in Ids |-> <<Unloaded, Unloaded, Unloaded>>]
    BY DEF LoadByIDs
  <1>3. \A p \in Ids : chain'[p][1] = Unloaded /\ chain'[p][2] = Unloaded /\ chain'[p][3] = Unloaded
    BY <1>2
  <1>4. Prefix'
    <2>1. \A p \in Ids, l \in {1, 2} : chain'[p][l + 1] = Unloaded
      BY <1>3
    <2> QED
      BY <2>1 DEF Prefix
  <1>5. Hits' /\ First' /\ Later'
    BY <1>1, <1>3 DEF Hits, First, Later, Searched
  <1>6. Question'
    BY <1>1 DEF Question, Lookup, Levels
  <1>7. LoadedAsAsked'
    BY <1>1 DEF LoadedAsAsked
  <1> QED
    BY <1>4, <1>5, <1>6, <1>7, NextKnown DEF Loading

LEMMA LoadLoading ==
  ASSUME TypeOK, Stage, Loading, Next, Load PROVE Loading'
  <1>1. PICK p \in Ids :
          /\ call'.at = "local" /\ call'.level = 1 /\ call'.depth \in {1, 2} /\ call'.ids = <<>>
          /\ call'.tops = Reach(chain, 1, {p}) /\ call'.keys = Lookup(chain, 1, call'.tops)
          /\ call'.found = <<>>
    BY LoadIs
  <1>2. chain' = chain /\ slice' = slice /\ DOMAIN call'.found = {}
    BY <1>1 DEF Load, entityVars
  <1>3. Prefix'
    BY <1>2 DEF Loading, Prefix
  <1>4. Subjects' = call'.tops
    BY <1>1 DEF Subjects
  <1>5. \A q \in call'.tops : q = p /\ Goes(q, 1) /\ chain[q][2] = Unloaded
    BY <1>1 DEF Reach, Goes
  <1>6. Later'
    <2>0. call'.level = 1 /\ call'.level + 1 = 2 /\ call'.level - 1 = 0
      BY <1>1
    <2>1. \A q \in call'.tops : Goes(q, 1)' /\ chain'[q][2] = Unloaded
      BY <1>2, <1>5 DEF Goes
    <2>2. \A q \in call'.tops : Goes(q, call.level)' /\ chain'[q][call'.level + 1] = Unloaded
      BY <2>0, <2>1 DEF Goes
    <2>3. 1 .. call'.level - 1 = {}
      BY <2>0
    <2> QED
      BY <1>1, <1>4, <2>2, <2>3 DEF Later
  <1>7. Hits' /\ First'
    BY <1>1, <1>2 DEF Hits, First
  <1>8. Question'
    BY <1>1, <1>2 DEF Question, Lookup
  <1>9. LoadedAsAsked'
    BY <1>1 DEF LoadedAsAsked
  <1> QED
    BY <1>3, <1>6, <1>7, <1>8, <1>9, NextKnown DEF Loading

\* What Filled does to the chains of the entities that the call is about.
Concerned == IF call.level = 0 THEN call.tops ELSE Subjects

LEMMA ConcernedIs ==
  ASSUME TypeOK, Stage, Loading, Filled
  PROVE  /\ call.at = "filled" /\ Working /\ Searched /\ call.level \in 0 .. 2 /\ call.depth \in 0 .. 2
         /\ call.level <= call.depth /\ Concerned \subseteq Ids /\ call.tops \subseteq Concerned
         /\ \A p \in Concerned : chain[p][call.level + 1] = Unloaded
  <1>1. call.at = "filled" /\ Working /\ Searched
    BY DEF Filled, Working, Searched
  <1>2. call.level \in 0 .. 2 /\ call.depth \in 0 .. 2 /\ call.tops \subseteq Ids /\ Subjects \subseteq Ids
    BY CallFields, SubjectsAreIds DEF TypeOK, Levels
  <1>3. First /\ Later /\ Question
    BY <1>1 DEF Loading
  <1>4. CASE call.level = 0
    <2>1. \A p \in Ids : chain[p][0 + 1] = Unloaded
      BY <1>3, <1>4 DEF First
    <2> QED
      BY <1>1, <1>2, <1>3, <1>4, <2>1 DEF Concerned, Question
  <1>5. CASE call.level # 0
    BY <1>1, <1>2, <1>3, <1>5 DEF Concerned, Question, Later
  <1> QED
    BY <1>4, <1>5

LEMMA ChainsGrow ==
  ASSUME TypeOK, Stage, Loading, Filled, NEW p \in Ids
  PROVE  /\ \A l \in 1 .. 3 : l # call.level + 1 => chain'[p][l] = chain[p][l]
         /\ ~Has(p) => chain'[p] = chain[p]
         /\ Has(p) => /\ IdAt(p, call.level) \in Found
                      /\ chain'[p][call.level + 1] = call.found[IdAt(p, call.level)].row
                      /\ chain'[p][call.level + 1] \in Row
  <1>1. chain' = Chained /\ chain[p] \in [1 .. 3 -> Row \cup {Unloaded}] /\ call.level + 1 \in 1 .. 3
    BY FilledIs, ConcernedIs DEF TypeOK
  <1>2. CASE ~Has(p)
    BY <1>1, <1>2 DEF Chained
  <1>3. CASE Has(p)
    <2>1. chain'[p] = [chain[p] EXCEPT ![call.level + 1] = call.found[IdAt(p, call.level)].row]
      BY <1>1, <1>3 DEF Chained
    <2>2. IdAt(p, call.level) \in Found
      BY <1>3 DEF Has
    <2>3. call.found[IdAt(p, call.level)] \in Copy
      BY <2>2, CallFields, FoundType DEF Found, TypeOK
    <2>4. call.found[IdAt(p, call.level)].row \in Row
      BY <2>2, <2>3 DEF Found, Copy
    <2> QED
      BY <1>1, <1>3, <2>1, <2>2, <2>4
  <1> QED
    BY <1>2, <1>3

LEMMA FilledPrefix ==
  ASSUME TypeOK, Stage, Loading, Filled PROVE Prefix'
  <1>1. ASSUME NEW p \in Ids, NEW l \in {1, 2}, ~IsRow(chain'[p][l])
        PROVE  chain'[p][l + 1] = Unloaded
    <2>0. l \in 1 .. 3 /\ l + 1 \in 1 .. 3 /\ call.level \in 0 .. 2
      BY ConcernedIs
    <2>1. ~IsRow(chain[p][l])
      <3>1. CASE Has(p) /\ l = call.level + 1
        <4>1. chain'[p][l] \in Row
          BY <3>1, ChainsGrow
        <4> QED
          BY <1>1, <4>1, NoneAssumption DEF IsRow
      <3>2. CASE ~(Has(p) /\ l = call.level + 1)
        <4>1. chain'[p][l] = chain[p][l]
          BY <2>0, <3>2, ChainsGrow
        <4> QED
          BY <1>1, <4>1
      <3> QED
        BY <3>1, <3>2
    <2>2. chain[p][l + 1] = Unloaded
      BY <2>1 DEF Loading, Prefix
    <2>3. CASE Has(p) /\ l + 1 = call.level + 1
      <3>1. call.level = l /\ p \in call.tops /\ call.level # 0
        BY <2>0, <2>3 DEF Has
      <3>2. Goes(p, call.level)
        BY <3>1, ConcernedIs DEF Loading, Later
      <3> QED
        BY <2>1, <3>1, <3>2 DEF Goes
    <2>4. CASE ~(Has(p) /\ l + 1 = call.level + 1)
      BY <2>0, <2>2, <2>4, ChainsGrow
    <2> QED
      BY <2>3, <2>4
  <1> QED
    BY <1>1 DEF Prefix

\* The levels up to this one are loaded.
LEMMA FilledTold ==
  ASSUME TypeOK, Stage, Loading, Next, Filled, NEW p \in Concerned, NEW l \in 1 .. call.level
  PROVE  Told(p, l)'
  <1>0. /\ p \in Ids /\ call.level \in 1 .. 2 /\ call.level # 0 /\ l \in 1 .. 2 /\ call.at # "idle" /\ p \in Subjects
        /\ Working /\ Searched
    BY ConcernedIs DEF Concerned
  <1>1. Later /\ Hits /\ Question
    BY <1>0 DEF Loading
  <1>2. chain'[p][l] = chain[p][l]
    BY <1>0, ChainsGrow
  <1>3. CASE ~Goes(p, l)
    BY <1>2, <1>3 DEF Told, Goes
  <1>4. CASE Goes(p, l)
    <2> DEFINE r == chain[p][l].ref
    <2>1. r \in Ids
      BY <1>0, <1>4, GoesTo
    <2>2. seen[r] \subseteq seen'[r] /\ was[r] \subseteq was'[r]
      BY <1>0, <2>1, Grows
    <2>3. CASE l < call.level
      <3>1. Told(p, l)
        BY <1>0, <1>1, <2>3 DEF Later
      <3>2. chain'[p][l + 1] = chain[p][l + 1]
        BY <1>0, <2>3, ChainsGrow
      <3> QED
        BY <1>2, <1>4, <2>2, <3>1, <3>2 DEF Told, Goes
    <2>4. CASE l = call.level
      <3>1. p \in call.tops /\ r = IdAt(p, call.level)
        BY <1>0, <1>1, <1>4, <2>4 DEF Later, IdAt
      <3>2. r \in call.keys
        BY <1>0, <1>1, <2>4, <3>1 DEF Question, Lookup
      <3>3. r \in DOMAIN call.found
        BY <1>0, <3>2 DEF Stage
      <3>4. CASE Has(p)
        <4>1. chain'[p][l + 1] = call.found[r].row /\ chain'[p][l + 1] \in Row
          BY <1>0, <2>4, <3>1, <3>4, ChainsGrow
        <4>2. chain'[p][l + 1] # Unloaded
          BY <4>1, NoneAssumption
        <4>3. chain'[p][l + 1] \in seen[r]
          BY <1>1, <3>3, <4>1 DEF Hits
        <4> QED
          BY <1>2, <2>2, <4>2, <4>3 DEF Told
      <3>5. CASE ~Has(p)
        <4>1. call.found[r].row = NoRow
          BY <3>1, <3>3, <3>5 DEF Has, Found
        <4>2. NoRow \in was[r]
          BY <1>0, <1>1, <3>3, <4>1 DEF Hits
        <4>3. chain'[p][l + 1] = Unloaded
          BY <1>0, <2>4, <3>5, ChainsGrow, ConcernedIs
        <4> QED
          BY <1>2, <2>2, <4>2, <4>3 DEF Told
      <3> QED
        BY <3>4, <3>5
    <2> QED
      BY <1>0, <2>3, <2>4
  <1> QED
    BY <1>3, <1>4

\* What does not go on refers to nothing, or was asked for no further.
LEMMA FilledEnds ==
  ASSUME TypeOK, Stage, Loading, Next, Filled, NEW p \in Concerned, call.level < call.depth
  PROVE  /\ chain'[p][call.level + 2] = Unloaded
         /\ p \in Onward => IsRow(chain'[p][call.level + 1]) /\ chain'[p][call.level + 1].ref # None
         /\ p \notin Onward => ~(IsRow(chain'[p][call.level + 1]) /\ chain'[p][call.level + 1].ref # None)
  <1>0. /\ p \in Ids /\ call.level \in 0 .. 1 /\ call.level + 1 \in {1, 2} /\ call.level + 2 \in 1 .. 3
        /\ chain[p][call.level + 1] = Unloaded
    BY ConcernedIs
  <1>1. ~IsRow(Unloaded)
    BY DEF IsRow
  <1>2. chain[p][(call.level + 1) + 1] = Unloaded
    BY <1>0, <1>1 DEF Loading, Prefix
  <1>3. (call.level + 1) + 1 = call.level + 2 /\ call.level + 2 # call.level + 1
    BY <1>0
  <1>4. chain'[p][call.level + 2] = Unloaded
    BY <1>0, <1>2, <1>3, ChainsGrow
  <1>5. chain' = Chained /\ Onward = Reach(Chained, call.level + 1, {q \in call.tops : Has(q)})
    BY FilledIs DEF Onward
  <1>6. p \in Onward => IsRow(chain'[p][call.level + 1]) /\ chain'[p][call.level + 1].ref # None
    BY <1>5 DEF Reach
  <1>7. ASSUME p \notin Onward, IsRow(chain'[p][call.level + 1]), chain'[p][call.level + 1].ref # None
        PROVE FALSE
    <2>1. Has(p)
      BY <1>0, <1>1, <1>7, ChainsGrow
    <2>2. p \in {q \in call.tops : Has(q)}
      BY <2>1 DEF Has
    <2> QED
      BY <1>3, <1>4, <1>5, <1>7, <2>2 DEF Reach
  <1> QED
    BY <1>4, <1>6, <1>7

\* The slice, from the first level or from before.
LEMMA FilledSlice ==
  ASSUME TypeOK, Stage, Loading, Next, Filled, call.ids # <<>> PROVE Sliced'
  <1>0. /\ Working /\ Searched /\ call.at # "idle" /\ call.level \in 0 .. 2
        /\ call'.ids = call.ids /\ call'.missing = call.missing
        /\ call.ids \in Seq(Ids)
    BY ConcernedIs, FilledFields, CallFields DEF Working, SameQuestion, TypeOK
  <1>1. First /\ Later /\ Hits /\ Question
    BY <1>0 DEF Loading
  <1>2. CASE call.level # 0
    <2>1. Sliced /\ slice' = slice
      BY <1>1, <1>2, FilledIs DEF Later
    <2>2. slice \in Seq(Ids \cup {None}) /\ Len(slice) = Len(call.ids)
      BY <2>1 DEF TypeOK, Sliced
    <2>3. ASSUME NEW k \in DOMAIN slice
          PROVE  IF slice[k] = None THEN NoRow \in seen'[call.ids[k]]
                 ELSE slice[k] = call.ids[k] /\ chain'[slice[k]][1] \in seen'[slice[k]]
      <3>1. call.ids[k] \in Ids /\ slice[k] \in Ids \cup {None}
        BY <1>0, <2>2
      <3>2. seen[call.ids[k]] \subseteq seen'[call.ids[k]]
        BY <1>0, <3>1, Grows
      <3>3. slice[k] # None => chain'[slice[k]][1] = chain[slice[k]][1]
        BY <1>0, <1>2, <3>1, ChainsGrow
      <3> QED
        BY <2>1, <3>2, <3>3 DEF Sliced
    <2> QED
      BY <1>0, <2>1, <2>3 DEF Sliced
  <1>3. CASE call.level = 0
    <2>0. call.keys = ToSet(call.ids) /\ call.tops = ToSet(call.ids)
      BY <1>1, <1>3 DEF First, Question, Lookup
    <2>1. /\ slice' = Placed(call.ids, Found) /\ Len(slice') = Len(call.ids) /\ DOMAIN slice' = DOMAIN call.ids
          /\ \A k \in DOMAIN call.ids : slice'[k] = IF call.ids[k] \in Found THEN call.ids[k] ELSE None
      BY <1>0, <1>3, FilledIs, PlacedIs
    <2>2. ASSUME NEW k \in DOMAIN call.ids
          PROVE  /\ call.ids[k] \in Ids /\ call.ids[k] # None /\ call.ids[k] \in call.keys
                 /\ call.ids[k] \in call.tops
      BY <1>0, <2>0, NoneAssumption DEF ToSet
    <2>3. ASSUME NEW k \in DOMAIN call.ids, call.ids[k] \notin Found
          PROVE  NoRow \in seen'[call.ids[k]]
      <3>1. NoRow \in seen[call.ids[k]]
        <4>1. CASE call.ids[k] \in DOMAIN call.found
          BY <1>1, <2>3, <4>1 DEF Found, Hits
        <4>2. CASE call.ids[k] \notin DOMAIN call.found
          BY <1>0, <1>1, <1>3, <2>2, <4>2 DEF First
        <4> QED
          BY <4>1, <4>2
      <3> QED
        BY <1>0, <2>2, <3>1, Grows
    <2>4. ASSUME NEW k \in DOMAIN call.ids, call.ids[k] \in Found
          PROVE  chain'[call.ids[k]][1] \in seen'[call.ids[k]]
      <3> DEFINE p == call.ids[k]
      <3>1. p \in Ids /\ p \in call.tops /\ IdAt(p, call.level) = p
        BY <1>3, <2>2 DEF IdAt
      <3>2. Has(p) /\ call.level + 1 = 1
        BY <1>3, <2>4, <3>1 DEF Has
      <3>3. chain'[p][1] = call.found[p].row
        BY <3>1, <3>2, ChainsGrow
      <3>4. call.found[p].row \in seen[p]
        BY <1>1, <2>4 DEF Hits, Found
      <3> QED
        BY <1>0, <3>1, <3>3, <3>4, Grows
    <2>5. call.missing <=> None \in ToSet(slice')
      <3>1. call.missing <=> \E i \in call.keys : i \notin Found
        BY <1>0, <1>1, <1>3 DEF First
      <3>2. (\E i \in call.keys : i \notin Found) <=> \E k \in DOMAIN call.ids : call.ids[k] \notin Found
        BY <2>0 DEF ToSet
      <3>3. None \in ToSet(slice') <=> \E k \in DOMAIN call.ids : slice'[k] = None
        BY <2>1 DEF ToSet
      <3> QED
        BY <2>1, <2>2, <3>1, <3>2, <3>3
    <2>6. \A k \in DOMAIN slice' :
             IF slice'[k] = None THEN NoRow \in seen'[call.ids[k]]
             ELSE slice'[k] = call.ids[k] /\ chain'[slice'[k]][1] \in seen'[slice'[k]]
      BY <2>1, <2>2, <2>3, <2>4
    <2> QED
      BY <1>0, <2>1, <2>5, <2>6 DEF Sliced
  <1> QED
    BY <1>2, <1>3

\* The call is about no other entities after a level, and goes on with some of them.
LEMMA FilledSubjects ==
  ASSUME TypeOK, Stage, Loading, Next, Filled
  PROVE  Subjects' \subseteq Concerned /\ (Onward # {} => Onward \subseteq Subjects')
  <1>1. call'.ids = call.ids /\ call.tops \subseteq Concerned /\ Onward \subseteq call.tops
    BY FilledFields, ConcernedIs, FilledTypes DEF SameQuestion
  <1>2. CASE call.ids = <<>>
    <2>1. Subjects' = call'.tops
      BY <1>1, <1>2 DEF Subjects
    <2>2. /\ Onward = {} => call'.tops = call.tops
          /\ Onward # {} => call'.tops = Onward
      BY FilledFields DEF SameQuestion
    <2> QED
      BY <1>1, <2>1, <2>2
  <1>3. CASE call.ids # <<>> /\ call.level # 0
    <2>1. slice' = slice
      BY <1>3, FilledIs
    <2>2. Subjects' = Subjects /\ Concerned = Subjects
      BY <1>1, <1>3, <2>1 DEF Subjects, Concerned
    <2> QED
      BY <1>1, <2>2
  <1>4. CASE call.ids # <<>> /\ call.level = 0
    <2>1. Working /\ call.ids \in Seq(Ids)
      BY ConcernedIs, CallFields DEF TypeOK
    <2>2. call.tops = ToSet(call.ids) /\ Concerned = call.tops
      BY <1>4, <2>1 DEF Loading, First, Concerned
    <2>3. /\ DOMAIN slice' = DOMAIN call.ids
          /\ \A k \in DOMAIN call.ids : slice'[k] = IF call.ids[k] \in Found THEN call.ids[k] ELSE None
      BY <1>4, <2>1, FilledIs, PlacedIs
    <2>4. Subjects' = ToSet(slice') \ {None}
      BY <1>1, <1>4 DEF Subjects
    <2>5. \A k \in DOMAIN call.ids : call.ids[k] \in Ids /\ call.ids[k] # None
      BY <2>1, NoneAssumption
    <2>6. Subjects' = {p \in call.tops : p \in Found}
      BY <2>2, <2>3, <2>4, <2>5 DEF ToSet
    <2>7. \A p \in Onward : p \in Found /\ p \in call.tops
      BY <1>4 DEF Onward, Reach, Has, IdAt
    <2> QED
      BY <2>2, <2>6, <2>7
  <1> QED
    BY <1>2, <1>3, <1>4

LEMMA FilledLoading ==
  ASSUME TypeOK, Stage, Loading, Next, Filled PROVE Loading'
  <1>0. /\ call.level \in 0 .. 2 /\ call.depth \in 0 .. 2 /\ call.level <= call.depth
        /\ call'.ids = call.ids /\ call'.depth = call.depth
    BY ConcernedIs, FilledFields DEF SameQuestion
  <1>1. Prefix' /\ Known'
    BY FilledPrefix, NextKnown
  <1>2. CASE Onward = {}
    <2>1. call'.at = "done"
      BY <1>2, FilledFields
    <2>2. ASSUME NEW p \in Subjects', NEW l \in 1 .. call.depth PROVE Told(p, l)'
      <3>0. p \in Concerned /\ l \in 1 .. 2
        BY <1>0, FilledSubjects
      <3>1. CASE l <= call.level
        BY <1>0, <3>0, <3>1, FilledTold
      <3>2. CASE l = call.level + 1
        <4>1. ~(IsRow(chain'[p][l]) /\ chain'[p][l].ref # None)
          BY <1>0, <1>2, <3>0, <3>2, FilledEnds
        <4> QED
          BY <4>1 DEF Told, Goes
      <3>3. CASE l = call.level + 2
        <4>1. chain'[p][l] = Unloaded
          BY <1>0, <3>0, <3>3, FilledEnds
        <4> QED
          BY <4>1 DEF Told, Goes, IsRow
      <3> QED
        BY <1>0, <3>0, <3>1, <3>2, <3>3
    <2>3. call'.ids # <<>> => Sliced'
      BY <1>0, FilledSlice
    <2>4. LoadedAsAsked' <=> (call'.at = "done" => /\ call'.ids # <<>> => Sliced'
                                                   /\ \A p \in Subjects', l \in 1 .. call'.depth : Told(p, l)')
      BY DEF LoadedAsAsked, Sliced, Told, Goes
    <2> QED
      BY <1>0, <1>1, <2>1, <2>2, <2>3, <2>4 DEF Loading, Working
  <1>3. CASE Onward # {}
    <2>1. /\ call'.at = "local" /\ call'.level = call.level + 1 /\ call'.tops = Onward
          /\ call'.keys = Lookup(Chained, call.level + 1, Onward) /\ DOMAIN call'.found = {}
      <3>1. /\ call'.at = "local" /\ call'.level = call.level + 1 /\ call'.tops = Onward
            /\ call'.keys = Lookup(Chained, call.level + 1, Onward) /\ call'.found = <<>>
        BY <1>3, FilledFields
      <3> QED
        BY <3>1
    <2>2. call.level < call.depth /\ call.level \in 0 .. 1 /\ chain' = Chained
      <3>1. call.level < call.depth
        BY <1>3 DEF Onward
      <3>2. chain' = Chained
        BY FilledIs
      <3> QED
        BY <1>0, <3>1, <3>2
    <2>3. Question'
      BY <1>0, <2>1, <2>2 DEF Question, Lookup
    <2>4. Hits' /\ First'
      BY <1>0, <2>1 DEF Hits, First
    <2>5. Later'
      <3>0. call'.level + 1 = call.level + 2 /\ call'.level - 1 = call.level
        BY <2>1, <2>2
      <3>1. call'.tops \subseteq Subjects' /\ Subjects' \subseteq Concerned
        BY <1>3, <2>1, FilledSubjects
      <3>2. \A p \in Concerned :
               /\ chain'[p][call.level + 2] = Unloaded
               /\ p \in Onward => IsRow(chain'[p][call.level + 1]) /\ chain'[p][call.level + 1].ref # None
               /\ p \notin Onward => ~(IsRow(chain'[p][call.level + 1]) /\ chain'[p][call.level + 1].ref # None)
        BY <2>2, FilledEnds
      <3>3. \A p \in Subjects', l \in 1 .. call'.level - 1 : Told(p, l)'
        BY <3>0, <3>1, FilledTold
      <3>4. call'.ids # <<>> => Sliced'
        BY <1>0, FilledSlice
      <3>5. \A p \in call'.tops : Goes(p, call.level)'
        BY <2>1, <3>1, <3>2 DEF Goes
      <3>6. \A p \in Subjects' : /\ chain'[p][call'.level + 1] = Unloaded
                                 /\ p \notin call'.tops => ~Goes(p, call.level)'
        BY <2>1, <3>0, <3>1, <3>2 DEF Goes
      <3> QED
        BY <3>1, <3>3, <3>4, <3>5, <3>6 DEF Later
    <2>6. LoadedAsAsked'
      BY <2>1 DEF LoadedAsAsked
    <2> QED
      BY <1>1, <2>3, <2>4, <2>5, <2>6 DEF Loading
  <1> QED
    BY <1>2, <1>3

\* The other steps.
LEMMA NextLoading == ASSUME TypeOK, Stage, Loading, Next PROVE Loading'
  <1>1. CASE LoadByIDs
    BY <1>1, LoadByIDsLoading
  <1>2. CASE Load
    BY <1>2, LoadLoading
  <1>3. CASE Filled
    BY <1>3, FilledLoading
  <1>4. CASE Return
    <2>1. call'.at = "idle" /\ chain' = chain
      BY <1>4 DEF Return, Idle, entityVars
    <2> QED
      BY <2>1, NextKnown DEF Loading, Prefix, LoadedAsAsked, Working
  <1> DEFINE Search == GetLocal \/ GetRedis \/ Select \/ FillLocal \/ FillRedis
             Other == (\E i \in Ids : Write(i)) \/ SetLocal \/ ClearCacheByIDs(Ids) \/ DelRedis
  <1>5. CASE Search
    <2>1. /\ Working /\ Working' /\ UNCHANGED entityVars /\ SameQuestion
          /\ call.level # 0 => call'.missing = call.missing
      <3>1. CASE GetLocal
        <4>1. /\ call'.at = "redis" /\ SameQuestion
              /\ call'.missing = (call.missing \/ \E i \in DOMAIN call'.found : call'.found[i].row = NoRow)
              /\ \A i \in DOMAIN call'.found : call'.found[i] = local[i] /\ Answers(local[i])
          BY <3>1, GetLocalIs
        <4>2. call.missing \in BOOLEAN
          BY CallFields DEF TypeOK
        <4>3. call.level # 0 => call'.missing = call.missing
          BY <4>1, <4>2 DEF Answers
        <4> QED
          BY <3>1, <4>1, <4>3 DEF GetLocal, Working
      <3>2. CASE GetRedis
        <4>1. /\ call'.at = "select" /\ SameQuestion
              /\ call'.missing = (call.missing \/ \E i \in DOMAIN call'.found \ DOMAIN call.found : call'.found[i].row = NoRow)
              /\ \A i \in DOMAIN call'.found \ DOMAIN call.found : call'.found[i].row = redis[i].row /\ Answers(redis[i])
          BY <3>2, GetRedisIs
        <4>2. call.missing \in BOOLEAN
          BY CallFields DEF TypeOK
        <4>3. call.level # 0 => call'.missing = call.missing
          BY <4>1, <4>2 DEF Answers
        <4> QED
          BY <3>2, <4>1, <4>3 DEF GetRedis, Working
      <3>3. CASE Select
        <4>1. call'.at \in {"fill local", "fill redis"} /\ SameQuestion
              /\ call'.missing = (call.missing \/ (call.level = 0 /\ \E i \in call.notRedis : db[i] = NoRow))
          BY <3>3, SelectIs
        <4>2. call.missing \in BOOLEAN
          BY CallFields DEF TypeOK
        <4> QED
          BY <3>3, <4>1, <4>2 DEF Select, Working
      <3>4. CASE FillLocal \/ FillRedis
        BY <3>4, FillIs DEF FillLocal, FillRedis, Working, Searched
      <3> QED
        BY <1>5, <3>1, <3>2, <3>3, <3>4
    <2>2. (Hits /\ First)'
      <3>1. CASE FillLocal \/ FillRedis
        BY <2>1, <3>1, FillIs, OtherLoading
      <3> QED
        BY <1>5, <3>1, GetLocalLoading, GetRedisLoading, SelectLoading
    <2>3. (Later /\ Question)'
      BY <2>1, WorkingOn
    <2>4. Prefix' /\ LoadedAsAsked'
      <3>1. chain' = chain /\ call'.at # "done"
        BY <2>1 DEF entityVars, Working
      <3> QED
        BY <3>1 DEF Loading, Prefix, LoadedAsAsked
    <2> QED
      BY <2>2, <2>3, <2>4, NextKnown DEF Loading
  <1>6. CASE Other
    <2>1. /\ UNCHANGED entityVars /\ call'.at = call.at /\ SameQuestion /\ call'.missing = call.missing
          /\ DOMAIN call'.found = DOMAIN call.found
          /\ \A i \in DOMAIN call.found : call'.found[i].row = call.found[i].row
      <3>1. CASE \E i \in Ids : Write(i)
        BY <3>1, WriteIs DEF Write
      <3>2. CASE SetLocal \/ ClearCacheByIDs(Ids) \/ DelRedis
        BY <3>2 DEF SetLocal, ClearCacheByIDs, DelRedis, SameQuestion
      <3> QED
        BY <1>6, <3>1, <3>2
    <2>2. Prefix'
      BY <2>1 DEF Loading, Prefix, entityVars
    <2>3. CASE Working
      <3>1. Working' /\ call'.at # "done"
        BY <2>1, <2>3 DEF Working
      <3>2. LoadedAsAsked'
        BY <3>1 DEF LoadedAsAsked
      <3> QED
        BY <2>1, <2>2, <2>3, <3>1, <3>2, OtherLoading, WorkingOn, NextKnown DEF Loading
    <2>4. CASE ~Working
      <3>1. ~Working'
        BY <2>1, <2>4 DEF Working
      <3>2. CASE call.at # "done"
        BY <2>1, <2>2, <3>1, <3>2, NextKnown DEF Loading, LoadedAsAsked
      <3>3. CASE call.at = "done"
        <4>1. /\ call.ids # <<>> => Sliced
              /\ \A p \in Subjects, l \in 1 .. call.depth : Told(p, l)
          BY <3>3, LoadedIs DEF Loading
        <4>2. Subjects' = Subjects /\ Subjects \subseteq Ids /\ call.depth \in 0 .. 2
          BY <2>1, SubjectsAreIds, CallFields DEF SameQuestion, Subjects, entityVars, TypeOK, Levels
        <4>3. call'.ids # <<>> => Sliced'
          BY <2>1, <3>3, <4>1, StillSliced DEF SameQuestion
        <4>4. \A p \in Subjects, l \in 1 .. call.depth : Told(p, l)'
          <5>1. ASSUME NEW p \in Subjects, NEW l \in 1 .. call.depth PROVE Told(p, l)'
            <6>1. p \in Ids /\ l \in 1 .. 2 /\ Told(p, l)
              BY <4>1, <4>2
            <6> QED
              BY <2>1, <3>3, <6>1, StillTold
          <5> QED
            BY <5>1
        <4>5. LoadedAsAsked' <=> (call'.at = "done" => /\ call'.ids # <<>> => Sliced'
                                                       /\ \A p \in Subjects', l \in 1 .. call'.depth : Told(p, l)')
          BY DEF LoadedAsAsked, Sliced, Told, Goes
        <4>6. LoadedAsAsked'
          BY <2>1, <4>2, <4>3, <4>4, <4>5 DEF SameQuestion
        <4> QED
          BY <2>2, <3>1, <4>6, NextKnown DEF Loading
      <3> QED
        BY <3>2, <3>3
    <2> QED
      BY <2>3, <2>4
  <1> QED
    BY <1>1, <1>2, <1>3, <1>4, <1>5, <1>6 DEF Next, Step

-----------------------------------------------------------------------------
IInv == TypeOK /\ Stage /\ Caches /\ Loading

LEMMA InitInv == Init => IInv
  BY InitTypes, InitCaches, InitLoading DEF IInv

LEMMA NextInv == IInv /\ [Next]_vars => IInv'
  <1> SUFFICES ASSUME IInv, [Next]_vars PROVE IInv'
    OBVIOUS
  <1>1. CASE Next
    BY <1>1, NextTypes, NextStage, NextCaches, NextLoading DEF IInv
  <1>2. CASE UNCHANGED vars
    <2>0. /\ setup' = setup /\ db' = db /\ redis' = redis /\ local' = local /\ slice' = slice
          /\ chain' = chain /\ call' = call /\ writer' = writer /\ calls' = calls /\ writes' = writes
          /\ unseen' = unseen /\ seen' = seen /\ was' = was /\ cleared' = cleared
      BY <1>2 DEF vars, storeVars, entityVars, countVars
    <2>1. TypeOK'
      BY <2>0 DEF IInv, TypeOK
    <2>2. Stage'
      BY <2>0 DEF IInv, Stage, Searched
    <2>3. Caches'
      BY <2>0 DEF IInv, Caches, FoundExplained, CopiesExplained, Cleared, ClearHeals, Pending
    <2>4. LoadedAsAsked' /\ Known' /\ Prefix'
      BY <2>0 DEF IInv, Loading, LoadedAsAsked, Subjects, Known, Prefix
    <2>5. (Working => Hits /\ First /\ Question)'
      BY <2>0 DEF IInv, Loading, Working, Hits, First, Question, Searched, Found, Lookup
    <2>6. (Working => Later)'
      <3>1. /\ Subjects' = Subjects /\ (Sliced' <=> Sliced)
            /\ \A p, l : Goes(p, l)' <=> Goes(p, l)
            /\ \A p, l : Told(p, l)' <=> Told(p, l)
        BY <2>0 DEF Subjects, Sliced, Told, Goes
      <3>2. \A p : Goes(p, call.level)' <=> Goes(p, call.level)
        BY <2>0 DEF Goes
      <3> QED
        BY <2>0, <3>1, <3>2 DEF IInv, Loading, Working, Later
    <2> QED
      BY <2>1, <2>2, <2>3, <2>4, <2>5, <2>6 DEF IInv, Loading
  <1> QED
    BY <1>1, <1>2

\* The type of the state: an entity that is loaded is never the nil value of a cache
\* (load_by_ids.go:65, 268, 305).
THEOREM TypeCorrect == Spec => []TypeOK
  <1>1. IInv => TypeOK
    BY DEF IInv
  <1> QED
    BY <1>1, InitInv, NextInv, PTL DEF Spec

\* LoadByIDs and Engine.Load give what was asked for: each position its entity or nothing,
\* and each reference that was asked for, unless MySQL said it is not there
\* (load_by_ids.go:10-375).
THEOREM LoadsAsAsked == Spec => []LoadedAsAsked
  <1>1. IInv => LoadedAsAsked
    BY DEF IInv, Loading
  <1> QED
    BY <1>1, InitInv, NextInv, PTL DEF Spec

\* What is in the caches is the row, but for loads that were overtaken, writes about to tell
\* the cache and caches that are never told (load_by_ids.go:146, 149, 348, 363).
THEOREM CopiesAreExplained == Spec => []CopiesExplained
  <1>1. IInv => CopiesExplained
    BY DEF IInv, Caches
  <1> QED
    BY <1>1, InitInv, NextInv, PTL DEF Spec

\* ClearCacheByIDs, with no load on its way, mends every copy (clear_by_ids.go:14-20).
THEOREM ClearMends == Spec => []ClearHeals
  <1>1. IInv => ClearHeals
    BY DEF IInv, Caches
  <1> QED
    BY <1>1, InitInv, NextInv, PTL DEF Spec
=============================================================================
