-------------------------- MODULE EntityCacheProofs --------------------------
(* Theorems about EntityCache, for any engines and processes, any columns, *)
(* with and without UUIDs.                                                 *)
EXTENDS EntityCache, TLAPS

(* Every variable keeps its type.                                          *)

LEMMA RowsType ==
  /\ 0 \in 0 .. MaxWrites
  /\ TypeOK /\ writes < setup.writes => writes + 1 \in 0 .. MaxWrites
  <1>1. TypeOK => setup.writes \in 0 .. MaxWrites
    BY SetupsAssumption DEF TypeOK, SetupType
  <1> QED
    BY <1>1, MaxWritesAssumption DEF TypeOK

\* Engines of a program are engines, and it does not change.
LEMMA StepShape ==
  ASSUME TypeOK
  PROVE  /\ setup \in Setups /\ setup.engines \subseteq Engines
         /\ {ProcOf[e] : e \in setup.engines} \subseteq Procs
         /\ [Next]_vars => setup' = setup
  BY EnginesAssumption, SetupsAssumption DEF TypeOK, SetupType, Next, vars

LEMMA TypeInit == Init => TypeOK
  <1> SUFFICES ASSUME Init PROVE TypeOK
    OBVIOUS
  <1>1. [c \in Cols |-> 0] \in Rows
    BY RowsType DEF Rows
  <1>2. writes \in 0 .. MaxWrites /\ crashes \in Nat
    BY RowsType DEF Init
  <1> QED
    BY <1>1, <1>2 DEF Init, TypeOK

LEMMA CommittedType ==
  ASSUME TypeOK, NEW e \in Engines, NEW cs, Committed(e, cs)
  PROVE  /\ overtaken' \in [Engines -> BOOLEAN]
         /\ writer' \in [Cols -> Engines \cup {NoEngine}]
  <1>1. overtaken' = [x \in Engines |-> x # e]
    BY DEF Committed
  <1>2. \A x \in Engines : (x # e) \in BOOLEAN
    OBVIOUS
  <1>3. overtaken' \in [Engines -> BOOLEAN]
    BY <1>1, <1>2, Zenon
  <1>4. writer' \in [Cols -> Engines \cup {NoEngine}]
    BY DEF Committed, TypeOK
  <1> QED
    BY <1>3, <1>4

\* A statement that leaves the row in row.
LEMMA ExecuteType ==
  ASSUME TypeOK, NEW e \in Engines, NEW row \in Rows \cup {NoRow}, NEW cs \in SUBSET Cols,
         Execute(e, row, cs)
  PROVE  /\ db' \in Rows \cup {NoRow}
         /\ txOwner' \in Engines \cup {NoEngine}
         /\ txRow' \in Rows \cup {NoRow} /\ txCols' \subseteq Cols
         /\ inTx' \in [Engines -> BOOLEAN]
         /\ snap' \in [Engines -> Rows \cup {NoRow, None}]
         /\ redis' \in Rows \cup {NoRow, Miss}
         /\ local' \in [Procs -> Rows \cup {NoRow, Miss}]
         /\ pc' \in [Engines -> {"idle", "get", "select", "copy", "fill", "put", "set", "flush"}]
         /\ val' \in [Engines -> Rows \cup {NoRow}]
         /\ writes' \in 0 .. MaxWrites /\ crashes' \in Nat
         /\ overtaken' \in [Engines -> BOOLEAN]
         /\ suspect' \subseteq {"late", "dirty", "setLast", "lost"}
         /\ mishaps' \subseteq {"late", "dirty", "setLast", "lost", "blind", "kept"}
         /\ writer' \in [Cols -> Engines \cup {NoEngine}]
  <1>1. writes' \in 0 .. MaxWrites
    BY RowsType DEF Execute
  <1>2. overtaken' \in [Engines -> BOOLEAN] /\ writer' \in [Cols -> Engines \cup {NoEngine}]
    <2>1. CASE Committed(e, cs)
      BY <2>1, CommittedType
    <2>2. CASE overtaken' = [overtaken EXCEPT ![e] = FALSE] /\ writer' = writer
      BY <2>2 DEF TypeOK
    <2> QED
      BY <2>1, <2>2 DEF Execute
  <1>3. pc' \in [Engines -> {"idle", "get", "select", "copy", "fill", "put", "set", "flush"}]
    BY DEF Execute, TypeOK
  <1> QED
    BY <1>1, <1>2, <1>3 DEF Execute, TypeOK

LEMMA TypeStep == TypeOK /\ [Next]_vars => TypeOK'
  <1> SUFFICES ASSUME TypeOK, [Next]_vars PROVE TypeOK'
    OBVIOUS
  <1> USE DEF dbVars, queueVars, boundVars
  <1>s. setup' \in Setups
    BY StepShape
  <1> USE <1>s
  <1>0. ASSUME NEW e \in Engines PROVE ProcOf[e] \in Procs /\ Current(e) \in Rows \cup {NoRow}
    BY EnginesAssumption DEF Current, TypeOK
  <1>1. ASSUME NEW e \in Engines, LoadLocal(e) PROVE TypeOK'
    <2>1. /\ ent' \in [Engines -> Rows \cup {NoRow}]
          /\ mishaps' \subseteq {"late", "dirty", "setLast", "lost", "blind", "kept"}
      BY <1>0, <1>1 DEF LoadLocal, Blind, TypeOK
    <2>2. pc' \in [Engines -> {"idle", "get", "select", "copy", "fill", "put", "set", "flush"}]
      BY <1>1 DEF LoadLocal, TypeOK
    <2> QED
      BY <1>1, <2>1, <2>2 DEF LoadLocal, TypeOK
  <1>2. ASSUME NEW e \in Engines, LoadRedis(e) PROVE TypeOK'
    <2>1. /\ ent' \in [Engines -> Rows \cup {NoRow}]
          /\ val' \in [Engines -> Rows \cup {NoRow}]
          /\ mishaps' \subseteq {"late", "dirty", "setLast", "lost", "blind", "kept"}
      <3>1. CASE redis # Miss
        <4>1. redis \in Rows \cup {NoRow}
          BY <3>1 DEF TypeOK
        <4>2. /\ ent' = [ent EXCEPT ![e] = redis] /\ val' = [val EXCEPT ![e] = redis]
              /\ mishaps' = mishaps \cup Blind(e)
          BY <1>2, <3>1 DEF LoadRedis
        <4>3. ent' \in [Engines -> Rows \cup {NoRow}] /\ val' \in [Engines -> Rows \cup {NoRow}]
          BY <4>1, <4>2 DEF TypeOK
        <4> QED
          BY <4>2, <4>3 DEF Blind, TypeOK
      <3>2. CASE UNCHANGED <<ent, val, mishaps>>
        BY <3>2 DEF TypeOK
      <3> QED
        BY <1>2, <3>1, <3>2 DEF LoadRedis
    <2>2. pc' \in [Engines -> {"idle", "get", "select", "copy", "fill", "put", "set", "flush"}]
      BY <1>2 DEF LoadRedis, TypeOK
    <2> QED
      BY <1>2, <2>1, <2>2 DEF LoadRedis, TypeOK
  <1>3. ASSUME NEW e \in Engines, Select(e) PROVE TypeOK'
    <2>1. PICK row \in Rows \cup {NoRow} :
             /\ ent' = [ent EXCEPT ![e] = row]
             /\ val' = [val EXCEPT ![e] = row]
             /\ snap' = [snap EXCEPT ![e] = IF inTx[e] /\ txOwner # e THEN row ELSE @]
      <3> DEFINE row == IF snap[e] # None /\ txOwner # e THEN snap[e] ELSE Current(e)
      <3>1. snap[e] \in Rows \cup {NoRow, None}
        BY DEF TypeOK
      <3>2. row \in Rows \cup {NoRow}
        BY <1>0, <3>1
      <3>3. /\ ent' = [ent EXCEPT ![e] = row]
            /\ val' = [val EXCEPT ![e] = row]
            /\ snap' = [snap EXCEPT ![e] = IF inTx[e] /\ txOwner # e THEN row ELSE @]
        BY <1>3 DEF Select
      <3> QED
        BY <3>2, <3>3
    <2>2. /\ ent' \in [Engines -> Rows \cup {NoRow}]
          /\ val' \in [Engines -> Rows \cup {NoRow}]
          /\ snap' \in [Engines -> Rows \cup {NoRow, None}]
      BY <2>1 DEF TypeOK
    <2>3. overtaken' \in [Engines -> BOOLEAN]
      BY <1>3 DEF Select, TypeOK
    <2> QED
      BY <1>3, <2>2, <2>3 DEF Select, TypeOK
  <1>4. ASSUME NEW e \in Engines, FillLocal(e) PROVE TypeOK'
    <2>1. local' \in [Procs -> Rows \cup {NoRow, Miss}] /\ val' \in [Engines -> Rows \cup {NoRow}]
      BY <1>4 DEF FillLocal, TypeOK
    <2>2. pc' \in [Engines -> {"idle", "get", "select", "copy", "fill", "put", "set", "flush"}]
      BY <1>4 DEF FillLocal, TypeOK
    <2> QED
      BY <1>4, <2>1, <2>2 DEF FillLocal, TypeOK
  <1>5. ASSUME NEW e \in Engines, FillRedis(e) PROVE TypeOK'
    BY <1>5 DEF FillRedis, TypeOK
  <1>6. ASSUME NEW e \in Engines, Insert(e) PROVE TypeOK'
    <2> DEFINE row == [c \in Cols |-> writes + 1]
    <2>1. row \in Rows
      BY <1>6, RowsType DEF Insert, Execute, Rows
    <2>2. Execute(e, row, Cols)
      BY <1>6 DEF Insert
    <2>3. /\ ent' \in [Engines -> Rows \cup {NoRow}]
          /\ sets' \in [Engines -> Rows \cup {NoRow, None}]
          /\ dels' \in [Engines -> BOOLEAN]
          /\ puts' \in [Engines -> Rows \cup {None}]
      <3> HIDE DEF row
      <3>1. /\ ent' = [ent EXCEPT ![e] = row] /\ sets' = [sets EXCEPT ![e] = row]
            /\ dels' = dels \/ dels' = [dels EXCEPT ![e] = TRUE]
            /\ puts' = puts \/ puts' = [puts EXCEPT ![e] = row]
        BY <1>6 DEF Insert, row
      <3>2. dels' \in [Engines -> BOOLEAN]
        BY <3>1 DEF TypeOK
      <3>3. puts' \in [Engines -> Rows \cup {None}]
        BY <2>1, <3>1 DEF TypeOK
      <3> QED
        BY <2>1, <3>1, <3>2, <3>3 DEF TypeOK
    <2> QED
      BY <2>1, <2>2, <2>3, ExecuteType DEF TypeOK
  <1>7. ASSUME NEW e \in Engines, NEW c \in Cols, Update(e, c) PROVE TypeOK'
    <2> DEFINE set(row) == IF row = NoRow THEN NoRow ELSE [row EXCEPT ![c] = writes + 1]
    <2>1. \A row \in Rows \cup {NoRow} : set(row) \in Rows \cup {NoRow}
      BY <1>7, RowsType DEF Update, Execute, Rows
    <2>2. /\ Execute(e, set(Current(e)), IF Current(e) = NoRow THEN {} ELSE {c})
          /\ ent' = [ent EXCEPT ![e] = set(ent[e])]
          /\ sets' = [sets EXCEPT ![e] = set(ent[e])]
          /\ dels' = [dels EXCEPT ![e] = TRUE]
          /\ puts' = puts
      BY <1>7 DEF Update
    <2>3. set(ent[e]) \in Rows \cup {NoRow} /\ set(Current(e)) \in Rows \cup {NoRow}
      BY <1>0, <2>1 DEF TypeOK
    <2> HIDE DEF set
    <2>4. /\ ent' \in [Engines -> Rows \cup {NoRow}]
          /\ sets' \in [Engines -> Rows \cup {NoRow, None}]
          /\ dels' \in [Engines -> BOOLEAN]
          /\ puts' \in [Engines -> Rows \cup {None}]
      BY <2>2, <2>3 DEF TypeOK
    <2>5. (IF Current(e) = NoRow THEN {} ELSE {c}) \in SUBSET Cols
      OBVIOUS
    <2> QED
      BY <2>2, <2>3, <2>4, <2>5, ExecuteType DEF TypeOK
  <1>8. ASSUME NEW e \in Engines, Delete(e) PROVE TypeOK'
    <2>1. Execute(e, NoRow, Cols)
      BY <1>8 DEF Delete
    <2>2. /\ ent' \in [Engines -> Rows \cup {NoRow}]
          /\ sets' \in [Engines -> Rows \cup {NoRow, None}]
          /\ dels' \in [Engines -> BOOLEAN]
          /\ puts' \in [Engines -> Rows \cup {None}]
      BY <1>8 DEF Delete, TypeOK
    <2> QED
      BY <2>1, <2>2, ExecuteType DEF TypeOK
  <1>9. ASSUME NEW e \in Engines, SetLocal(e) PROVE TypeOK'
    <2>1. local' \in [Procs -> Rows \cup {NoRow, Miss}]
      BY <1>9 DEF SetLocal, TypeOK
    <2> QED
      BY <1>9, <2>1 DEF SetLocal, TypeOK
  <1>10. ASSUME NEW e \in Engines, FlushRedis(e) PROVE TypeOK'
    <2>1. /\ redis' \in Rows \cup {NoRow, Miss}
          /\ suspect' \subseteq {"late", "dirty", "setLast", "lost"}
      BY <1>10 DEF FlushRedis, TypeOK
    <2> QED
      BY <1>10, <2>1 DEF FlushRedis, TypeOK
  <1>11. ASSUME NEW e \in Engines, Begin(e) PROVE TypeOK'
    BY <1>11 DEF Begin, TypeOK
  <1>12. ASSUME NEW e \in Engines, EndTx(e)
         PROVE  /\ inTx' \in [Engines -> BOOLEAN]
                /\ snap' \in [Engines -> Rows \cup {NoRow, None}]
                /\ txOwner' \in Engines \cup {NoEngine}
                /\ txRow' \in Rows \cup {NoRow} /\ txCols' \subseteq Cols
    BY <1>12 DEF EndTx, TypeOK
  <1>13. ASSUME NEW e \in Engines, Commit(e) PROVE TypeOK'
    <2>1. /\ db' \in Rows \cup {NoRow}
          /\ overtaken' \in [Engines -> BOOLEAN]
          /\ writer' \in [Cols -> Engines \cup {NoEngine}]
      <3>1. CASE Committed(e, txCols)
        BY <1>13, <3>1, CommittedType DEF Commit, TypeOK
      <3>2. CASE UNCHANGED <<db, overtaken, writer>>
        BY <3>2 DEF TypeOK
      <3> QED
        BY <1>13, <3>1, <3>2 DEF Commit
    <2> QED
      BY <1>12, <1>13, <2>1 DEF Commit, TypeOK
  <1>14. ASSUME NEW e \in Engines, Rollback(e) PROVE TypeOK'
    <2>1. /\ ent' \in [Engines -> Rows \cup {NoRow}]
          /\ mishaps' \subseteq {"late", "dirty", "setLast", "lost", "blind", "kept"}
      BY <1>14 DEF Rollback, TypeOK
    <2> QED
      BY <1>12, <1>14, <2>1 DEF Rollback, TypeOK
  <1>15. ASSUME NEW p \in Procs, Crash(p) PROVE TypeOK'
    <2>1. /\ inTx' \in [Engines -> BOOLEAN]
          /\ snap' \in [Engines -> Rows \cup {NoRow, None}]
          /\ ent' \in [Engines -> Rows \cup {NoRow}]
          /\ val' \in [Engines -> Rows \cup {NoRow}]
      BY <1>15 DEF Crash, TypeOK
    <2>2. /\ sets' \in [Engines -> Rows \cup {NoRow, None}]
          /\ dels' \in [Engines -> BOOLEAN]
          /\ puts' \in [Engines -> Rows \cup {None}]
          /\ pc' \in [Engines -> {"idle", "get", "select", "copy", "fill", "put", "set", "flush"}]
      BY <1>15 DEF Crash, TypeOK
    <2>3. /\ suspect' \subseteq {"late", "dirty", "setLast", "lost"}
          /\ mishaps' \subseteq {"late", "dirty", "setLast", "lost", "blind", "kept"}
      BY <1>15 DEF Crash, TypeOK
    <2>4. /\ txOwner' \in Engines \cup {NoEngine} /\ txRow' \in Rows \cup {NoRow}
          /\ txCols' \subseteq Cols /\ crashes' \in Nat
          /\ local' \in [Procs -> Rows \cup {NoRow, Miss}]
      BY <1>15 DEF Crash, TypeOK
    <2> QED
      BY <1>15, <2>1, <2>2, <2>3, <2>4 DEF Crash, TypeOK
  <1>16. ASSUME (\E p \in Procs : EvictLocal(p)) \/ EvictRedis PROVE TypeOK'
    <2>1. ASSUME NEW p \in Procs, EvictLocal(p) PROVE TypeOK'
      BY <2>1 DEF EvictLocal, TypeOK
    <2>2. CASE EvictRedis
      BY <2>2 DEF EvictRedis, TypeOK
    <2> QED
      BY <1>16, <2>1, <2>2
  <1>17. CASE UNCHANGED vars
    BY <1>17 DEF vars, TypeOK
  <1> QED
    BY <1>1, <1>2, <1>3, <1>4, <1>5, <1>6, <1>7, <1>8, <1>9, <1>10, <1>11, <1>13,
       <1>14, <1>15, <1>16, <1>17, StepShape DEF Next, Step

(* Type correctness of the row, its copies and the engines' queues.        *)
THEOREM TypeCorrect == Spec => []TypeOK
  BY TypeInit, TypeStep, PTL DEF Spec

-----------------------------------------------------------------------------
(* Why a stale key in Redis has one of the known causes.                   *)

\* What an engine has read or is about to SET is the row, unless a commit overtook
\* it; what it queued waits for the end of its transaction or of its Flush; and
\* whoever wrote the row in a transaction has a DEL or a SET queued for it.
EngineInv(e) ==
    /\ pc[e] \in {"fill", "put"} /\ ~overtaken[e] /\ txOwner # e => val[e] = db
    /\ snap[e] # None /\ ~overtaken[e] /\ txOwner # e => snap[e] = db
    /\ puts[e] # None /\ ~dels[e] /\ ~overtaken[e] /\ txOwner # e => puts[e] = db
    /\ puts[e] # None /\ ~dels[e] /\ txOwner = e => puts[e] = txRow
    /\ puts[e] # None /\ inTx[e] => txOwner = e
    /\ dels[e] \/ puts[e] # None => inTx[e] \/ pc[e] \in {"set", "flush"}
    /\ pc[e] \in {"set", "flush"} => ~inTx[e]
    /\ txOwner = e => inTx[e] /\ (dels[e] \/ puts[e] # None)
    /\ snap[e] # None => inTx[e]

CacheInv == TypeOK /\ RedisStaleExplained /\ \A e \in Engines : EngineInv(e)

LEMMA CacheInit == Init => CacheInv
  <1> SUFFICES ASSUME Init PROVE CacheInv
    OBVIOUS
  <1>1. RedisStaleExplained
    BY DEF Init, RedisStaleExplained
  <1>2. ASSUME NEW e \in Engines PROVE EngineInv(e)
    BY EnginesAssumption DEF Init, EngineInv
  <1> QED
    BY <1>1, <1>2, TypeInit DEF CacheInv

\* A step that leaves the row and what engine x has to do with it alone.
LEMMA EngineKept ==
  ASSUME NEW x \in Engines, EngineInv(x), db' = db,
         txOwner' = x <=> txOwner = x, txOwner = x => txRow' = txRow,
         inTx'[x] = inTx[x], snap'[x] = snap[x], pc'[x] = pc[x], val'[x] = val[x],
         dels'[x] = dels[x], puts'[x] = puts[x], overtaken'[x] = overtaken[x]
  PROVE  EngineInv(x)'
  BY DEF EngineInv

\* Another engine's commit overtakes whatever x has read.
LEMMA EngineOvertaken ==
  ASSUME NEW x \in Engines, EngineInv(x), overtaken'[x] = TRUE,
         txOwner # x, txOwner' # x,
         inTx'[x] = inTx[x], snap'[x] = snap[x], pc'[x] = pc[x],
         dels'[x] = dels[x], puts'[x] = puts[x]
  PROVE  EngineInv(x)'
  BY DEF EngineInv

\* Neither the row nor its key in Redis changes, and no one's DEL or SET is gone.
LEMMA RedisKept ==
  ASSUME RedisStaleExplained, db' = db, redis' = redis, suspect' = suspect,
         \A e \in Engines : pc[e] \in {"set", "flush"} /\ (dels[e] \/ puts[e] # None)
             => pc'[e] \in {"set", "flush"} /\ (dels'[e] \/ puts'[e] # None)
  PROVE  RedisStaleExplained'
  BY DEF RedisStaleExplained

\* A statement, with what Flush queues for it: a DEL, or the SET of the new row.
LEMMA ExecuteKeeps ==
  ASSUME CacheInv, NEW e \in Engines, NEW row, NEW cs, Execute(e, row, cs),
         row # None,
         \/ dels' = [dels EXCEPT ![e] = TRUE] /\ puts' = puts
         \/ puts' = [puts EXCEPT ![e] = row] /\ dels' = dels
  PROVE  RedisStaleExplained' /\ \A x \in Engines : EngineInv(x)'
  <1> USE DEF CacheInv
  <1>1. /\ pc[e] = "idle" /\ txOwner \in {NoEngine, e} /\ NoEngine # e
        /\ UNCHANGED <<inTx, snap, redis, local, val, suspect>>
    BY EnginesAssumption DEF Execute
  <1>2. \A x \in Engines : x # e => dels'[x] = dels[x] /\ puts'[x] = puts[x]
    BY DEF TypeOK
  <1>3. \/ dels'[e] /\ puts'[e] = puts[e]
        \/ puts'[e] = row /\ puts'[e] # None /\ dels'[e] = dels[e]
    BY DEF TypeOK
  <1>4. \A x \in Engines : pc[x] \in {"set", "flush"} => x # e
    BY <1>1
  <1>5. CASE inTx[e]
    <2>1. /\ txOwner' = e /\ txRow' = row /\ db' = db /\ pc' = pc
          /\ overtaken' = [overtaken EXCEPT ![e] = FALSE]
      BY <1>5 DEF Execute
    <2>2. RedisStaleExplained'
      BY <1>1, <1>2, <1>4, <2>1, RedisKept
    <2>3. ASSUME NEW x \in Engines, x # e PROVE EngineInv(x)'
      <3>1. overtaken'[x] = overtaken[x]
        BY <2>1, <2>3 DEF TypeOK
      <3>2. txOwner # x /\ txOwner' # x
        BY <1>1, <2>1, <2>3, EnginesAssumption
      <3> QED
        BY <1>1, <1>2, <2>1, <2>3, <3>1, <3>2, EngineKept
    <2>4. EngineInv(e)'
      BY <1>1, <1>3, <1>5, <2>1 DEF EngineInv
    <2> QED
      BY <2>2, <2>3, <2>4
  <1>6. CASE ~inTx[e]
    <2>1. /\ db' = row /\ pc' = [pc EXCEPT ![e] = "set"] /\ Committed(e, cs)
          /\ UNCHANGED <<txOwner, txRow, txCols>>
      BY <1>6 DEF Execute
    <2>2. pc'[e] = "set" /\ \A x \in Engines : x # e => pc'[x] = pc[x]
      BY <2>1 DEF TypeOK
    <2>3. RedisStaleExplained'
      BY <1>3, <2>2 DEF RedisStaleExplained
    <2>4. ASSUME NEW x \in Engines, x # e PROVE EngineInv(x)'
      <3>1. overtaken'[x] = TRUE
        BY <2>1, <2>4 DEF Committed
      <3>2. txOwner # x /\ txOwner' # x
        BY <1>1, <2>1, <2>4, EnginesAssumption
      <3> QED
        BY <1>1, <1>2, <2>2, <2>4, <3>1, <3>2, EngineOvertaken
    <2>5. EngineInv(e)'
      <3>1. txOwner = NoEngine /\ snap[e] = None /\ ~dels[e] /\ puts[e] = None
        BY <1>1, <1>6 DEF EngineInv
      <3> QED
        BY <1>1, <1>3, <1>6, <2>1, <2>2, <3>1 DEF EngineInv
    <2> QED
      BY <2>3, <2>4, <2>5
  <1> QED
    BY <1>5, <1>6

LEMMA LoadKeeps ==
  ASSUME CacheInv, NEW e \in Engines,
         LoadLocal(e) \/ LoadRedis(e) \/ Select(e) \/ FillLocal(e) \/ FillRedis(e)
  PROVE  RedisStaleExplained' /\ \A x \in Engines : EngineInv(x)'
  <1> USE DEF CacheInv, dbVars, queueVars
  <1>1. UNCHANGED <<dbVars, queueVars>>
    BY DEF LoadLocal, LoadRedis, Select, FillLocal, FillRedis
  <1>2. \A x \in Engines : x # e => /\ pc'[x] = pc[x] /\ val'[x] = val[x]
                                  /\ snap'[x] = snap[x] /\ overtaken'[x] = overtaken[x]
    <2>1. \A x \in Engines : x # e => pc'[x] = pc[x] /\ val'[x] = val[x] /\ snap'[x] = snap[x]
      BY DEF LoadLocal, LoadRedis, Select, FillLocal, FillRedis, TypeOK
    <2>2. \A x \in Engines : x # e => overtaken'[x] = overtaken[x]
      BY DEF LoadLocal, LoadRedis, Select, FillLocal, FillRedis, TypeOK
    <2> QED
      BY <2>1, <2>2
  <1>3. ASSUME NEW x \in Engines, x # e PROVE EngineInv(x)'
    BY <1>1, <1>2, <1>3, EngineKept
  <1>4. pc[e] \notin {"set", "flush"} /\ pc'[e] \notin {"set", "flush"}
    BY DEF LoadLocal, LoadRedis, Select, FillLocal, FillRedis, TypeOK
  <1>6. CASE Select(e)
    <2>1. PICK row \in {IF snap[e] # None /\ txOwner # e THEN snap[e] ELSE Current(e)} :
             /\ val' = [val EXCEPT ![e] = row]
             /\ snap' = [snap EXCEPT ![e] = IF inTx[e] /\ txOwner # e THEN row ELSE @]
      BY <1>6 DEF Select
    <2>2. /\ val'[e] = row
          /\ snap'[e] = IF inTx[e] /\ txOwner # e THEN row ELSE snap[e]
          /\ overtaken'[e] = (overtaken[e] /\ snap[e] # None /\ txOwner # e)
          /\ redis' = redis /\ suspect' = suspect
      BY <1>6, <2>1 DEF Select, TypeOK
    <2>3. /\ ~overtaken'[e] /\ txOwner # e => row = db
          /\ row # None
      <3>1. Current(e) # None
        BY ValuesAssumption DEF Current, TypeOK, Rows
      <3>2. txOwner # e => Current(e) = db
        BY DEF Current
      <3> QED
        BY <2>1, <2>2, <3>1, <3>2 DEF EngineInv
    <2>4. EngineInv(e)'
      <3>1. /\ inTx'[e] = inTx[e] /\ txOwner' = txOwner /\ db' = db
            /\ dels'[e] = dels[e] /\ puts'[e] = puts[e]
        BY <1>1
      <3>2. ~overtaken'[e] /\ txOwner # e /\ snap'[e] # None => snap'[e] = db
        BY <2>2, <2>3 DEF EngineInv
      <3>3. snap'[e] # None => inTx[e]
        BY <2>2 DEF EngineInv
      <3>4. puts[e] # None => txOwner = e
        BY <1>4 DEF EngineInv
      <3>5. /\ txOwner = e => inTx[e] /\ (dels[e] \/ puts[e] # None)
            /\ dels[e] \/ puts[e] # None => inTx[e]
            /\ puts[e] # None /\ ~dels[e] /\ txOwner = e => puts[e] = txRow
        BY <1>4 DEF EngineInv
      <3>6. txRow' = txRow /\ (~overtaken'[e] /\ txOwner # e => val'[e] = db)
        BY <1>1, <2>2, <2>3
      <3> QED
        BY <1>4, <3>1, <3>2, <3>3, <3>4, <3>5, <3>6 DEF EngineInv
    <2>5. RedisStaleExplained'
      BY <1>1, <1>2, <1>4, <2>2, RedisKept
    <2> QED
      BY <1>3, <2>4, <2>5
  <1>7. CASE FillRedis(e)
    <2>1. /\ redis' = val[e] /\ pc[e] = "put" /\ pc'[e] = "idle"
          /\ overtaken[e] => suspect' # {}
          /\ txOwner = e => suspect' # {}
          /\ UNCHANGED <<overtaken, snap>>
      BY <1>7 DEF FillRedis, TypeOK
    <2>2. RedisStaleExplained'
      BY <1>1, <2>1 DEF RedisStaleExplained, EngineInv
    <2>3. EngineInv(e)'
      BY <1>1, <1>4, <2>1 DEF EngineInv
    <2> QED
      BY <1>3, <2>2, <2>3
  <1>8. CASE LoadLocal(e) \/ LoadRedis(e) \/ FillLocal(e)
    <2>1. UNCHANGED <<redis, suspect, overtaken, snap>>
      BY <1>8 DEF LoadLocal, LoadRedis, FillLocal
    <2>2. pc'[e] \in {"fill", "put"} => pc[e] \in {"fill", "put"} /\ val'[e] = val[e]
      BY <1>8 DEF LoadLocal, LoadRedis, FillLocal, TypeOK
    <2>3. EngineInv(e)'
      BY <1>1, <1>4, <2>1, <2>2 DEF EngineInv
    <2>4. RedisStaleExplained'
      BY <1>1, <1>2, <1>4, <2>1, RedisKept
    <2> QED
      BY <1>3, <2>3, <2>4
  <1> QED
    BY <1>6, <1>7, <1>8

LEMMA FlushKeeps ==
  ASSUME CacheInv, NEW e \in Engines, SetLocal(e) \/ FlushRedis(e)
  PROVE  RedisStaleExplained' /\ \A x \in Engines : EngineInv(x)'
  <1> USE DEF CacheInv, dbVars
  <1>1. UNCHANGED <<dbVars, snap, val, overtaken>>
    BY DEF SetLocal, FlushRedis
  <1>2. \A x \in Engines : x # e => /\ pc'[x] = pc[x] /\ dels'[x] = dels[x]
                                  /\ puts'[x] = puts[x]
    BY DEF SetLocal, FlushRedis, TypeOK
  <1>3. ASSUME NEW x \in Engines, x # e PROVE EngineInv(x)'
    BY <1>1, <1>2, <1>3, EngineKept
  <1>4. CASE SetLocal(e)
    <2>1. /\ pc[e] = "set" /\ pc'[e] = "flush"
          /\ UNCHANGED <<redis, suspect, dels, puts>>
      BY <1>4 DEF SetLocal, TypeOK
    <2>2. EngineInv(e)'
      BY <1>1, <2>1 DEF EngineInv
    <2>3. RedisStaleExplained'
      BY <1>1, <1>2, <2>1, RedisKept
    <2> QED
      BY <1>3, <2>2, <2>3
  <1>5. CASE FlushRedis(e)
    <2>1. /\ pc[e] = "flush" /\ pc'[e] = "idle"
          /\ ~dels'[e] /\ puts'[e] = None
      BY <1>5 DEF FlushRedis, TypeOK
    <2>2. ~inTx[e] /\ txOwner # e
      BY <2>1 DEF EngineInv
    <2>3. EngineInv(e)'
      BY <1>1, <2>1, <2>2 DEF EngineInv
    <2>4. CASE puts[e] # None
      <3>1. /\ redis' = puts[e] /\ (overtaken[e] => suspect' # {})
            /\ dels[e] => suspect' # {}
        BY <1>5, <2>4 DEF FlushRedis
      <3> QED
        BY <1>1, <1>3, <2>2, <2>3, <2>4, <3>1 DEF EngineInv, RedisStaleExplained
    <2>5. CASE puts[e] = None /\ dels[e]
      <3>1. redis' = Miss
        BY <1>5, <2>5 DEF FlushRedis
      <3> QED
        BY <1>3, <2>3, <3>1 DEF RedisStaleExplained
    <2>6. CASE puts[e] = None /\ ~dels[e]
      <3>1. UNCHANGED <<redis, suspect>>
        BY <1>5, <2>6 DEF FlushRedis
      <3>2. RedisStaleExplained'
        BY <1>1, <1>2, <2>6, <3>1, RedisKept
      <3> QED
        BY <1>3, <2>3, <3>2
    <2> QED
      BY <2>4, <2>5, <2>6
  <1> QED
    BY <1>4, <1>5

LEMMA TransactionKeeps ==
  ASSUME CacheInv, NEW e \in Engines, Begin(e) \/ Commit(e) \/ Rollback(e)
  PROVE  RedisStaleExplained' /\ \A x \in Engines : EngineInv(x)'
  <1> USE DEF CacheInv
  <1>1. /\ pc[e] = "idle" /\ UNCHANGED <<redis, suspect, val>> /\ NoEngine # e
        /\ NoEngine \notin Engines
    BY EnginesAssumption DEF Begin, Commit, Rollback
  <1>2. \A x \in Engines : x # e =>
           /\ pc'[x] = pc[x] /\ dels'[x] = dels[x] /\ puts'[x] = puts[x]
           /\ inTx'[x] = inTx[x] /\ snap'[x] = snap[x]
           /\ txOwner' = x <=> txOwner = x
           /\ txOwner = x => txRow' = txRow
    BY <1>1 DEF Begin, Commit, Rollback, EndTx, queueVars, TypeOK
  <1>3. \A x \in Engines : pc[x] \in {"set", "flush"} => x # e
    BY <1>1
  <1>4. CASE UNCHANGED <<db, overtaken>>
    <2>1. ASSUME NEW x \in Engines, x # e PROVE EngineInv(x)'
      BY <1>1, <1>2, <1>4, <2>1, EngineKept
    <2>2. EngineInv(e)'
      <3>1. CASE Begin(e)
        BY <1>1, <1>4, <3>1 DEF Begin, queueVars, EngineInv, TypeOK
      <3>2. CASE Rollback(e)
        <4>1. /\ pc'[e] = "idle" /\ snap'[e] = None /\ txOwner' # e
              /\ ~dels'[e] /\ puts'[e] = None
          BY <1>1, <3>2 DEF Rollback, EndTx, TypeOK
        <4> QED
          BY <4>1 DEF EngineInv
      <3>3. CASE Commit(e)
        <4>1. /\ pc'[e] = "set" /\ snap'[e] = None /\ txOwner' # e /\ ~inTx'[e]
              /\ dels' = dels /\ puts' = puts /\ inTx[e]
          BY <1>1, <3>3 DEF Commit, EndTx, queueVars, TypeOK
        <4>2. txOwner = e => db' = txRow
          BY <3>3 DEF Commit
        <4> QED
          BY <1>4, <4>1, <4>2 DEF EngineInv
      <3> QED
        BY <3>1, <3>2, <3>3
    <2>3. RedisStaleExplained'
      BY <1>1, <1>2, <1>3, <1>4, RedisKept
    <2> QED
      BY <2>1, <2>2, <2>3
  <1>5. CASE Commit(e) /\ txOwner = e /\ db' = txRow /\ Committed(e, txCols)
    <2>1. /\ pc'[e] = "set" /\ snap'[e] = None /\ txOwner' # e /\ ~inTx'[e]
          /\ dels' = dels /\ puts' = puts
      BY <1>1, <1>5 DEF Commit, EndTx, queueVars, TypeOK
    <2>2. ASSUME NEW x \in Engines, x # e PROVE EngineInv(x)'
      <3>1. overtaken'[x] = TRUE /\ txOwner # x /\ txOwner' # x
        BY <1>2, <1>5, <2>2 DEF Committed
      <3> QED
        BY <1>2, <2>2, <3>1, EngineOvertaken
    <2>3. EngineInv(e)'
      BY <1>5, <2>1 DEF EngineInv
    <2>4. RedisStaleExplained'
      BY <1>5, <2>1 DEF EngineInv, RedisStaleExplained
    <2> QED
      BY <2>2, <2>3, <2>4
  <1> QED
    BY <1>4, <1>5 DEF Begin, Commit, Rollback

LEMMA CrashKeeps ==
  ASSUME CacheInv, NEW p \in Procs, Crash(p)
  PROVE  RedisStaleExplained' /\ \A x \in Engines : EngineInv(x)'
  <1> USE DEF CacheInv
  <1> DEFINE dead == {e \in Engines : ProcOf[e] = p}
             lost == {"lost" : e \in {x \in dead : /\ pc[x] \in {"set", "flush"}
                                                   /\ dels[x] \/ puts[x] # None}}
  <1>1. NoEngine \notin Engines
    BY EnginesAssumption
  <1>2. /\ UNCHANGED <<db, redis, overtaken>>
        /\ txOwner' = IF txOwner \in dead THEN NoEngine ELSE txOwner
        /\ txRow' = IF txOwner \in dead THEN NoRow ELSE txRow
        /\ suspect' = suspect \cup lost
    BY DEF Crash
  <1>3. \A x \in Engines :
           IF x \in dead
           THEN pc'[x] = "idle" /\ snap'[x] = None /\ ~dels'[x] /\ puts'[x] = None
           ELSE /\ pc'[x] = pc[x] /\ snap'[x] = snap[x] /\ dels'[x] = dels[x]
                /\ puts'[x] = puts[x] /\ inTx'[x] = inTx[x] /\ val'[x] = val[x]
    BY DEF Crash
  <1>4. ASSUME NEW x \in Engines PROVE EngineInv(x)'
    <2>1. CASE x \in dead
      <3>1. txOwner' # x
        BY <1>1, <1>2, <2>1
      <3> QED
        BY <1>3, <2>1, <3>1 DEF EngineInv
    <2>2. CASE x \notin dead
      <3>1. (txOwner' = x <=> txOwner = x) /\ (txOwner = x => txRow' = txRow)
        BY <1>1, <1>2, <2>2
      <3> QED
        BY <1>2, <1>3, <2>2, <3>1, EngineKept
    <2> QED
      BY <2>1, <2>2
  <1>5. CASE lost # {}
    BY <1>2, <1>4, <1>5 DEF RedisStaleExplained
  <1>6. CASE lost = {}
    <2>1. \A x \in Engines : pc[x] \in {"set", "flush"} /\ (dels[x] \/ puts[x] # None)
                            => x \notin dead
      BY <1>6
    <2>2. suspect' = suspect
      BY <1>2, <1>6
    <2> HIDE DEF dead
    <2>3. \A x \in Engines : pc[x] \in {"set", "flush"} /\ (dels[x] \/ puts[x] # None)
             => pc'[x] \in {"set", "flush"} /\ (dels'[x] \/ puts'[x] # None)
      BY <1>3, <2>1
    <2> QED
      BY <1>2, <1>4, <2>2, <2>3, RedisKept
  <1> QED
    BY <1>5, <1>6

LEMMA EvictKeeps ==
  ASSUME CacheInv, (\E p \in Procs : EvictLocal(p)) \/ EvictRedis
  PROVE  RedisStaleExplained' /\ \A x \in Engines : EngineInv(x)'
  <1> USE DEF CacheInv, dbVars, queueVars
  <1>1. UNCHANGED <<dbVars, snap, pc, val, queueVars, overtaken>>
    BY DEF EvictLocal, EvictRedis
  <1>2. \A x \in Engines : EngineInv(x)'
    BY <1>1, EngineKept
  <1>3. redis' = Miss \/ UNCHANGED <<redis, suspect>>
    BY DEF EvictLocal, EvictRedis
  <1> QED
    BY <1>1, <1>2, <1>3, RedisKept DEF RedisStaleExplained

LEMMA CacheStep == CacheInv /\ [Next]_vars => CacheInv'
  <1> SUFFICES ASSUME CacheInv, [Next]_vars PROVE CacheInv'
    OBVIOUS
  <1> DEFINE Kept == RedisStaleExplained' /\ \A x \in Engines : EngineInv(x)'
  <1>1. TypeOK'
    BY TypeStep DEF CacheInv
  <1>2. ASSUME NEW e \in Engines, Insert(e) PROVE Kept
    <2> DEFINE row == [c \in Cols |-> writes + 1]
    <2>1. row \in Rows
      BY <1>2, RowsType DEF CacheInv, Insert, Execute, Rows
    <2>2. row # None
      BY <2>1, ValuesAssumption DEF Rows
    <2> QED
      BY <1>2, <2>2, ExecuteKeeps DEF Insert
  <1>3. ASSUME NEW e \in Engines, NEW c \in Cols, Update(e, c) PROVE Kept
    <2> DEFINE set(row) == IF row = NoRow THEN NoRow ELSE [row EXCEPT ![c] = writes + 1]
    <2>1. Current(e) \in Rows \cup {NoRow}
      BY DEF CacheInv, TypeOK, Current
    <2>2. set(Current(e)) \in Rows \cup {NoRow}
      BY <1>3, <2>1, RowsType DEF CacheInv, Update, Execute, Rows
    <2>3. set(Current(e)) # None
      BY <2>2, ValuesAssumption DEF Rows
    <2>4. /\ Execute(e, set(Current(e)), IF Current(e) = NoRow THEN {} ELSE {c})
          /\ dels' = [dels EXCEPT ![e] = TRUE] /\ puts' = puts
      BY <1>3 DEF Update
    <2> HIDE DEF set
    <2> QED
      BY <2>3, <2>4, ExecuteKeeps
  <1>4. ASSUME NEW e \in Engines, Delete(e) PROVE Kept
    <2>1. NoRow # None
      BY ValuesAssumption
    <2>2. /\ Execute(e, NoRow, Cols)
          /\ dels' = [dels EXCEPT ![e] = TRUE] /\ puts' = puts
      BY <1>4 DEF Delete
    <2> QED
      BY <2>1, <2>2, ExecuteKeeps
  <1>5. CASE UNCHANGED vars
    <2>1. Kept
      <3>1. UNCHANGED <<db, txOwner, txRow, inTx, snap, pc, val, dels, puts, overtaken,
                        redis, suspect>>
        BY <1>5 DEF vars, dbVars, queueVars
      <3>2. \A x \in Engines : EngineInv(x)'
        BY <3>1, EngineKept DEF CacheInv
      <3> QED
        BY <3>1, <3>2, RedisKept DEF CacheInv
    <2> QED
      BY <1>1, <2>1 DEF CacheInv
  <1> QED
    BY <1>1, <1>2, <1>3, <1>4, <1>5, LoadKeeps, FlushKeeps, TransactionKeeps, CrashKeeps,
       EvictKeeps, StepShape DEF Next, Step, CacheInv

(* With any number of engines and processes, transactions, crashes and     *)
(* evictions: a stale key in Redis is one a committed writer is about to   *)
(* remove, or has one of the four causes RedisStaleExplained names.        *)
THEOREM RedisStaleIsExplained == Spec => []RedisStaleExplained
  <1>1. CacheInv => RedisStaleExplained
    BY DEF CacheInv
  <1> QED
    BY CacheInit, CacheStep, <1>1, PTL DEF Spec

(* What an engine knows of the row.  Nobody else sets the columns that were *)
(* last set by the engine's commits, so that every copy of the row that it  *)
(* loaded, wrote or is about to store has their committed values.           *)

\* The engines of the program are in processes of their own.
Apart == \A e, f \in setup.engines : ProcOf[e] = ProcOf[f] => e = f

Column(row, c) == IF row = NoRow THEN NoRow ELSE row[c]

Agree(row, other, cs) == \A c \in cs : Column(row, c) = Column(other, c)

\* The columns whose committed value is e's: all of them if it is alone.
Mine(e) == IF setup.engines = {e} THEN Cols ELSE {c \in Cols : writer[c] = e}

\* And those that it wrote in its open transaction.
Touched(e) == Mine(e) \cup IF txOwner = e THEN txCols ELSE {}

\* e has a DEL or a SET to send.
Telling(e) == pc[e] \in {"set", "flush"} /\ (dels[e] \/ puts[e] # None)

OwnTx(e)     == txOwner = e => sets[e] # None /\ Agree(txRow, db, Cols \ txCols)
OwnSets(e)   == sets[e] # None => /\ Agree(sets[e], Current(e), Touched(e))
                                  /\ pc[e] = "set" \/ txOwner = e
OwnEntity(e) == ent[e] # NoRow => Agree(ent[e], Current(e), Touched(e))
OwnLocal(e)  == local[ProcOf[e]] # Miss /\ (pc[e] # "set" \/ sets[e] = None) =>
                   Agree(local[ProcOf[e]], db, Mine(e))
OwnVal(e)    == pc[e] \in {"copy", "fill", "put"} =>
                   txOwner # e /\ Agree(val[e], db, Mine(e))
OwnSnap(e)   == snap[e] # None /\ txOwner # e => Agree(snap[e], db, Mine(e))
OwnRedis(e)  == redis # Miss /\ ~Telling(e) => Agree(redis, db, Mine(e))

OwnInv(e) ==
    OwnTx(e) /\ OwnSets(e) /\ OwnEntity(e) /\ OwnLocal(e) /\ OwnVal(e) /\ OwnSnap(e)
    /\ OwnRedis(e)

\* Engines that are not of the program do nothing.
Quiet ==
    /\ \A x \in Engines \ setup.engines : pc[x] = "idle" /\ txOwner # x
    /\ \A c \in Cols : writer[c] \in setup.engines \cup {NoEngine}
    /\ txOwner = NoEngine => txCols = {}

OwnersInv ==
    /\ CacheInv /\ Quiet /\ suspect \subseteq mishaps
    /\ Apart /\ mishaps = {} => \A e \in setup.engines : OwnInv(e)

\* What a step of somebody else may do to x.
LEMMA OwnKept ==
  ASSUME NEW x, OwnInv(x),
         \A c \in Mine(x)' : c \in Mine(x) /\ Column(db', c) = Column(db, c),
         txOwner' = x <=> txOwner = x,
         txOwner = x => txRow' = txRow /\ txCols' = txCols /\ db' = db,
         pc'[x] = pc[x], sets'[x] = sets[x], ent'[x] = ent[x], val'[x] = val[x],
         snap'[x] = snap[x], dels'[x] = dels[x], puts'[x] = puts[x],
         local'[ProcOf[x]] \in {local[ProcOf[x]], Miss},
         redis' \in {redis, Miss, db'}
  PROVE  OwnInv(x)'
  <1> USE DEF OwnInv
  <1>1. /\ \A row : Agree(row, db, Mine(x)) => Agree(row, db', Mine(x)')
        /\ Agree(db', db', Mine(x)')
    BY DEF Agree
  <1>2. \A row : Agree(row, Current(x), Touched(x)) => Agree(row, Current(x)', Touched(x)')
    <2>1. CASE txOwner = x
      <3>1. Current(x)' = Current(x) /\ Touched(x)' \subseteq Touched(x)
        BY <2>1 DEF Current, Touched
      <3> QED
        BY <3>1 DEF Agree
    <2>2. CASE txOwner # x
      <3>1. /\ Current(x) = db /\ Current(x)' = db'
            /\ Touched(x) = Mine(x) /\ Touched(x)' = Mine(x)'
        BY <2>2 DEF Current, Touched
      <3> QED
        BY <1>1, <3>1
    <2> QED
      BY <2>1, <2>2
  <1>3. OwnTx(x)'
    BY DEF OwnTx
  <1>4. OwnSets(x)'
    BY <1>2 DEF OwnSets
  <1>5. OwnEntity(x)'
    BY <1>2 DEF OwnEntity
  <1>6. OwnLocal(x)'
    BY <1>1 DEF OwnLocal
  <1>7. OwnVal(x)' /\ OwnSnap(x)'
    BY <1>1 DEF OwnVal, OwnSnap
  <1>8. OwnRedis(x)'
    <2>1. Telling(x)' <=> Telling(x)
      BY DEF Telling
    <2> QED
      BY <1>1, <2>1 DEF OwnRedis
  <1> QED
    BY <1>3, <1>4, <1>5, <1>6, <1>7, <1>8

LEMMA OwnInit == Init => OwnersInv
  <1> SUFFICES ASSUME Init PROVE OwnersInv
    OBVIOUS
  <1>1. Quiet /\ suspect \subseteq mishaps
    BY EnginesAssumption DEF Init, Quiet
  <1>2. setup.engines \subseteq Engines
    BY CacheInit, StepShape DEF CacheInv
  <1>3. ASSUME NEW e \in setup.engines PROVE OwnInv(e)
    <2>1. /\ txOwner # e /\ sets[e] = None /\ ent[e] = NoRow /\ pc[e] = "idle"
          /\ snap[e] = None /\ redis = Miss /\ local[ProcOf[e]] = Miss
      BY <1>2, EnginesAssumption DEF Init
    <2> QED
      BY <2>1 DEF OwnInv, OwnTx, OwnSets, OwnEntity, OwnLocal, OwnVal, OwnSnap, OwnRedis
  <1> QED
    BY <1>1, <1>3, CacheInit DEF OwnersInv

\* What is Miss, NoRow or None and what is a row.
LEMMA NoRowIsNone ==
  ASSUME TypeOK
  PROVE  /\ NoRow # None /\ NoRow \notin 0 .. MaxWrites
         /\ \A row \in Rows : row # None /\ row # NoRow
         /\ NoEngine \notin Engines
  BY ValuesAssumption, EnginesAssumption DEF Rows

\* Nobody's columns change.
LEMMA MineKept ==
  ASSUME NEW x, setup' = setup, writer' = writer
  PROVE  Mine(x)' = Mine(x)
  BY DEF Mine

\* A commit of e takes columns from the others and leaves theirs as they are.
LEMMA MineCommitted ==
  ASSUME TypeOK, NEW e \in setup.engines, NEW x \in setup.engines, NEW cs \in SUBSET Cols,
         setup' = setup, Committed(e, cs), Agree(db', db, Cols \ cs)
  PROVE  /\ x # e => \A c \in Mine(x)' : c \in Mine(x) /\ Column(db', c) = Column(db, c)
         /\ Mine(e)' \subseteq Mine(e) \cup cs
  <1>1. writer' = [c \in Cols |-> IF c \in cs THEN e ELSE writer[c]]
    BY DEF Committed
  <1>2. ASSUME x # e PROVE \A c \in Mine(x)' : c \in Mine(x) /\ Column(db', c) = Column(db, c)
    <2>1. setup.engines # {x}
      BY <1>2
    <2>2. ASSUME NEW c \in Mine(x)' PROVE c \in Cols /\ writer'[c] = x
      BY <2>1 DEF Mine
    <2>3. ASSUME NEW c \in Mine(x)' PROVE c \notin cs /\ writer[c] = x
      BY <1>1, <1>2, <2>2
    <2> QED
      BY <2>1, <2>2, <2>3 DEF Mine, Agree
  <1>3. Mine(e)' \subseteq Mine(e) \cup cs
    BY <1>1 DEF Mine
  <1> QED
    BY <1>2, <1>3

\* Engines of the program that are apart share no local cache.
LEMMA OthersLocal ==
  ASSUME TypeOK, Apart, NEW e \in setup.engines, NEW x \in setup.engines, x # e
  PROVE  /\ e \in Engines /\ x \in Engines
         /\ ProcOf[e] \in Procs /\ ProcOf[x] \in Procs /\ ProcOf[x] # ProcOf[e]
  BY StepShape, EnginesAssumption DEF Apart

LEMMA LoadOwn ==
  ASSUME OwnersInv, Apart, mishaps' = {}, setup' = setup, NEW e \in setup.engines,
         LoadLocal(e) \/ LoadRedis(e) \/ Select(e) \/ FillLocal(e) \/ FillRedis(e)
  PROVE  \A x \in setup.engines : OwnInv(x)'
  <1> USE DEF dbVars, queueVars
  <1>1. TypeOK /\ CacheInv /\ e \in Engines /\ ProcOf[e] \in Procs
    BY StepShape, EnginesAssumption DEF OwnersInv, CacheInv
  <1>2. mishaps = {} /\ UNCHANGED <<dbVars, queueVars, writer>>
    BY DEF LoadLocal, LoadRedis, Select, FillLocal, FillRedis
  <1>3. \A x \in setup.engines : OwnInv(x)
    BY <1>2 DEF OwnersInv
  <1>4. \A x : /\ Mine(x)' = Mine(x) /\ Touched(x)' = Touched(x) /\ Current(x)' = Current(x)
               /\ txOwner # x => Current(x) = db /\ Touched(x) = Mine(x)
    <2>1. \A x : Mine(x)' = Mine(x)
      BY <1>2, MineKept
    <2> QED
      BY <1>2, <2>1 DEF Touched, Current
  <1>5. redis' = redis \/ redis' = db'
    <2>1. CASE FillRedis(e)
      <3>1. redis' = val[e] /\ ~overtaken[e] /\ txOwner # e
        BY <2>1 DEF FillRedis
      <3>2. val[e] = db
        BY <1>1, <2>1, <3>1 DEF CacheInv, EngineInv, FillRedis
      <3> QED
        BY <1>2, <3>1, <3>2
    <2> QED
      BY <2>1 DEF LoadLocal, LoadRedis, Select, FillLocal
  <1>6. ASSUME NEW x \in setup.engines, x # e PROVE OwnInv(x)'
    <2>1. x \in Engines /\ ProcOf[x] \in Procs /\ ProcOf[x] # ProcOf[e]
      BY <1>1, <1>6, OthersLocal
    <2>2. /\ pc'[x] = pc[x] /\ ent'[x] = ent[x] /\ val'[x] = val[x] /\ snap'[x] = snap[x]
          /\ local'[ProcOf[x]] = local[ProcOf[x]]
      BY <1>1, <1>6, <2>1 DEF LoadLocal, LoadRedis, Select, FillLocal, FillRedis, TypeOK
    <2>3. \A c \in Mine(x)' : c \in Mine(x) /\ Column(db', c) = Column(db, c)
      BY <1>2, <1>4
    <2> QED
      BY <1>2, <1>3, <1>5, <2>2, <2>3, OwnKept
  <1>7. OwnInv(e)'
    <2> USE <1>3 DEF OwnInv
    <2>0. Agree(db, db, Mine(e))
      BY DEF Agree
    <2>1. OwnTx(e)'
      BY <1>2 DEF OwnTx
    <2>2. OwnSets(e)'
      <3>1. pc[e] # "set"
        BY DEF LoadLocal, LoadRedis, Select, FillLocal, FillRedis
      <3> QED
        BY <1>2, <1>4, <3>1 DEF OwnSets
    <2>3. CASE LoadLocal(e)
      <3>1. CASE local[ProcOf[e]] # Miss
        <4>1. /\ ent'[e] = local[ProcOf[e]] /\ pc[e] = "idle" /\ txOwner # e
              /\ UNCHANGED <<pc, local, val, snap, redis>>
          BY <1>1, <2>3, <3>1 DEF LoadLocal, Blind, TypeOK
        <4>2. Agree(local[ProcOf[e]], db, Mine(e))
          BY <3>1, <4>1 DEF OwnLocal
        <4>3. OwnEntity(e)'
          BY <1>4, <4>1, <4>2 DEF OwnEntity
        <4>4. OwnLocal(e)' /\ OwnVal(e)' /\ OwnSnap(e)'
          BY <1>2, <1>4, <4>1 DEF OwnLocal, OwnVal, OwnSnap
        <4>5. OwnRedis(e)'
          BY <1>2, <1>4, <4>1 DEF OwnRedis, Telling
        <4> QED
          BY <2>1, <2>2, <4>3, <4>4, <4>5
      <3>2. CASE local[ProcOf[e]] = Miss
        <4>1. /\ pc[e] = "idle" /\ pc'[e] = "get"
              /\ UNCHANGED <<ent, local, val, snap, redis>>
          BY <1>1, <2>3, <3>2 DEF LoadLocal, TypeOK
        <4>2. OwnEntity(e)' /\ OwnLocal(e)' /\ OwnVal(e)' /\ OwnSnap(e)'
          BY <1>2, <1>4, <4>1 DEF OwnEntity, OwnLocal, OwnVal, OwnSnap
        <4>3. OwnRedis(e)'
          BY <1>2, <1>4, <4>1 DEF OwnRedis, Telling
        <4> QED
          BY <2>1, <2>2, <4>2, <4>3
      <3> QED
        BY <3>1, <3>2
    <2>4. CASE LoadRedis(e)
      <3>1. pc[e] = "get" /\ UNCHANGED <<local, snap, redis>>
        BY <2>4 DEF LoadRedis
      <3>2. OwnLocal(e)' /\ OwnSnap(e)'
        BY <1>2, <1>4, <3>1 DEF OwnLocal, OwnSnap
      <3>3. OwnRedis(e)'
        BY <1>2, <1>4, <3>1 DEF OwnRedis, Telling
      <3>4. CASE redis # Miss
        <4>1. /\ ent'[e] = redis /\ val'[e] = redis /\ txOwner # e
          BY <1>1, <2>4, <3>4 DEF LoadRedis, Blind, TypeOK
        <4>2. Agree(redis, db, Mine(e))
          BY <3>1, <3>4 DEF OwnRedis, Telling
        <4>3. OwnEntity(e)' /\ OwnVal(e)'
          BY <1>2, <1>4, <4>1, <4>2 DEF OwnEntity, OwnVal
        <4> QED
          BY <2>1, <2>2, <3>2, <3>3, <4>3
      <3>5. CASE redis = Miss
        <4>1. pc'[e] = "select" /\ UNCHANGED ent
          BY <1>1, <2>4, <3>5 DEF LoadRedis, TypeOK
        <4>2. OwnEntity(e)' /\ OwnVal(e)'
          BY <1>2, <1>4, <4>1 DEF OwnEntity, OwnVal
        <4> QED
          BY <2>1, <2>2, <3>2, <3>3, <4>2
      <3> QED
        BY <3>4, <3>5
    <2>5. CASE Select(e)
      <3>1. txOwner # e
        BY <2>5 DEF Select
      <3>2. PICK row \in {IF snap[e] # None /\ txOwner # e THEN snap[e] ELSE Current(e)} :
               /\ ent' = [ent EXCEPT ![e] = row]
               /\ val' = [val EXCEPT ![e] = row]
               /\ snap' = [snap EXCEPT ![e] = IF inTx[e] /\ txOwner # e THEN row ELSE @]
        BY <2>5 DEF Select
      <3>3. /\ ent'[e] = row /\ val'[e] = row /\ snap'[e] \in {row, snap[e]}
            /\ pc[e] = "select" /\ pc'[e] = "fill" /\ UNCHANGED <<local, redis>>
        BY <1>1, <2>5, <3>2 DEF Select, TypeOK
      <3>4. Agree(row, db, Mine(e))
        BY <1>4, <2>0, <3>1, <3>2 DEF OwnSnap
      <3>5. OwnEntity(e)' /\ OwnVal(e)'
        BY <1>2, <1>4, <3>1, <3>3, <3>4 DEF OwnEntity, OwnVal
      <3>6. OwnSnap(e)'
        BY <1>2, <1>4, <3>3, <3>4 DEF OwnSnap
      <3>7. OwnLocal(e)'
        BY <1>2, <1>4, <3>3 DEF OwnLocal
      <3>8. OwnRedis(e)'
        BY <1>2, <1>4, <3>3 DEF OwnRedis, Telling
      <3> QED
        BY <2>1, <2>2, <3>5, <3>6, <3>7, <3>8
    <2>6. CASE FillLocal(e)
      <3>1. /\ pc[e] \in {"copy", "fill"} /\ pc'[e] \in {"idle", "put"}
            /\ local'[ProcOf[e]] = val[e] /\ UNCHANGED <<ent, snap, redis>>
            /\ pc'[e] = "put" => val'[e] = val[e]
        BY <1>1, <2>6 DEF FillLocal, TypeOK
      <3>2. OwnLocal(e)' /\ OwnVal(e)'
        BY <1>2, <1>4, <3>1 DEF OwnLocal, OwnVal
      <3>3. OwnEntity(e)' /\ OwnSnap(e)'
        BY <1>2, <1>4, <3>1 DEF OwnEntity, OwnSnap
      <3>4. OwnRedis(e)'
        BY <1>2, <1>4, <3>1 DEF OwnRedis, Telling
      <3> QED
        BY <2>1, <2>2, <3>2, <3>3, <3>4
    <2>7. CASE FillRedis(e)
      <3>1. /\ pc[e] = "put" /\ pc'[e] = "idle" /\ redis' = val[e]
            /\ UNCHANGED <<ent, snap, local>>
        BY <1>1, <2>7 DEF FillRedis, TypeOK
      <3>2. OwnRedis(e)'
        BY <1>2, <1>4, <3>1 DEF OwnRedis, OwnVal
      <3>3. OwnEntity(e)' /\ OwnSnap(e)' /\ OwnVal(e)' /\ OwnLocal(e)'
        BY <1>2, <1>4, <3>1 DEF OwnEntity, OwnSnap, OwnVal, OwnLocal
      <3> QED
        BY <2>1, <2>2, <3>2, <3>3
    <2> QED
      BY <2>3, <2>4, <2>5, <2>6, <2>7
  <1> QED
    BY <1>6, <1>7

\* A statement of e that changes the columns cs, and the entity it leaves behind.
LEMMA ExecuteOwn ==
  ASSUME OwnersInv, Apart, mishaps' = {}, setup' = setup, NEW e \in setup.engines,
         NEW row, NEW new, NEW cs \in SUBSET Cols, Execute(e, row, cs), new # None,
         ent' = [ent EXCEPT ![e] = new], sets' = [sets EXCEPT ![e] = new],
         Agree(row, Current(e), Cols \ cs), Agree(new, row, Touched(e) \cup cs),
         \/ dels' = [dels EXCEPT ![e] = TRUE] /\ puts' = puts
         \/ puts' = [puts EXCEPT ![e] = row] /\ row # None /\ dels' = dels
  PROVE  \A x \in setup.engines : OwnInv(x)'
  <1>1. /\ TypeOK /\ CacheInv /\ e \in Engines /\ NoEngine # e /\ EngineInv(e)
        /\ mishaps = {} /\ pc[e] = "idle" /\ txOwner \in {NoEngine, e}
        /\ UNCHANGED <<inTx, snap, redis, local, val>>
    BY StepShape, EnginesAssumption DEF OwnersInv, CacheInv, Execute
  <1>2. \A x \in setup.engines : OwnInv(x)
    BY <1>1 DEF OwnersInv
  <1>3. ent'[e] = new /\ sets'[e] = new /\ (dels'[e] \/ puts'[e] # None)
    BY <1>1 DEF TypeOK
  <1>4. ASSUME NEW x \in setup.engines, x # e
        PROVE  /\ x \in Engines /\ txOwner # x
               /\ ent'[x] = ent[x] /\ sets'[x] = sets[x] /\ dels'[x] = dels[x] /\ puts'[x] = puts[x]
    BY <1>1, <1>4, StepShape, EnginesAssumption DEF TypeOK
  <1>5. txOwner = e => Agree(txRow, db, Cols \ txCols)
    BY <1>2 DEF OwnInv, OwnTx
  <1>6. CASE inTx[e]
    <2>1. /\ txOwner' = e /\ txRow' = row /\ txCols' = txCols \cup cs
          /\ UNCHANGED <<db, pc, writer>>
      BY <1>6 DEF Execute
    <2>2. \A x : Mine(x)' = Mine(x)
      BY <2>1, MineKept
    <2>3. ASSUME NEW x \in setup.engines, x # e PROVE OwnInv(x)'
      <3>1. \A c \in Mine(x)' : c \in Mine(x) /\ Column(db', c) = Column(db, c)
        BY <2>1, <2>2
      <3> QED
        BY <1>1, <1>2, <1>4, <2>1, <2>3, <3>1, OwnKept
    <2>4. Touched(e)' \subseteq Touched(e) \cup cs /\ Current(e)' = row
      <3>1. txOwner = NoEngine => txCols = {}
        BY DEF OwnersInv, Quiet
      <3> QED
        BY <1>1, <2>1, <2>2, <3>1 DEF Touched, Current
    <2>5. Agree(new, Current(e)', Touched(e)')
      BY <2>4 DEF Agree
    <2>6. OwnTx(e)'
      <3>1. txOwner # e => Current(e) = db
        BY DEF Current
      <3>2. txOwner = e => Current(e) = txRow
        BY DEF Current
      <3>3. Agree(row, db, Cols \ (txCols \cup cs))
        BY <1>5, <3>1, <3>2 DEF Agree
      <3> QED
        BY <1>3, <2>1, <3>3 DEF OwnTx
    <2>7. OwnSets(e)' /\ OwnEntity(e)'
      BY <1>3, <2>1, <2>5 DEF OwnSets, OwnEntity
    <2>8. OwnLocal(e)' /\ OwnVal(e)' /\ OwnSnap(e)'
      BY <1>1, <1>2, <2>1, <2>2 DEF OwnInv, OwnLocal, OwnVal, OwnSnap
    <2>9. OwnRedis(e)'
      BY <1>1, <1>2, <2>1, <2>2 DEF OwnInv, OwnRedis, Telling
    <2> QED
      BY <2>3, <2>6, <2>7, <2>8, <2>9 DEF OwnInv
  <1>7. CASE ~inTx[e]
    <2>1. /\ db' = row /\ Committed(e, cs) /\ UNCHANGED <<txOwner, txRow, txCols>>
          /\ pc' = [pc EXCEPT ![e] = "set"]
      BY <1>7 DEF Execute
    <2>2. txOwner # e /\ txOwner = NoEngine /\ snap[e] = None
      BY <1>1, <1>7 DEF EngineInv
    <2>3. Current(e) = db /\ Touched(e) = Mine(e) /\ Current(e)' = row /\ Touched(e)' = Mine(e)'
      BY <2>1, <2>2 DEF Current, Touched
    <2>4. Agree(db', db, Cols \ cs)
      BY <2>1, <2>3
    <2>5. ASSUME NEW x \in setup.engines, x # e PROVE OwnInv(x)'
      <3>1. \A c \in Mine(x)' : c \in Mine(x) /\ Column(db', c) = Column(db, c)
        BY <1>1, <2>1, <2>4, <2>5, MineCommitted
      <3>2. pc'[x] = pc[x]
        BY <1>1, <1>4, <2>1, <2>5 DEF TypeOK
      <3> QED
        BY <1>1, <1>2, <1>4, <2>1, <2>5, <3>1, <3>2, OwnKept
    <2>6. Mine(e)' \subseteq Mine(e) \cup cs
      BY <1>1, <2>1, <2>4, MineCommitted
    <2>7. Agree(new, Current(e)', Touched(e)')
      BY <2>3, <2>6 DEF Agree
    <2>8. pc'[e] = "set"
      BY <1>1, <2>1 DEF TypeOK
    <2>9. OwnTx(e)' /\ OwnSets(e)' /\ OwnEntity(e)'
      BY <2>1, <2>2, <2>7, <2>8, <1>3 DEF OwnTx, OwnSets, OwnEntity
    <2>10. OwnLocal(e)' /\ OwnVal(e)' /\ OwnSnap(e)' /\ OwnRedis(e)'
      BY <1>1, <1>3, <2>2, <2>8 DEF OwnLocal, OwnVal, OwnSnap, OwnRedis, Telling
    <2> QED
      BY <2>5, <2>9, <2>10 DEF OwnInv
  <1> QED
    BY <1>6, <1>7

LEMMA InsertOwn ==
  ASSUME OwnersInv, Apart, mishaps' = {}, setup' = setup, NEW e \in setup.engines, Insert(e)
  PROVE  \A x \in setup.engines : OwnInv(x)'
  <1> DEFINE row == [c \in Cols |-> writes + 1]
  <1>1. row \in Rows
    BY RowsType DEF OwnersInv, CacheInv, Insert, Execute, Rows
  <1>2. row # None
    BY <1>1, NoRowIsNone DEF OwnersInv, CacheInv
  <1>3. /\ Execute(e, row, Cols)
        /\ ent' = [ent EXCEPT ![e] = row] /\ sets' = [sets EXCEPT ![e] = row]
        /\ \/ dels' = [dels EXCEPT ![e] = TRUE] /\ puts' = puts
           \/ puts' = [puts EXCEPT ![e] = row] /\ dels' = dels
    BY DEF Insert
  <1> HIDE DEF row
  <1>4. Agree(row, Current(e), Cols \ Cols) /\ Agree(row, row, Touched(e) \cup Cols)
    BY DEF Agree
  <1> QED
    BY <1>2, <1>3, <1>4, ExecuteOwn

LEMMA DeleteOwn ==
  ASSUME OwnersInv, Apart, mishaps' = {}, setup' = setup, NEW e \in setup.engines, Delete(e)
  PROVE  \A x \in setup.engines : OwnInv(x)'
  <1>1. NoRow # None
    BY NoRowIsNone DEF OwnersInv, CacheInv
  <1>2. /\ Execute(e, NoRow, Cols)
        /\ ent' = [ent EXCEPT ![e] = NoRow] /\ sets' = [sets EXCEPT ![e] = NoRow]
        /\ dels' = [dels EXCEPT ![e] = TRUE] /\ puts' = puts
    BY DEF Delete
  <1>3. Agree(NoRow, Current(e), Cols \ Cols) /\ Agree(NoRow, NoRow, Touched(e) \cup Cols)
    BY DEF Agree
  <1> QED
    BY <1>1, <1>2, <1>3, ExecuteOwn

\* An update sets the same column of the row and of the entity; the row of an
\* entity with columns of the engine is still there.
LEMMA UpdateOwn ==
  ASSUME OwnersInv, Apart, mishaps' = {}, setup' = setup, NEW e \in setup.engines,
         NEW c \in Cols, Update(e, c)
  PROVE  \A x \in setup.engines : OwnInv(x)'
  <1> DEFINE set(row) == IF row = NoRow THEN NoRow ELSE [row EXCEPT ![c] = writes + 1]
             cs == IF Current(e) = NoRow THEN {} ELSE {c}
  <1>1. /\ TypeOK /\ e \in Engines /\ mishaps = {} /\ ent[e] \in Rows /\ ent[e] # NoRow
        /\ Current(e) \in Rows \cup {NoRow} /\ writes + 1 \in 0 .. MaxWrites
    <2>1. TypeOK /\ e \in Engines
      BY StepShape DEF OwnersInv, CacheInv
    <2>2. ent[e] \in Rows /\ ent[e] # NoRow
      BY <2>1 DEF Update, TypeOK
    <2>3. Current(e) \in Rows \cup {NoRow}
      BY <2>1 DEF Current, TypeOK
    <2> QED
      BY <2>1, <2>2, <2>3, RowsType DEF Update, Execute
  <1>2. Agree(ent[e], Current(e), Touched(e))
    BY <1>1 DEF OwnersInv, OwnInv, OwnEntity
  <1>3. /\ Execute(e, set(Current(e)), cs)
        /\ ent' = [ent EXCEPT ![e] = set(ent[e])] /\ sets' = [sets EXCEPT ![e] = set(ent[e])]
        /\ dels' = [dels EXCEPT ![e] = TRUE] /\ puts' = puts
    BY DEF Update
  <1>4. \A row \in Rows : /\ set(row) \in Rows /\ set(row) # None /\ set(row) # NoRow
                         /\ \A d \in Cols : /\ d # c => set(row)[d] = row[d]
                                            /\ set(row)[c] = writes + 1
    <2>1. \A row \in Rows : row # NoRow /\ row # None
      BY <1>1, NoRowIsNone
    <2>2. \A row \in Rows : [row EXCEPT ![c] = writes + 1] \in Rows
      BY <1>1 DEF Rows
    <2>3. \A row \in Rows : set(row) = [row EXCEPT ![c] = writes + 1]
      BY <2>1
    <2> HIDE DEF set
    <2>4. \A row \in Rows : \A d \in Cols :
             /\ d # c => [row EXCEPT ![c] = writes + 1][d] = row[d]
             /\ [row EXCEPT ![c] = writes + 1][c] = writes + 1
      BY DEF Rows
    <2> QED
      BY <2>1, <2>2, <2>3, <2>4
  <1>5. set(NoRow) = NoRow
    OBVIOUS
  <1> HIDE DEF set
  <1>t. Touched(e) \subseteq Cols
    BY <1>1 DEF Touched, Mine, TypeOK
  <1>6. CASE Current(e) = NoRow
    <2>1. Touched(e) = {}
      <3>1. \A d \in Touched(e) : ent[e][d] = NoRow
        BY <1>1, <1>2, <1>6 DEF Agree, Column
      <3>2. \A d \in Cols : ent[e][d] # NoRow
        BY <1>1, NoRowIsNone DEF Rows
      <3> QED
        BY <1>t, <3>1, <3>2
    <2>2. /\ Agree(set(Current(e)), Current(e), Cols \ cs)
          /\ Agree(set(ent[e]), set(Current(e)), Touched(e) \cup cs)
      BY <1>5, <1>6, <2>1 DEF Agree
    <2> HIDE DEF cs
    <2>3. cs \in SUBSET Cols /\ set(ent[e]) # None
      BY <1>1, <1>4 DEF cs
    <2> QED
      BY <1>3, <2>2, <2>3, ExecuteOwn
  <1>7. CASE Current(e) # NoRow
    <2>1. cs = {c}
      BY <1>7
    <2>2. Current(e) \in Rows
      BY <1>1, <1>7
    <2>3. Agree(set(Current(e)), Current(e), Cols \ cs)
      BY <1>4, <1>7, <2>1, <2>2 DEF Agree, Column
    <2>4. Agree(set(ent[e]), set(Current(e)), Touched(e) \cup cs)
      <3>1. ASSUME NEW d \in Touched(e) \cup {c}
            PROVE  Column(set(ent[e]), d) = Column(set(Current(e)), d)
        <4>1. d \in Cols
          BY <1>t
        <4>2. d # c => ent[e][d] = Current(e)[d]
          BY <1>1, <1>2, <1>7 DEF Agree, Column
        <4>3. /\ set(ent[e]) # NoRow /\ set(Current(e)) # NoRow
              /\ d # c => set(ent[e])[d] = ent[e][d] /\ set(Current(e))[d] = Current(e)[d]
              /\ set(ent[e])[c] = writes + 1 /\ set(Current(e))[c] = writes + 1
          BY <1>1, <1>4, <2>2, <4>1
        <4> QED
          BY <4>2, <4>3 DEF Column
      <3> QED
        BY <2>1, <3>1 DEF Agree
    <2> HIDE DEF cs
    <2>5. cs \in SUBSET Cols /\ set(ent[e]) # None
      BY <1>1, <1>4, <2>1
    <2> QED
      BY <1>3, <2>3, <2>4, <2>5, ExecuteOwn
  <1> QED
    BY <1>6, <1>7

LEMMA FlushOwn ==
  ASSUME OwnersInv, Apart, mishaps' = {}, setup' = setup, NEW e \in setup.engines,
         SetLocal(e) \/ FlushRedis(e)
  PROVE  \A x \in setup.engines : OwnInv(x)'
  <1> USE DEF dbVars
  <1>1. /\ TypeOK /\ CacheInv /\ e \in Engines /\ ProcOf[e] \in Procs /\ EngineInv(e)
        /\ mishaps = {} /\ txOwner # e /\ UNCHANGED <<dbVars, writer, snap, ent, val>>
    <2>1. TypeOK /\ CacheInv /\ e \in Engines /\ ProcOf[e] \in Procs /\ EngineInv(e)
      BY StepShape, EnginesAssumption DEF OwnersInv, CacheInv
    <2> QED
      BY <2>1 DEF EngineInv, SetLocal, FlushRedis
  <1>2. \A x \in setup.engines : OwnInv(x)
    BY <1>1 DEF OwnersInv
  <1>3. \A x : /\ Mine(x)' = Mine(x) /\ Touched(x)' = Touched(x) /\ Current(x)' = Current(x)
               /\ txOwner # x => Current(x) = db /\ Touched(x) = Mine(x)
    <2>1. \A x : Mine(x)' = Mine(x)
      BY <1>1, MineKept
    <2> QED
      BY <1>1, <2>1 DEF Touched, Current
  <1>4. redis' \in {redis, Miss, db'}
    <2>1. CASE FlushRedis(e) /\ puts[e] # None
      <3>1. redis' = puts[e] /\ ~overtaken[e] /\ ~dels[e] /\ pc[e] = "flush"
        BY <2>1 DEF FlushRedis
      <3>2. puts[e] = db
        BY <1>1, <2>1, <3>1 DEF EngineInv
      <3> QED
        BY <1>1, <3>1, <3>2
    <2> QED
      BY <2>1 DEF SetLocal, FlushRedis
  <1>5. ASSUME NEW x \in setup.engines, x # e PROVE OwnInv(x)'
    <2>1. x \in Engines /\ ProcOf[x] \in Procs /\ ProcOf[x] # ProcOf[e]
      BY <1>1, <1>5, OthersLocal
    <2>2. /\ pc'[x] = pc[x] /\ sets'[x] = sets[x] /\ dels'[x] = dels[x] /\ puts'[x] = puts[x]
          /\ local'[ProcOf[x]] = local[ProcOf[x]]
      BY <1>1, <1>5, <2>1 DEF SetLocal, FlushRedis, TypeOK
    <2>3. \A c \in Mine(x)' : c \in Mine(x) /\ Column(db', c) = Column(db, c)
      BY <1>1, <1>3
    <2> QED
      BY <1>1, <1>2, <1>4, <2>2, <2>3, OwnKept
  <1>6. OwnInv(e)'
    <2> USE <1>2 DEF OwnInv
    <2>1. OwnTx(e)' /\ OwnEntity(e)' /\ OwnSnap(e)'
      BY <1>1, <1>3 DEF OwnTx, OwnEntity, OwnSnap
    <2>2. CASE SetLocal(e)
      <3>1. /\ pc[e] = "set" /\ pc'[e] = "flush" /\ sets'[e] = None
            /\ local'[ProcOf[e]] = IF sets[e] = None THEN local[ProcOf[e]] ELSE sets[e]
            /\ UNCHANGED <<redis, dels, puts>>
        BY <1>1, <2>2 DEF SetLocal, TypeOK
      <3>2. OwnSets(e)' /\ OwnVal(e)'
        BY <3>1 DEF OwnSets, OwnVal
      <3>3. OwnLocal(e)'
        BY <1>1, <1>3, <3>1 DEF OwnLocal, OwnSets
      <3>4. OwnRedis(e)'
        BY <1>1, <1>3, <3>1 DEF OwnRedis, Telling
      <3> QED
        BY <2>1, <3>2, <3>3, <3>4
    <2>3. CASE FlushRedis(e)
      <3>1. /\ pc[e] = "flush" /\ pc'[e] = "idle"
            /\ UNCHANGED <<local, sets>>
        BY <1>1, <2>3 DEF FlushRedis, TypeOK
      <3>2. OwnSets(e)' /\ OwnVal(e)' /\ OwnLocal(e)'
        BY <1>1, <1>3, <3>1 DEF OwnSets, OwnVal, OwnLocal
      <3>3. OwnRedis(e)'
        <4>1. CASE redis' = Miss
          BY <4>1 DEF OwnRedis
        <4>2. CASE redis' = db'
          BY <4>2 DEF OwnRedis, Agree
        <4>3. CASE puts[e] = None /\ ~dels[e]
          BY <1>1, <1>3, <2>3, <4>3 DEF FlushRedis, OwnRedis, Telling
        <4>4. CASE puts[e] # None
          <5>1. redis' = puts[e] /\ ~overtaken[e] /\ ~dels[e] /\ pc[e] = "flush"
            BY <2>3, <4>4 DEF FlushRedis
          <5>2. puts[e] = db
            BY <1>1, <4>4, <5>1 DEF EngineInv
          <5> QED
            BY <1>1, <4>2, <5>1, <5>2
        <4> QED
          BY <2>3, <4>1, <4>3, <4>4 DEF FlushRedis
      <3> QED
        BY <2>1, <3>2, <3>3
    <2> QED
      BY <2>2, <2>3
  <1> QED
    BY <1>5, <1>6

LEMMA TransactionOwn ==
  ASSUME OwnersInv, Apart, mishaps' = {}, setup' = setup, NEW e \in setup.engines,
         Begin(e) \/ Commit(e) \/ Rollback(e)
  PROVE  \A x \in setup.engines : OwnInv(x)'
  <1>1. /\ TypeOK /\ CacheInv /\ e \in Engines /\ EngineInv(e) /\ NoEngine \notin Engines
        /\ setup.engines \subseteq Engines
        /\ mishaps = {} /\ pc[e] = "idle" /\ UNCHANGED <<redis, local, val>>
    <2>1. /\ TypeOK /\ CacheInv /\ e \in Engines /\ EngineInv(e) /\ NoEngine \notin Engines
          /\ setup.engines \subseteq Engines
      BY StepShape, EnginesAssumption DEF OwnersInv, CacheInv
    <2> QED
      BY <2>1 DEF Begin, Commit, Rollback
  <1>2. \A x \in setup.engines : OwnInv(x)
    BY <1>1 DEF OwnersInv
  <1>3. \A x \in setup.engines : x # e =>
           /\ pc'[x] = pc[x] /\ sets'[x] = sets[x] /\ dels'[x] = dels[x] /\ puts'[x] = puts[x]
           /\ ent'[x] = ent[x] /\ snap'[x] = snap[x] /\ (txOwner' = x <=> txOwner = x)
           /\ txOwner = x => txRow' = txRow /\ txCols' = txCols /\ db' = db
    BY <1>1 DEF Begin, Commit, Rollback, EndTx, queueVars, TypeOK
  <1>4. CASE UNCHANGED <<db, writer>>
    <2>1. \A x : Mine(x)' = Mine(x)
      BY <1>4, MineKept
    <2>2. ASSUME NEW x \in setup.engines, x # e PROVE OwnInv(x)'
      <3>1. \A c \in Mine(x)' : c \in Mine(x) /\ Column(db', c) = Column(db, c)
        BY <1>4, <2>1
      <3> QED
        BY <1>1, <1>2, <1>3, <2>2, <3>1, OwnKept
    <2>3. OwnInv(e)'
      <3>1. CASE Begin(e)
        <4>1. UNCHANGED <<db, txOwner, txRow, txCols, snap, redis, local, ent, pc, val, queueVars>>
          BY <3>1 DEF Begin
        <4>2. \A c \in Mine(e)' : c \in Mine(e) /\ Column(db', c) = Column(db, c)
          BY <4>1, <2>1
        <4> QED
          BY <1>2, <4>1, <4>2, OwnKept DEF queueVars
      <3>2. CASE Rollback(e)
        <4>1. /\ pc'[e] = "idle" /\ snap'[e] = None /\ txOwner' # e /\ sets'[e] = None
              /\ ent'[e] = NoRow \/ (ent'[e] = ent[e] /\ txOwner # e)
          <5>1. ent' = [ent EXCEPT ![e] = NoRow] \/ (ent' = ent /\ txOwner # e)
            BY <3>2 DEF Rollback
          <5>2. ent'[e] = NoRow \/ (ent'[e] = ent[e] /\ txOwner # e)
            BY <1>1, <5>1 DEF TypeOK
          <5>3. /\ pc'[e] = "idle" /\ snap'[e] = None /\ txOwner' # e /\ sets'[e] = None
            BY <1>1, <3>2 DEF Rollback, EndTx, TypeOK
          <5> QED
            BY <5>2, <5>3
        <4>2. Current(e)' = db /\ Touched(e)' = Mine(e)
          BY <1>4, <2>1, <4>1 DEF Current, Touched
        <4>3. OwnEntity(e)'
          <5>1. txOwner # e => Current(e) = db /\ Touched(e) = Mine(e)
            BY DEF Current, Touched
          <5> QED
            BY <1>2, <4>1, <4>2, <5>1 DEF OwnInv, OwnEntity
        <4>4. OwnTx(e)' /\ OwnSets(e)' /\ OwnVal(e)' /\ OwnSnap(e)'
          BY <4>1 DEF OwnTx, OwnSets, OwnVal, OwnSnap
        <4>5. OwnLocal(e)'
          BY <1>1, <1>2, <1>4, <2>1 DEF OwnInv, OwnLocal
        <4>6. OwnRedis(e)'
          BY <1>1, <1>2, <1>4, <2>1 DEF OwnInv, OwnRedis, Telling
        <4> QED
          BY <4>3, <4>4, <4>5, <4>6 DEF OwnInv
      <3>3. CASE Commit(e) /\ txOwner # e
        <4>1. /\ pc'[e] = "set" /\ snap'[e] = None /\ txOwner' # e
              /\ UNCHANGED <<sets, ent, dels, puts>>
          BY <1>1, <3>3 DEF Commit, EndTx, queueVars, TypeOK
        <4>2. /\ Current(e)' = db /\ Touched(e)' = Mine(e)
              /\ Current(e) = db /\ Touched(e) = Mine(e)
          BY <1>4, <2>1, <3>3, <4>1 DEF Current, Touched
        <4>3. sets[e] = None
          BY <1>1, <1>2, <3>3 DEF OwnInv, OwnSets
        <4>4. OwnTx(e)' /\ OwnSets(e)' /\ OwnVal(e)' /\ OwnSnap(e)' /\ OwnEntity(e)'
          BY <1>2, <4>1, <4>2, <4>3 DEF OwnInv, OwnTx, OwnSets, OwnVal, OwnSnap, OwnEntity
        <4>5. OwnLocal(e)'
          BY <1>1, <1>2, <1>4, <2>1 DEF OwnInv, OwnLocal
        <4>6. OwnRedis(e)'
          BY <1>1, <1>2, <1>4, <2>1 DEF OwnInv, OwnRedis, Telling
        <4> QED
          BY <4>4, <4>5, <4>6 DEF OwnInv
      <3>4. CASE Commit(e) /\ txOwner = e
        <4>1. /\ pc'[e] = "set" /\ snap'[e] = None /\ txOwner' # e
              /\ UNCHANGED <<sets, ent, dels, puts>> /\ db' = txRow
          BY <1>1, <3>4 DEF Commit, EndTx, queueVars, TypeOK
        <4>2. Current(e)' = Current(e) /\ Touched(e)' \subseteq Touched(e)
          BY <2>1, <3>4, <4>1 DEF Current, Touched
        <4>3. /\ \A row : Agree(row, Current(e), Touched(e)) => Agree(row, Current(e)', Touched(e)')
              /\ sets[e] # None /\ (dels[e] \/ puts[e] # None)
          <5>1. sets[e] # None /\ (dels[e] \/ puts[e] # None)
            BY <1>1, <1>2, <3>4 DEF EngineInv, OwnInv, OwnTx
          <5> QED
            BY <4>2, <5>1 DEF Agree
        <4>4. OwnTx(e)' /\ OwnSets(e)' /\ OwnVal(e)' /\ OwnSnap(e)' /\ OwnEntity(e)'
          BY <1>2, <4>1, <4>3 DEF OwnInv, OwnTx, OwnSets, OwnVal, OwnSnap, OwnEntity
        <4>5. OwnLocal(e)' /\ OwnRedis(e)'
          BY <4>1, <4>3 DEF OwnLocal, OwnRedis, Telling
        <4> QED
          BY <4>4, <4>5 DEF OwnInv
      <3> QED
        BY <3>1, <3>2, <3>3, <3>4
    <2> QED
      BY <2>2, <2>3
  <1>5. CASE Commit(e) /\ txOwner = e /\ db' = txRow /\ Committed(e, txCols)
    <2>1. /\ pc'[e] = "set" /\ snap'[e] = None /\ txOwner' # e
          /\ UNCHANGED <<sets, ent, dels, puts>>
      BY <1>1, <1>5 DEF Commit, EndTx, queueVars, TypeOK
    <2>2. /\ sets[e] # None /\ (dels[e] \/ puts[e] # None)
          /\ Agree(db', db, Cols \ txCols) /\ txCols \in SUBSET Cols
      BY <1>1, <1>2, <1>5 DEF EngineInv, OwnInv, OwnTx, TypeOK
    <2>3. ASSUME NEW x \in setup.engines, x # e PROVE OwnInv(x)'
      <3>1. \A c \in Mine(x)' : c \in Mine(x) /\ Column(db', c) = Column(db, c)
        BY <1>1, <1>5, <2>2, <2>3, MineCommitted
      <3> QED
        BY <1>1, <1>2, <1>3, <2>3, <3>1, OwnKept
    <2>4. Mine(e)' \subseteq Touched(e)
      BY <1>1, <1>5, <2>2, MineCommitted DEF Touched
    <2>5. Current(e)' = Current(e) /\ Touched(e)' \subseteq Touched(e)
      BY <1>5, <2>1, <2>4 DEF Current, Touched
    <2>6. \A row : Agree(row, Current(e), Touched(e)) => Agree(row, Current(e)', Touched(e)')
      BY <2>5 DEF Agree
    <2>7. OwnTx(e)' /\ OwnSets(e)' /\ OwnVal(e)' /\ OwnSnap(e)' /\ OwnEntity(e)'
      BY <1>2, <2>1, <2>6 DEF OwnInv, OwnTx, OwnSets, OwnVal, OwnSnap, OwnEntity
    <2>8. OwnLocal(e)' /\ OwnRedis(e)'
      BY <2>1, <2>2 DEF OwnLocal, OwnRedis, Telling
    <2> QED
      BY <2>3, <2>7, <2>8 DEF OwnInv
  <1> QED
    BY <1>4, <1>5 DEF Begin, Commit, Rollback

\* An engine of a process that dies starts again with nothing; it had no DEL to send.
LEMMA CrashOwn ==
  ASSUME OwnersInv, Apart, mishaps' = {}, setup' = setup, NEW p \in Procs, Crash(p)
  PROVE  \A x \in setup.engines : OwnInv(x)'
  <1> DEFINE dead == {e \in Engines : ProcOf[e] = p}
             lost == {"lost" : e \in {x \in dead : /\ pc[x] \in {"set", "flush"}
                                                   /\ dels[x] \/ puts[x] # None}}
  <1>1. TypeOK /\ NoEngine \notin Engines /\ setup.engines \subseteq Engines
    BY StepShape, EnginesAssumption DEF OwnersInv, CacheInv
  <1>2. /\ UNCHANGED <<db, redis, writer>> /\ mishaps' = mishaps \cup lost
        /\ local' = [local EXCEPT ![p] = Miss]
        /\ txOwner' = IF txOwner \in dead THEN NoEngine ELSE txOwner
        /\ txRow' = IF txOwner \in dead THEN NoRow ELSE txRow
        /\ txCols' = IF txOwner \in dead THEN {} ELSE txCols
    BY DEF Crash
  <1>3. mishaps = {} /\ lost = {}
    BY <1>2
  <1>4. \A x \in setup.engines : OwnInv(x) /\ Mine(x)' = Mine(x)
    BY <1>2, <1>3, MineKept DEF OwnersInv
  <1>5. \A x \in Engines :
           IF x \in dead
           THEN /\ pc'[x] = "idle" /\ snap'[x] = None /\ sets'[x] = None /\ ent'[x] = NoRow
           ELSE /\ pc'[x] = pc[x] /\ snap'[x] = snap[x] /\ dels'[x] = dels[x]
                /\ puts'[x] = puts[x] /\ sets'[x] = sets[x] /\ val'[x] = val[x] /\ ent'[x] = ent[x]
    BY DEF Crash
  <1>6. \A x \in dead : ~Telling(x)
    BY <1>3 DEF Telling
  <1>7. ASSUME NEW x \in setup.engines PROVE OwnInv(x)'
    <2>1. CASE x \in dead
      <3>1. /\ txOwner' # x /\ local'[ProcOf[x]] = Miss
        BY <1>1, <1>2, <2>1, EnginesAssumption DEF TypeOK
      <3>2. OwnTx(x)' /\ OwnSets(x)' /\ OwnEntity(x)' /\ OwnLocal(x)' /\ OwnVal(x)' /\ OwnSnap(x)'
        BY <1>5, <2>1, <3>1 DEF OwnTx, OwnSets, OwnEntity, OwnLocal, OwnVal, OwnSnap
      <3>3. OwnRedis(x)'
        BY <1>2, <1>4, <1>6, <2>1 DEF OwnInv, OwnRedis
      <3> QED
        BY <3>2, <3>3 DEF OwnInv
    <2>2. CASE x \notin dead
      <3>1. /\ (txOwner' = x <=> txOwner = x) /\ (txOwner = x => txRow' = txRow /\ txCols' = txCols)
            /\ local'[ProcOf[x]] = local[ProcOf[x]]
        BY <1>1, <1>2, <2>2, EnginesAssumption DEF TypeOK
      <3>2. \A c \in Mine(x)' : c \in Mine(x) /\ Column(db', c) = Column(db, c)
        BY <1>2, <1>4
      <3>3. x \in Engines
        BY <1>1
      <3> HIDE DEF dead
      <3> QED
        BY <1>2, <1>4, <1>5, <2>2, <3>1, <3>2, <3>3, OwnKept
    <2> QED
      BY <2>1, <2>2
  <1> QED
    BY <1>7

LEMMA EvictOwn ==
  ASSUME OwnersInv, Apart, mishaps' = {}, setup' = setup,
         (\E p \in Procs : EvictLocal(p)) \/ EvictRedis \/ UNCHANGED vars
  PROVE  \A x \in setup.engines : OwnInv(x)'
  <1> USE DEF vars, dbVars, queueVars
  <1>1. /\ UNCHANGED <<dbVars, snap, ent, pc, val, queueVars, mishaps, writer>>
        /\ redis' \in {redis, Miss}
    BY DEF EvictLocal, EvictRedis
  <1>2. \A x \in setup.engines : local'[ProcOf[x]] \in {local[ProcOf[x]], Miss}
    BY StepShape, EnginesAssumption DEF EvictLocal, EvictRedis, OwnersInv, CacheInv, TypeOK
  <1>3. \A x \in setup.engines : OwnInv(x) /\ Mine(x)' = Mine(x)
    BY <1>1, MineKept DEF OwnersInv
  <1> QED
    BY <1>1, <1>2, <1>3, OwnKept

\* The engines of the program act, and what happens is remembered.
LEMMA QuietStep ==
  ASSUME OwnersInv, Next
  PROVE  Quiet' /\ suspect' \subseteq mishaps' /\ mishaps \subseteq mishaps'
  <1> USE DEF dbVars, queueVars, boundVars
  <1>1. /\ TypeOK /\ Quiet /\ NoEngine \notin Engines /\ setup.engines \subseteq Engines
        /\ setup' = setup /\ suspect \subseteq mishaps
    BY StepShape, EnginesAssumption DEF OwnersInv, CacheInv, Next
  <1> DEFINE Goal == Quiet' /\ suspect' \subseteq mishaps' /\ mishaps \subseteq mishaps'
  <1>2. ASSUME NEW e \in setup.engines, pc' = pc \/ \E v : pc' = [pc EXCEPT ![e] = v],
               UNCHANGED <<txOwner, txCols>>, writer' = writer \/ \E cs : Committed(e, cs)
        PROVE  Quiet'
    <2>1. \A x \in Engines \ setup.engines : pc'[x] = pc[x]
      BY <1>1, <1>2 DEF TypeOK
    <2>2. \A c \in Cols : writer'[c] \in {writer[c], e}
      BY <1>1, <1>2 DEF Committed
    <2> QED
      BY <1>1, <1>2, <2>1, <2>2 DEF Quiet
  <1>3. ASSUME NEW e \in setup.engines,
               LoadLocal(e) \/ LoadRedis(e) \/ Select(e) \/ FillLocal(e) \/ FillRedis(e)
        PROVE  Goal
    <2>1. suspect' \subseteq mishaps' /\ mishaps \subseteq mishaps'
      BY <1>1, <1>3 DEF LoadLocal, LoadRedis, Select, FillLocal, FillRedis
    <2>2. /\ pc' = pc \/ \E v : pc' = [pc EXCEPT ![e] = v]
          /\ UNCHANGED <<txOwner, txCols, writer>>
      BY <1>3 DEF LoadLocal, LoadRedis, Select, FillLocal, FillRedis
    <2> QED
      BY <1>2, <2>1, <2>2
  <1>4. ASSUME NEW e \in setup.engines, SetLocal(e) \/ FlushRedis(e) PROVE Goal
    <2>1. suspect' \subseteq mishaps' /\ mishaps \subseteq mishaps'
      BY <1>1, <1>4 DEF SetLocal, FlushRedis
    <2>2. /\ pc' = pc \/ \E v : pc' = [pc EXCEPT ![e] = v]
          /\ UNCHANGED <<txOwner, txCols, writer>>
      BY <1>4 DEF SetLocal, FlushRedis
    <2> QED
      BY <1>2, <2>1, <2>2
  <1>5. ASSUME NEW e \in setup.engines, NEW row, NEW cs, Execute(e, row, cs) PROVE Goal
    <2>1. suspect' \subseteq mishaps' /\ mishaps \subseteq mishaps'
      BY <1>1, <1>5 DEF Execute
    <2>2. CASE inTx[e]
      <3>1. txOwner' = e /\ UNCHANGED <<pc, writer>>
        BY <1>5, <2>2 DEF Execute
      <3> QED
        BY <1>1, <2>1, <3>1 DEF Quiet
    <2>3. CASE ~inTx[e]
      <3>1. /\ UNCHANGED <<txOwner, txCols>> /\ Committed(e, cs)
            /\ pc' = [pc EXCEPT ![e] = "set"]
        BY <1>5, <2>3 DEF Execute
      <3> QED
        BY <1>2, <2>1, <3>1
    <2> QED
      BY <2>2, <2>3
  <1>6. ASSUME NEW e \in setup.engines, Begin(e) PROVE Goal
    BY <1>1, <1>2, <1>6 DEF Begin
  <1>7. ASSUME NEW e \in setup.engines, Commit(e) \/ Rollback(e) PROVE Goal
    <2>1. suspect' \subseteq mishaps' /\ mishaps \subseteq mishaps'
      BY <1>1, <1>7 DEF Commit, Rollback
    <2>2. /\ EndTx(e)
          /\ pc' = pc \/ \E v : pc' = [pc EXCEPT ![e] = v]
          /\ writer' = writer \/ \E cs : Committed(e, cs)
      BY <1>7 DEF Commit, Rollback
    <2>3. \A x \in Engines \ setup.engines : pc'[x] = pc[x]
      BY <1>1, <2>2 DEF TypeOK
    <2>4. \A c \in Cols : writer'[c] \in {writer[c], e}
      BY <1>1, <2>2 DEF Committed
    <2> QED
      BY <1>1, <2>1, <2>2, <2>3, <2>4 DEF Quiet, EndTx
  <1>8. ASSUME NEW p \in Procs, Crash(p) PROVE Goal
    <2> DEFINE dead == {e \in Engines : ProcOf[e] = p}
    <2>1. /\ \A x \in Engines : pc'[x] \in {pc[x], "idle"}
          /\ suspect' \subseteq mishaps' /\ mishaps \subseteq mishaps' /\ UNCHANGED writer
      BY <1>1, <1>8 DEF Crash
    <2>2. /\ txOwner' = IF txOwner \in dead THEN NoEngine ELSE txOwner
          /\ txCols' = IF txOwner \in dead THEN {} ELSE txCols
      BY <1>8 DEF Crash
    <2> HIDE DEF dead
    <2> QED
      BY <1>1, <2>1, <2>2 DEF Quiet
  <1>9. ASSUME (\E p \in Procs : EvictLocal(p)) \/ EvictRedis PROVE Goal
    BY <1>1, <1>9 DEF EvictLocal, EvictRedis, Quiet
  <1>10. {ProcOf[e] : e \in setup.engines} \subseteq Procs
    BY <1>1, EnginesAssumption
  <1>11. ASSUME NEW e \in setup.engines, Insert(e) \/ Delete(e) \/ \E c \in Cols : Update(e, c)
         PROVE  Goal
    BY <1>5, <1>11 DEF Insert, Delete, Update
  <1> QED
    BY <1>3, <1>4, <1>6, <1>7, <1>8, <1>9, <1>10, <1>11 DEF Next, Step

LEMMA OwnStep == OwnersInv /\ [Next]_vars => OwnersInv'
  <1> SUFFICES ASSUME OwnersInv, [Next]_vars PROVE OwnersInv'
    OBVIOUS
  <1>1. CacheInv' /\ setup' = setup /\ {ProcOf[e] : e \in setup.engines} \subseteq Procs
    BY CacheStep, StepShape DEF OwnersInv, CacheInv
  <1>2. Quiet' /\ suspect' \subseteq mishaps' /\ mishaps \subseteq mishaps'
    <2>1. CASE UNCHANGED vars
      BY <2>1 DEF OwnersInv, Quiet, vars, dbVars
    <2> QED
      BY <2>1, QuietStep
  <1>3. ASSUME Apart', mishaps' = {} PROVE \A x \in setup'.engines : OwnInv(x)'
    <2>1. Apart
      BY <1>1, <1>3 DEF Apart
    <2>2. CASE UNCHANGED vars
      BY <1>1, <1>3, <2>1, <2>2, EvictOwn
    <2> QED
      BY <1>1, <1>3, <2>1, <2>2, LoadOwn, InsertOwn, DeleteOwn, UpdateOwn, FlushOwn,
         TransactionOwn, CrashOwn, EvictOwn DEF Next, Step
  <1> QED
    BY <1>1, <1>2, <1>3 DEF OwnersInv

\* Every program has its engines in processes of their own.
EnginesApart == \A u \in Setups : \A e, f \in u.engines : ProcOf[e] = ProcOf[f] => e = f

(* With one engine per process: unless a cache answered a transaction for a *)
(* row it had changed, a stale row was stored, or a rolled back entity was  *)
(* used on, a process sees in its local cache what its own Flush or Commit  *)
(* set in the row, whichever way loadByID filled the cache since.           *)
THEOREM OwnWritesAreVisible ==
  ASSUME EnginesApart
  PROVE  Spec => []OwnWritesVisible
  <1>1. ASSUME OwnersInv PROVE OwnWritesVisible
    <2>1. Apart
      BY <1>1, StepShape DEF EnginesApart, Apart, OwnersInv, CacheInv
    <2>2. SUFFICES ASSUME mishaps = {}, NEW e \in Engines, NEW c \in Cols,
                          writer[c] = e, pc[e] # "set", local[ProcOf[e]] # Miss
                   PROVE  Column(local[ProcOf[e]], c) = Column(db, c)
      BY DEF OwnWritesVisible, Column
    <2>3. e \in setup.engines
      BY <1>1, <2>2, EnginesAssumption DEF OwnersInv, Quiet
    <2>4. c \in Mine(e)
      BY <2>2 DEF Mine
    <2> QED
      BY <1>1, <2>1, <2>2, <2>3, <2>4 DEF OwnersInv, OwnInv, OwnLocal, Agree
  <1> QED
    BY <1>1, OwnInit, OwnStep, PTL DEF Spec

\* Rows that agree on every column are the same.
LEMMA AgreeIsSame ==
  ASSUME TypeOK, NEW row \in Rows \cup {NoRow}, NEW other \in Rows \cup {NoRow},
         Agree(row, other, Cols)
  PROVE  row = other
  <1>1. \A r \in Rows, c \in Cols : r # NoRow /\ r[c] # NoRow /\ r = [d \in Cols |-> r[d]]
    BY NoRowIsNone DEF Rows
  <1>2. CASE row \in Rows /\ other \in Rows
    BY <1>1, <1>2 DEF Agree, Column, Rows
  <1>3. CASE row = NoRow \/ other = NoRow
    BY <1>1, <1>3, ColsAssumption DEF Agree, Column
  <1> QED
    BY <1>2, <1>3

(* The engine of a program that uses one only, between its Flushes and      *)
(* outside a transaction: both caches have the committed row, or nothing,   *)
(* whatever it has loaded, committed, rolled back or lost before, with the  *)
(* same exceptions.                                                         *)
THEOREM CachesAgreeAlone == Spec => []CachesAgree
  <1>1. ASSUME OwnersInv PROVE CachesAgree
    <2>1. SUFFICES ASSUME NEW e \in setup.engines, setup.engines = {e}, mishaps = {},
                          pc[e] = "idle"
                   PROVE  redis \in {Miss, db} /\ local[ProcOf[e]] \in {Miss, db}
      BY DEF CachesAgree
    <2>2. Apart /\ OwnInv(e) /\ Mine(e) = Cols
      BY <1>1, <2>1 DEF Apart, OwnersInv, Mine
    <2>3. /\ TypeOK /\ ProcOf[e] \in Procs
          /\ db \in Rows \cup {NoRow} /\ redis \in Rows \cup {NoRow, Miss}
          /\ local[ProcOf[e]] \in Rows \cup {NoRow, Miss}
      <3>1. TypeOK /\ ProcOf[e] \in Procs
        BY <1>1, StepShape DEF OwnersInv, CacheInv
      <3> QED
        BY <3>1 DEF TypeOK
    <2>4. redis # Miss => Agree(redis, db, Cols)
      BY <2>1, <2>2 DEF OwnInv, OwnRedis, Telling
    <2>5. local[ProcOf[e]] # Miss => Agree(local[ProcOf[e]], db, Cols)
      BY <2>1, <2>2 DEF OwnInv, OwnLocal
    <2> QED
      BY <2>3, <2>4, <2>5, AgreeIsSame
  <1> QED
    BY <1>1, OwnInit, OwnStep, PTL DEF Spec
=============================================================================
