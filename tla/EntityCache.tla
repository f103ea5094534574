----------------------------- MODULE EntityCache -----------------------------
(***************************************************************************)
(* One row of an entity's table and its copies: the local cache of each    *)
(* process and the Redis cache that all of them share.  Engines load the   *)
(* row (load_by_id.go), insert, update and delete it with Flush            *)
(* (flusher.go, redis_flusher.go), inside transactions of their own or     *)
(* outside (db.go).  An engine is used by one goroutine; the engines of a  *)
(* process share its local cache.                                          *)
(*                                                                         *)
(* A row is what each of its columns was last set to, a write number.      *)
(***************************************************************************)
EXTENDS Integers

CONSTANTS
    Engines,     \* engines, each used by one goroutine
    Procs,       \* processes
    ProcOf,      \* ProcOf[e]: the process of engine e
    Cols,        \* columns of the row
    NoEngine,    \* nobody
    NoRow,       \* no such row: the nil value "" of the caches
    Miss,        \* no such key in a cache
    None,        \* nothing queued, no snapshot
    MaxWrites,   \* bound: writes flushed in any program
    Setups       \* the programs that are looked at

\* A program: the engines that it uses, whether the entity has a UUID (an insert SETs
\* its row in Redis), and the bounds of writes and of processes that die.
SetupType == [engines : SUBSET Engines, uuid : BOOLEAN, writes : 0 .. MaxWrites, crashes : Nat]

ASSUME EnginesAssumption == ProcOf \in [Engines -> Procs] /\ NoEngine \notin Engines
ASSUME SetupsAssumption == \A u \in Setups : u \in SetupType
ASSUME MaxWritesAssumption == MaxWrites \in Nat
ASSUME ColsAssumption == Cols # {}
ASSUME ValuesAssumption ==
    /\ None \notin [Cols -> 0 .. MaxWrites] \cup {NoRow}
    /\ NoRow \notin [Cols -> 0 .. MaxWrites] \cup (0 .. MaxWrites)

VARIABLES
    setup,      \* the program, one of Setups
    db,         \* the committed row
    txOwner,    \* the engine whose open transaction wrote the row and locks it
    txRow,      \* the row as that transaction sees it
    txCols,     \* the columns it wrote
    inTx,       \* DB.inTransaction of each engine
    snap,       \* the row an engine's transaction reads (REPEATABLE READ)
    redis,      \* the row's key in Redis
    local,      \* the row's key in the local cache of each process
    ent,        \* the entity each engine works on, as its ORM.binary
    pc,         \* where each engine is in loadByID or Flush
    val,        \* the row a load is about to put in the caches
    sets,       \* local cache set queued (localCacheSets, afterCommitLocalCacheSets)
    dels,       \* DEL queued in the redisFlusher
    puts,       \* SET queued in the redisFlusher
    writes, crashes,  \* counters of the bounds above
    overtaken,  \* history: another engine committed since this one's last view
    suspect,    \* history: why the key in Redis may be stale for good
    mishaps,    \* history: all that happened which may leave a stale copy
    writer      \* history: the engine whose commit last set each column

dbVars      == <<db, txOwner, txRow, txCols, inTx>>
queueVars   == <<sets, dels, puts>>
boundVars   == <<writes, crashes>>
vars == <<setup, dbVars, snap, redis, local, ent, pc, val, queueVars, boundVars,
          overtaken, suspect, mishaps, writer>>

Rows == [Cols -> 0 .. MaxWrites]

\* The row a statement that locks it sees.
Current(e) == IF txOwner = e THEN txRow ELSE db

-----------------------------------------------------------------------------
Init ==
    /\ setup \in Setups
    /\ db \in {NoRow, [c \in Cols |-> 0]}
    /\ txOwner = NoEngine /\ txRow = NoRow /\ txCols = {}
    /\ inTx = [e \in Engines |-> FALSE]
    /\ snap = [e \in Engines |-> None]
    /\ redis = Miss
    /\ local = [p \in Procs |-> Miss]
    /\ ent = [e \in Engines |-> NoRow]
    /\ pc = [e \in Engines |-> "idle"]
    /\ val = [e \in Engines |-> NoRow]
    /\ sets = [e \in Engines |-> None]
    /\ dels = [e \in Engines |-> FALSE]
    /\ puts = [e \in Engines |-> None]
    /\ writes = 0 /\ crashes = 0
    /\ overtaken = [e \in Engines |-> FALSE]
    /\ suspect = {} /\ mishaps = {}
    /\ writer = [c \in Cols |-> NoEngine]

-----------------------------------------------------------------------------
(* loadByID.                                                               *)

\* A cache answers an engine whose own uncommitted write it cannot know of.
Blind(e) == IF txOwner = e THEN {"blind"} ELSE {}

LoadLocal(e) ==
    /\ pc[e] = "idle"
    /\ \/ /\ local[ProcOf[e]] # Miss
          /\ ent' = [ent EXCEPT ![e] = local[ProcOf[e]]]
          /\ mishaps' = mishaps \cup Blind(e)
          /\ UNCHANGED pc
       \/ /\ local[ProcOf[e]] = Miss
          /\ pc' = [pc EXCEPT ![e] = "get"]
          /\ UNCHANGED <<ent, mishaps>>
    /\ UNCHANGED <<dbVars, snap, redis, local, val, queueVars, boundVars, overtaken,
                   suspect, writer>>

LoadRedis(e) ==
    /\ pc[e] = "get"
    /\ \/ /\ redis # Miss
          /\ ent' = [ent EXCEPT ![e] = redis]
          /\ val' = [val EXCEPT ![e] = redis]
          /\ mishaps' = mishaps \cup Blind(e)
          /\ pc' = [pc EXCEPT ![e] = "copy"]
       \/ /\ redis = Miss
          /\ pc' = [pc EXCEPT ![e] = "select"]
          /\ UNCHANGED <<ent, val, mishaps>>
    /\ UNCHANGED <<dbVars, snap, redis, local, queueVars, boundVars, overtaken,
                   suspect, writer>>

\* SELECT: a transaction reads its own write, or else the snapshot its first
\* read took.
Select(e) ==
    /\ pc[e] = "select"
    /\ \E row \in {IF snap[e] # None /\ txOwner # e THEN snap[e] ELSE Current(e)} :
         /\ ent' = [ent EXCEPT ![e] = row]
         /\ val' = [val EXCEPT ![e] = row]
         /\ snap' = [snap EXCEPT ![e] = IF inTx[e] /\ txOwner # e THEN row ELSE @]
    /\ overtaken' = [overtaken EXCEPT ![e] = @ /\ snap[e] # None /\ txOwner # e]
    /\ mishaps' = mishaps \cup IF txOwner = e THEN {"dirty"} ELSE {}
    /\ pc' = [pc EXCEPT ![e] = "fill"]
    /\ UNCHANGED <<dbVars, redis, local, queueVars, boundVars, suspect, writer>>

\* localCache.Set after a hit in Redis ("copy") or a SELECT ("fill").
FillLocal(e) ==
    /\ pc[e] \in {"copy", "fill"}
    /\ local' = [local EXCEPT ![ProcOf[e]] = val[e]]
    /\ \/ pc[e] = "copy" /\ pc' = [pc EXCEPT ![e] = "idle"]
                        /\ val' = [val EXCEPT ![e] = NoRow]
       \/ pc[e] = "fill" /\ pc' = [pc EXCEPT ![e] = "put"] /\ UNCHANGED val
    /\ UNCHANGED <<dbVars, snap, redis, ent, queueVars, boundVars, overtaken, suspect,
                   mishaps, writer>>

\* redisCache.Set of what the SELECT returned, however long ago.
FillRedis(e) ==
    /\ pc[e] = "put"
    /\ redis' = val[e]
    /\ suspect' = (IF overtaken[e] THEN {"late"} ELSE {})
                  \cup (IF txOwner = e THEN {"dirty"} ELSE {})
    /\ mishaps' = mishaps \cup suspect'
    /\ val' = [val EXCEPT ![e] = NoRow]
    /\ pc' = [pc EXCEPT ![e] = "idle"]
    /\ UNCHANGED <<dbVars, snap, local, ent, queueVars, boundVars, overtaken, writer>>

-----------------------------------------------------------------------------
(* Flush of one entity.                                                    *)

\* A commit of e that set the columns cs.
Committed(e, cs) ==
    /\ overtaken' = [x \in Engines |-> x # e]
    /\ writer' = [c \in Cols |-> IF c \in cs THEN e ELSE writer[c]]

\* The statement: it waits for the row's lock; outside a transaction it commits
\* and Flush goes on to the caches.
Execute(e, row, cs) ==
    /\ pc[e] = "idle" /\ writes < setup.writes
    /\ txOwner \in {NoEngine, e}
    /\ writes' = writes + 1
    /\ \/ /\ inTx[e]
          /\ txOwner' = e /\ txRow' = row /\ txCols' = txCols \cup cs
          /\ overtaken' = [overtaken EXCEPT ![e] = FALSE]
          /\ UNCHANGED <<db, pc, writer>>
       \/ /\ ~inTx[e]
          /\ db' = row
          /\ Committed(e, cs)
          /\ pc' = [pc EXCEPT ![e] = "set"]
          /\ UNCHANGED <<txOwner, txRow, txCols>>
    /\ UNCHANGED <<inTx, snap, redis, local, val, crashes, suspect, mishaps>>

\* executeInserts and updateCacheForInserted.  An insert of a row that exists
\* fails: see Rollback.
Insert(e) ==
    LET row == [c \in Cols |-> writes + 1] IN
    /\ ent[e] = NoRow /\ Current(e) = NoRow
    /\ Execute(e, row, Cols)
    /\ ent' = [ent EXCEPT ![e] = row]
    /\ sets' = [sets EXCEPT ![e] = row]
    /\ \/ setup.uuid  /\ puts' = [puts EXCEPT ![e] = row] /\ UNCHANGED dels
       \/ ~setup.uuid /\ dels' = [dels EXCEPT ![e] = TRUE] /\ UNCHANGED puts

\* Mutant of Update: the row's key is not queued for DEL.
UpdateNoDel(e, c) ==
    LET set(row) == IF row = NoRow THEN NoRow ELSE [row EXCEPT ![c] = writes + 1] IN
    /\ ent[e] # NoRow
    /\ Execute(e, set(Current(e)), IF Current(e) = NoRow THEN {} ELSE {c})
    /\ ent' = [ent EXCEPT ![e] = set(@)]
    /\ sets' = [sets EXCEPT ![e] = set(ent[e])]
    /\ UNCHANGED <<dels, puts>>

\* flushUpdate: the statement sets the dirty column only, the local cache gets
\* the whole entity.  An UPDATE of a row that is gone changes nothing.
Update(e, c) ==
    LET set(row) == IF row = NoRow THEN NoRow ELSE [row EXCEPT ![c] = writes + 1] IN
    /\ ent[e] # NoRow
    /\ Execute(e, set(Current(e)), IF Current(e) = NoRow THEN {} ELSE {c})
    /\ ent' = [ent EXCEPT ![e] = set(@)]
    /\ sets' = [sets EXCEPT ![e] = set(ent[e])]
    /\ dels' = [dels EXCEPT ![e] = TRUE]
    /\ UNCHANGED puts

\* executeDeletes.
Delete(e) ==
    /\ ent[e] # NoRow
    /\ Execute(e, NoRow, Cols)
    /\ ent' = [ent EXCEPT ![e] = NoRow]
    /\ sets' = [sets EXCEPT ![e] = NoRow]
    /\ dels' = [dels EXCEPT ![e] = TRUE]
    /\ UNCHANGED puts

\* Mutants of SetLocal: it sets what was never queued, or forgets what was.
SetLocalAlways(e) ==
    /\ pc[e] = "set"
    /\ local' = [local EXCEPT ![ProcOf[e]] = sets[e]]
    /\ pc' = [pc EXCEPT ![e] = "flush"]
    /\ UNCHANGED <<dbVars, snap, redis, ent, val, queueVars, boundVars, overtaken,
                   suspect, mishaps, writer>>

SetLocalNothing(e) ==
    /\ pc[e] = "set"
    /\ sets' = [sets EXCEPT ![e] = None]
    /\ pc' = [pc EXCEPT ![e] = "flush"]
    /\ UNCHANGED <<dbVars, snap, redis, local, ent, val, dels, puts, boundVars,
                   overtaken, suspect, mishaps, writer>>

\* updateLocalCache, or the first half of DB.Commit.
SetLocal(e) ==
    /\ pc[e] = "set"
    /\ local' = [local EXCEPT ![ProcOf[e]] = IF sets[e] = None THEN @ ELSE sets[e]]
    /\ sets' = [sets EXCEPT ![e] = None]
    /\ pc' = [pc EXCEPT ![e] = "flush"]
    /\ UNCHANGED <<dbVars, snap, redis, ent, val, dels, puts, boundVars, overtaken,
                   suspect, mishaps, writer>>

\* redisFlusher.Flush: the DELs, then the SETs.
FlushRedis(e) ==
    /\ pc[e] = "flush"
    /\ \/ /\ puts[e] # None
          /\ redis' = puts[e]
          /\ suspect' = (IF overtaken[e] THEN {"late"} ELSE {})
                        \cup (IF dels[e] THEN {"setLast"} ELSE {})
       \/ /\ puts[e] = None /\ dels[e]
          /\ redis' = Miss /\ suspect' = {}
       \/ /\ puts[e] = None /\ ~dels[e]
          /\ UNCHANGED <<redis, suspect>>
    /\ mishaps' = mishaps \cup suspect'
    /\ dels' = [dels EXCEPT ![e] = FALSE]
    /\ puts' = [puts EXCEPT ![e] = None]
    /\ pc' = [pc EXCEPT ![e] = "idle"]
    /\ UNCHANGED <<dbVars, snap, local, ent, val, sets, boundVars, overtaken, writer>>

-----------------------------------------------------------------------------
(* DB.Begin, Commit and Rollback.                                          *)

Begin(e) ==
    /\ pc[e] = "idle" /\ ~inTx[e]
    /\ inTx' = [inTx EXCEPT ![e] = TRUE]
    /\ UNCHANGED <<db, txOwner, txRow, txCols, snap, redis, local, ent, pc, val,
                   queueVars, boundVars, overtaken, suspect, mishaps, writer>>

\* The transaction of e is over; so is its hold on the row.
EndTx(e) ==
    /\ inTx' = [inTx EXCEPT ![e] = FALSE]
    /\ snap' = [snap EXCEPT ![e] = None]
    /\ txOwner' = IF txOwner = e THEN NoEngine ELSE txOwner
    /\ txRow' = IF txOwner = e THEN NoRow ELSE txRow
    /\ txCols' = IF txOwner = e THEN {} ELSE txCols

\* COMMIT, then afterCommitLocalCacheSets, then afterCommitRedisFlusher.
Commit(e) ==
    /\ pc[e] = "idle" /\ inTx[e]
    /\ EndTx(e)
    /\ \/ txOwner = e /\ db' = txRow /\ Committed(e, txCols)
       \/ txOwner # e /\ UNCHANGED <<db, overtaken, writer>>
    /\ pc' = [pc EXCEPT ![e] = "set"]
    /\ UNCHANGED <<redis, local, ent, val, queueVars, boundVars, suspect, mishaps>>

\* Mutant of Rollback: afterCommitLocalCacheSets is kept.
RollbackKeepsSets(e) ==
    /\ pc[e] = "idle" /\ inTx[e]
    /\ EndTx(e)
    /\ ent' = [ent EXCEPT ![e] = NoRow]
    /\ dels' = [dels EXCEPT ![e] = FALSE]
    /\ puts' = [puts EXCEPT ![e] = None]
    /\ UNCHANGED <<db, redis, local, pc, val, sets, boundVars, overtaken, suspect,
                   mishaps, writer>>

\* Rollback drops what is queued.  It is called by the program, or by a Flush that
\* failed.  The entity it leaves behind has the values that were rolled back.
Rollback(e) ==
    /\ pc[e] = "idle" /\ inTx[e]
    /\ EndTx(e)
    /\ sets' = [sets EXCEPT ![e] = None]
    /\ dels' = [dels EXCEPT ![e] = FALSE]
    /\ puts' = [puts EXCEPT ![e] = None]
    /\ \/ ent' = [ent EXCEPT ![e] = NoRow] /\ UNCHANGED mishaps
       \/ /\ mishaps' = mishaps \cup IF txOwner = e THEN {"kept"} ELSE {}
          /\ UNCHANGED ent
    /\ UNCHANGED <<db, redis, local, pc, val, boundVars, overtaken, suspect, writer>>

-----------------------------------------------------------------------------
(* Processes die; MySQL rolls back what they left open.  Cache entries are  *)
(* evicted.                                                                *)
Crash(p) ==
    LET dead == {e \in Engines : ProcOf[e] = p}
        gone(e, f, x) == IF e \in dead THEN x ELSE f[e]
        lost == {"lost" : e \in {x \in dead : /\ pc[x] \in {"set", "flush"}
                                              /\ dels[x] \/ puts[x] # None}} IN
    /\ crashes < setup.crashes /\ crashes' = crashes + 1
    /\ local' = [local EXCEPT ![p] = Miss]
    /\ inTx' = [e \in Engines |-> gone(e, inTx, FALSE)]
    /\ snap' = [e \in Engines |-> gone(e, snap, None)]
    /\ txOwner' = IF txOwner \in dead THEN NoEngine ELSE txOwner
    /\ txRow' = IF txOwner \in dead THEN NoRow ELSE txRow
    /\ txCols' = IF txOwner \in dead THEN {} ELSE txCols
    /\ ent' = [e \in Engines |-> gone(e, ent, NoRow)]
    /\ pc' = [e \in Engines |-> gone(e, pc, "idle")]
    /\ val' = [e \in Engines |-> gone(e, val, NoRow)]
    /\ sets' = [e \in Engines |-> gone(e, sets, None)]
    /\ dels' = [e \in Engines |-> gone(e, dels, FALSE)]
    /\ puts' = [e \in Engines |-> gone(e, puts, None)]
    /\ suspect' = suspect \cup lost
    /\ mishaps' = mishaps \cup lost
    /\ UNCHANGED <<db, redis, writes, overtaken, writer>>

EvictLocal(p) ==
    /\ local[p] # Miss
    /\ local' = [local EXCEPT ![p] = Miss]
    /\ UNCHANGED <<dbVars, snap, redis, ent, pc, val, queueVars, boundVars, overtaken,
                   suspect, mishaps, writer>>

EvictRedis ==
    /\ redis # Miss
    /\ redis' = Miss /\ suspect' = {}
    /\ UNCHANGED <<dbVars, snap, local, ent, pc, val, queueVars, boundVars, overtaken,
                   mishaps, writer>>

-----------------------------------------------------------------------------
Step ==
    \/ \E e \in setup.engines :
          \/ LoadLocal(e) \/ LoadRedis(e) \/ Select(e) \/ FillLocal(e) \/ FillRedis(e)
          \/ Insert(e) \/ Delete(e) \/ \E c \in Cols : Update(e, c)
          \/ SetLocal(e) \/ FlushRedis(e)
          \/ Begin(e) \/ Commit(e) \/ Rollback(e)
    \/ \E p \in {ProcOf[e] : e \in setup.engines} : Crash(p) \/ EvictLocal(p)
    \/ EvictRedis

Next == Step /\ UNCHANGED setup

Spec == Init /\ [][Next]_vars
-----------------------------------------------------------------------------
\* The values each variable may take.
TypeOK ==
    /\ setup \in Setups
    /\ db \in Rows \cup {NoRow}
    /\ txOwner \in Engines \cup {NoEngine}
    /\ txRow \in Rows \cup {NoRow} /\ txCols \subseteq Cols
    /\ inTx \in [Engines -> BOOLEAN]
    /\ snap \in [Engines -> Rows \cup {NoRow, None}]
    /\ redis \in Rows \cup {NoRow, Miss}
    /\ local \in [Procs -> Rows \cup {NoRow, Miss}]
    /\ ent \in [Engines -> Rows \cup {NoRow}]
    /\ pc \in [Engines -> {"idle", "get", "select", "copy", "fill", "put", "set", "flush"}]
    /\ val \in [Engines -> Rows \cup {NoRow}]
    /\ sets \in [Engines -> Rows \cup {NoRow, None}]
    /\ dels \in [Engines -> BOOLEAN]
    /\ puts \in [Engines -> Rows \cup {None}]
    /\ writes \in 0 .. MaxWrites /\ crashes \in Nat
    /\ overtaken \in [Engines -> BOOLEAN]
    /\ suspect \subseteq {"late", "dirty", "setLast", "lost"}
    /\ mishaps \subseteq {"late", "dirty", "setLast", "lost", "blind", "kept"}
    /\ writer \in [Cols -> Engines \cup {NoEngine}]

\* Redis differs from the database only while a writer that committed has yet to
\* DEL or SET the key, or because: a load or an insert stored a row that another
\* commit had overtaken ("late"); a transaction stored its own uncommitted row
\* ("dirty"); one pipeline SET an inserted row after the DEL of the row's update
\* ("setLast"); a writer died before its DEL ("lost").
RedisStaleExplained ==
    redis \in {Miss, db} \/ suspect # {}
    \/ \E e \in Engines : pc[e] \in {"set", "flush"} /\ (dels[e] \/ puts[e] # None)

\* With one engine per process, a process that set a column sees what it set as
\* long as nobody set it again, in its local cache and whichever way the cache was
\* filled since, if none of the above happened, no cache answered a transaction
\* for a row it had changed itself ("blind") and no rolled back entity was used on
\* ("kept").
OwnWritesVisible ==
    LET column(row, c) == IF row = NoRow THEN NoRow ELSE row[c] IN
    mishaps = {} =>
        \A e \in Engines, c \in Cols :
            writer[c] = e /\ pc[e] # "set" /\ local[ProcOf[e]] # Miss =>
                column(local[ProcOf[e]], c) = column(db, c)

\* An engine alone, outside transactions, finds both caches in step with the
\* database, whatever it committed and rolled back before, if none of this happened.
CachesAgree ==
    \A e \in setup.engines :
        setup.engines = {e} /\ mishaps = {} /\ pc[e] = "idle" /\ ~inTx[e] =>
            redis \in {Miss, db} /\ local[ProcOf[e]] \in {Miss, db}
=============================================================================
