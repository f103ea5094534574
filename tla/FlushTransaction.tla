--------------------------- MODULE FlushTransaction ---------------------------
(***************************************************************************)
(* One engine with its flushers and its MySQL pools (flusher.go, db.go,    *)
(* redis_flusher.go): what a Flush of several entities executes, which     *)
(* transactions it opens, and when the local cache, the DELs and the dirty *)
(* and log events that it queues become visible.  The engine is used by    *)
(* one goroutine.  The values of rows and the races between engines are in *)
(* EntityCache; here a write is what a flush did to an entity, and its     *)
(* keys and events are shown together or not at all.                       *)
(***************************************************************************)
EXTENDS Integers, Sequences, FiniteSets, SequencesExt

CONSTANTS
    Entities, Types, Pools,
    TypeOf,           \* the type of an entity
    Flushers,
    Objects,          \* redisFlusher values
    None,
    Setups,           \* the programs that are looked at
    MaxFaults         \* bound

\* A program: the entities and flushers that it uses, the MySQL pool of a type,
\* entities that are not in the database at first, the entities that one references,
\* entities with SetOnDuplicateKeyUpdate, whether flushers are dropped after one
\* flush, as Engine.FlushMany does, and the bounds of flushes and changes.
SetupType == [entities : SUBSET Entities, flushers : SUBSET Flushers,
              pool : [Types -> Pools], new : SUBSET Entities,
              refs : [Entities -> SUBSET Entities], upserts : SUBSET Entities,
              oneShot : BOOLEAN, flushes : Nat, changes : Nat]

ASSUME SetupsAssumption == TypeOf \in [Entities -> Types] /\ \A u \in Setups : u \in SetupType
ASSUME EntitiesAssumption == IsFiniteSet(Entities)
ASSUME ObjectsAssumption == None \notin Objects \cup Flushers
\* A flusher that needs a new redisFlusher finds one.
ASSUME ObjectsSuffice ==
    \A holders \in [Flushers -> Objects \cup {None}] :
       \A f \in Flushers : holders[f] = None =>
          \E o \in Objects : \A g \in Flushers : holders[g] # o
ASSUME BoundsAssumption == MaxFaults \in Nat

VARIABLES
    setup,      \* the program, one of Setups
    state,      \* of each entity: "new", "clean", "dirty" or marked to "delete"
    tx,         \* standardSQLClient.tx of each pool, and DB.inTransaction with it
    open,       \* writes in the open transaction of each pool
    committed,  \* writes that MySQL has committed
    tracked, updates, deletes, localSets,   \* the fields of each flusher
    rf,         \* its redisFlusher, one of Objects
    queue,      \* what each redisFlusher holds, as the writes it is about
    afterRedis, afterLocal,  \* Engine.afterCommitRedisFlusher, afterCommitLocalCacheSets
    published,  \* writes whose DEL and events have reached Redis
    shown,      \* writes whose row has been set in the local cache
    cur, pc,    \* the flusher that flushes, where it is
    stack,      \* the calls of flush that are not done, innermost first
    batch,      \* entities that the innermost flush is to insert
    left,       \* what the loop at pc still has to go through
    inTx,       \* useTransaction || transaction of the innermost flush
    useTx,      \* the result of the outermost flush
    flushes, changes, faults,  \* counters of the bounds above
    built,      \* history: all writes ever built
    kept,       \* history: undone or open writes that a queue kept hold of
    unsent,     \* history: writes whose queue was let go of
    torn,       \* history: flushes that ran outside one transaction, and why
    outer,      \* history: the pools with a transaction when the flush began
    overflowed  \* history: calls of flush filled the stack

entityVars == <<state, built>>
poolVars   == <<tx, open, committed>>
flusherVars == <<tracked, updates, deletes, localSets, rf>>
engineVars == <<queue, afterRedis, afterLocal, published, shown>>
callVars   == <<cur, pc, stack, batch, left, inTx, useTx>>
countVars  == <<flushes, changes, faults>>
whyVars    == <<kept, unsent, torn, outer, overflowed>>
vars == <<setup, entityVars, poolVars, flusherVars, engineVars, callVars, countVars, whyVars>>

PoolOf == setup.pool
New == setup.new
Refs == setup.refs
Upserts == setup.upserts
OneShot == setup.oneShot
MaxFlushes == setup.flushes
MaxChanges == setup.changes

Writes == [x : Entities, op : {"I", "U", "D"}, n : 1 .. MaxFlushes]
\* Mutant of Write: a write of the flush to come.
WriteAhead(x, op) == [x |-> x, op |-> op, n |-> flushes + 1]

Write(x, op) == [x |-> x, op |-> op, n |-> flushes]
Pool(x) == PoolOf[TypeOf[x]]
TypesOf(X) == {TypeOf[x] : x \in X}
PoolsOf(X) == {Pool(x) : x \in X}
EntitiesOf(W) == {w.x : w \in W}

-----------------------------------------------------------------------------
Init ==
    /\ setup \in Setups
    /\ state = [x \in Entities |-> IF x \in New THEN "new" ELSE "clean"]
    /\ tx = [p \in Pools |-> "none"] /\ open = [p \in Pools |-> {}]
    /\ committed = {}
    /\ tracked = [f \in Flushers |-> {}] /\ updates = tracked
    /\ deletes = tracked /\ localSets = tracked
    /\ rf = [f \in Flushers |-> None]
    /\ queue = [o \in Objects |-> {}]
    /\ afterRedis = None /\ afterLocal = {}
    /\ published = {} /\ shown = {}
    /\ cur = None /\ pc = "idle" /\ stack = << >> /\ batch = {} /\ left = {}
    /\ inTx = FALSE /\ useTx = FALSE
    /\ flushes = 0 /\ changes = 0 /\ faults = 0
    /\ built = {} /\ kept = [queue |-> {}, sets |-> {}] /\ unsent = {} /\ torn = {}
    /\ outer = {} /\ overflowed = FALSE

-----------------------------------------------------------------------------
(* The program between two flushes.                                        *)

\* It sets a field, or marks an entity to be deleted.
Change(x) ==
    /\ pc = "idle" /\ changes < MaxChanges /\ changes' = changes + 1
    /\ \/ state[x] = "clean" /\ state' = [state EXCEPT ![x] = "dirty"]
       \/ state[x] \in {"clean", "dirty"} /\ state' = [state EXCEPT ![x] = "delete"]
    /\ UNCHANGED <<built, poolVars, flusherVars, engineVars, callVars, flushes, faults, whyVars>>

\* What becomes of the fields of a flusher that is dropped, and a new one made.
Fresh(f) ==
    /\ tracked' = [tracked EXCEPT ![f] = {}] /\ updates' = [updates EXCEPT ![f] = {}]
    /\ deletes' = [deletes EXCEPT ![f] = {}] /\ localSets' = [localSets EXCEPT ![f] = {}]
    /\ rf' = [rf EXCEPT ![f] = None]

NewFlusher(f) ==
    /\ pc = "idle" /\ (rf[f] # None \/ tracked[f] # {})
    /\ Fresh(f)
    /\ UNCHANGED <<entityVars, poolVars, engineVars, callVars, countVars, whyVars>>

\* Clear leaves redisFlusher (and lazyMap) alone.
Clear(f) ==
    /\ tracked' = [tracked EXCEPT ![f] = {}] /\ updates' = [updates EXCEPT ![f] = {}]
    /\ deletes' = [deletes EXCEPT ![f] = {}] /\ localSets' = [localSets EXCEPT ![f] = {}]
    /\ UNCHANGED rf

-----------------------------------------------------------------------------
(* DB.Begin, Commit and Rollback.  tx is "broken" after a COMMIT that       *)
(* failed: the client keeps the transaction, on which every call fails.     *)

\* The pools P, none of them in a transaction, begin one.
Begun(P) == tx' = [p \in Pools |-> IF p \in P THEN "open" ELSE tx[p]]

Begin(p) ==
    /\ pc = "idle" /\ tx[p] = "none"
    /\ Begun({p})
    /\ UNCHANGED <<entityVars, open, committed, flusherVars, engineVars, callVars,
                   countVars, whyVars>>

\* Writes that other pools still have open.
Elsewhere(p) == UNION {open[q] : q \in Pools \ {p}}

\* Mutant of Committed: the redisFlusher is let go of before it is flushed.
CommittedUnsent(p) ==
    /\ tx' = [tx EXCEPT ![p] = "none"] /\ open' = [open EXCEPT ![p] = {}]
    /\ committed' = committed \cup open[p]
    /\ shown' = shown \cup afterLocal /\ afterLocal' = {}
    /\ afterRedis' = None
    /\ UNCHANGED <<queue, published, kept>>

\* COMMIT of one pool shows all that the engine holds, of any pool.
Committed(p) ==
    /\ tx' = [tx EXCEPT ![p] = "none"] /\ open' = [open EXCEPT ![p] = {}]
    /\ committed' = committed \cup open[p]
    /\ shown' = shown \cup afterLocal /\ afterLocal' = {}
    /\ afterRedis' = None
    /\ IF afterRedis = None THEN UNCHANGED <<queue, published>>
       ELSE /\ queue' = [queue EXCEPT ![afterRedis] = {}]
            /\ published' = published \cup queue[afterRedis]
    /\ kept' = [queue |-> kept.queue \cup ((published' \ published) \cap Elsewhere(p)),
                sets |-> kept.sets \cup (afterLocal \cap Elsewhere(p))]

Commit(p) ==
    /\ pc = "idle" /\ tx[p] = "open"
    /\ Committed(p)
    /\ UNCHANGED <<entityVars, flusherVars, callVars, countVars, unsent, torn, outer, overflowed>>

\* The transactions of the pools P are gone, and so is what MySQL had of them.
Undone(P) ==
    /\ tx' = [p \in Pools |-> IF p \in P THEN "none" ELSE tx[p]]
    /\ open' = [p \in Pools |-> IF p \in P THEN {} ELSE open[p]]

\* Mutant of LetGo: the engine keeps afterCommitRedisFlusher.
LetGoLocalOnly ==
    afterLocal' = {} /\ UNCHANGED <<queue, published, shown, afterRedis>>

\* Rollback of any pool drops the queues of the engine, of every pool.  A flusher
\* that is used again still has its own.
LetGo ==
    afterRedis' = None /\ afterLocal' = {} /\ UNCHANGED <<queue, published, shown>>

Holds(o) == IF o = None THEN {} ELSE queue[o]

\* What the queues of the flushers hold that is not committed.
Surviving == (UNION {Holds(rf[f]) : f \in Flushers}) \ committed

Rollback(p) ==
    /\ pc = "idle" /\ tx[p] # "broken"
    /\ tx[p] = "open" \/ afterRedis # None \/ afterLocal # {}
    /\ Undone({p}) /\ LetGo
    /\ kept' = [kept EXCEPT !.queue = @ \cup Surviving]
    /\ unsent' = unsent \cup Holds(afterRedis)
    /\ UNCHANGED <<entityVars, committed, flusherVars, callVars, countVars, torn, outer, overflowed>>

\* COMMIT fails, MySQL has rolled back.
CommitError(p) ==
    /\ faults < MaxFaults /\ faults' = faults + 1
    /\ tx' = [tx EXCEPT ![p] = "broken"] /\ open' = [open EXCEPT ![p] = {}]
    /\ kept' = [queue |-> kept.queue \cup open[p], sets |-> kept.sets \cup open[p]]

CommitFails(p) ==
    /\ pc = "idle" /\ tx[p] = "open"
    /\ CommitError(p)
    /\ UNCHANGED <<entityVars, committed, flusherVars, engineVars, callVars, flushes,
                   changes, unsent, torn, outer, overflowed>>

-----------------------------------------------------------------------------
(* flushTrackedEntities and flush.                                         *)

\* A call of flush: the outermost is at depth 0.
Frame(depth, root, inside, X) ==
    [depth |-> depth, root |-> root, inside |-> inside, ents |-> X]

\* The program tracks the entities X and calls Flush.
Flush(f, X) ==
    /\ pc = "idle" /\ tracked[f] \cup X # {} /\ flushes < MaxFlushes
    /\ flushes' = flushes + 1
    /\ tracked' = [tracked EXCEPT ![f] = @ \cup X]
    /\ cur' = f /\ pc' = "build" /\ useTx' = FALSE
    /\ stack' = <<Frame(0, TRUE, FALSE, tracked'[f])>>
    /\ outer' = {p \in Pools : tx[p] # "none"}
    /\ UNCHANGED <<entityVars, poolVars, updates, deletes, localSets, rf, engineVars, batch,
                   left, inTx, changes, faults, kept, unsent, torn, overflowed>>

\* getRedisFlusher: the flusher's own, or the engine's, or one that nobody holds.
Held == {rf[f] : f \in Flushers} \cup {afterRedis}
RedisFlusher(f) == IF rf[f] # None THEN {rf[f]}
                   ELSE IF afterRedis # None THEN {afterRedis}
                   ELSE {CHOOSE o \in Objects : o \notin Held}

\* Writes W are queued in the flusher: the row for the local cache, the DEL and the
\* events for Redis.
Queued(f, W) ==
    /\ localSets' = [localSets EXCEPT ![f] = @ \cup W]
    /\ IF W = {} THEN UNCHANGED <<rf, queue>>
       ELSE \E o \in RedisFlusher(f) :
              /\ rf' = [rf EXCEPT ![f] = o]
              /\ queue' = [queue EXCEPT ![o] = IF o \in Held THEN @ \cup W ELSE W]

\* MySQL takes the writes W of pool p.
Executed(p, W) ==
    IF tx[p] = "open" THEN open' = [open EXCEPT ![p] = @ \cup W] /\ UNCHANGED <<tx, committed>>
    ELSE committed' = committed \cup W /\ UNCHANGED <<tx, open>>

\* A statement of pool p fails: MySQL refuses it, or the client does.
Fails(p) == \/ tx[p] = "broken" /\ UNCHANGED faults
            \/ tx[p] # "broken" /\ faults < MaxFaults /\ faults' = faults + 1

Top == Head(stack)
\* Mutant of NewRefs: references that are saved count too.
NewRefsAll(x) == Refs[x]

\* checkReferences: references without an id.
NewRefs(x) == {y \in Refs[x] : state[y] = "new"}
Blocked == {x \in Top.ents : NewRefs(x) # {}}
Ready == Top.ents \ Blocked
Inside == Top.inside \/ \E x \in Top.ents : tx[Pool(x)] # "none"

\* flushOnDuplicateKey runs while flush still collects the rest, and before it
\* opens a transaction.
Upsert(x) ==
    /\ pc = "build" /\ x \in Ready \cap Upserts /\ state[x] = "new"
    /\ \/ /\ tx[Pool(x)] # "broken"
          /\ built' = built \cup {Write(x, "I")}
          /\ state' = [state EXCEPT ![x] = "clean"]
          /\ Executed(Pool(x), {Write(x, "I")})
          /\ Queued(cur, {Write(x, "I")})
          /\ UNCHANGED <<pc, faults>>
       \/ /\ Fails(Pool(x))
          /\ pc' = "fail"
          /\ UNCHANGED <<built, state, poolVars, localSets, rf, queue>>
    /\ UNCHANGED <<tracked, updates, deletes, afterRedis, afterLocal, published, shown,
                   cur, stack, batch, left, inTx, useTx, flushes, changes, kept, unsent, torn, outer, overflowed>>

Collected == {x \in Ready : state[x] = "new"} \ Upserts
DirtyWrites == {Write(x, "U") : x \in {y \in Ready : state[y] = "dirty"}}

\* Mutant of NeedsTransaction: several updates of one pool do without.
NeedsTransactionByKind(I, U, D) ==
    Cardinality(TypesOf(I)) + Cardinality(PoolsOf(EntitiesOf(U))) + Cardinality(TypesOf(D)) > 1

\* More than one statement: insertKeys, updateSQLs and deleteBinds together, or
\* several updates of one pool.
NeedsTransaction(I, U, D) ==
    \/ Cardinality(TypesOf(I)) + Cardinality(PoolsOf(EntitiesOf(U)))
         + Cardinality(TypesOf(D)) > 1
    \/ Cardinality(U) > 1

\* startTransaction: BEGIN on the pools of all tracked entities, an error where one
\* is open already.
CanStart(f) == \A p \in PoolsOf(tracked[f]) : tx[p] = "none"

\* Mutant of UseTransaction: the caller commits the transaction of the program.
UseTransactionAlways(starts) == starts \/ Inside

\* What the outermost call of flush tells flushTrackedEntities to commit.
UseTransaction(starts) == starts

\* Calls of flush within each other that Go's stack takes: it is no smaller.
StackBound == Cardinality(Entities)

\* The loop of flush over its entities: updates are built and counted as saved,
\* deletes noted; then the unsaved references go first, in calls of their own.
Build ==
    LET f == cur
        D == {x \in Ready : state[x] = "delete"}
        refs == UNION {NewRefs(x) : x \in Blocked}
        rest == Top.ents \ refs
        starts == ~Inside /\ (refs # {} \/ NeedsTransaction(Collected, updates'[f], deletes'[f]))
    IN
    /\ pc = "build" /\ Top.depth <= StackBound
    /\ \A x \in Ready \cap Upserts : state[x] # "new"
    /\ built' = built \cup DirtyWrites
    /\ state' = [x \in Entities |-> IF x \in Ready /\ state[x] = "dirty" THEN "clean" ELSE state[x]]
    /\ updates' = [updates EXCEPT ![f] = @ \cup DirtyWrites]
    /\ deletes' = [deletes EXCEPT ![f] = @ \cup D]
    /\ Queued(f, DirtyWrites)
    /\ IF starts THEN Begun({p \in PoolsOf(tracked[f]) : tx[p] = "none"}) ELSE UNCHANGED tx
    /\ useTx' = IF Top.depth = 0 THEN UseTransaction(starts) ELSE useTx
    /\ \/ /\ starts /\ ~CanStart(f)
          /\ pc' = "fail"
          /\ UNCHANGED <<stack, batch, left, inTx, torn>>
       \/ /\ refs # {} /\ (starts => CanStart(f))
          /\ stack' = <<Frame(Top.depth + 1, FALSE, Inside, refs)>>
                        \o (IF rest = {} THEN << >> ELSE <<Frame(Top.depth + 1, TRUE, Inside, rest)>>)
                        \o Tail(stack)
          /\ torn' = torn \cup (IF \E p \in PoolsOf(refs \cup Top.ents) : tx'[p] = "none"
                                THEN {flushes} ELSE {})
          /\ UNCHANGED <<pc, batch, left, inTx>>
       \/ /\ refs = {} /\ (starts => CanStart(f))
          /\ pc' = "insert"
          /\ batch' = Collected /\ left' = TypesOf(Collected)
          /\ inTx' = (Inside \/ starts)
          /\ torn' = torn \cup (IF inTx' /\ \E p \in PoolsOf(Top.ents) : tx'[p] = "none"
                                THEN {flushes} ELSE {})
          /\ UNCHANGED stack
    /\ UNCHANGED <<open, committed, tracked, afterRedis, afterLocal, published, shown,
                   cur, countVars, kept, unsent, outer, overflowed>>

\* executeInserts: one statement for the new entities of a type.
Insert(t) ==
    LET X == {x \in batch : TypeOf[x] = t} IN
    /\ pc = "insert" /\ t \in left
    /\ left' = left \ {t}
    /\ \/ /\ tx[PoolOf[t]] # "broken"
          /\ built' = built \cup {Write(x, "I") : x \in X}
          /\ state' = [x \in Entities |-> IF x \in X THEN "clean" ELSE state[x]]
          /\ Executed(PoolOf[t], {Write(x, "I") : x \in X})
          /\ Queued(cur, {Write(x, "I") : x \in X})
          /\ UNCHANGED <<pc, faults>>
       \/ /\ Fails(PoolOf[t])
          /\ pc' = "fail"
          /\ UNCHANGED <<built, state, poolVars, localSets, rf, queue>>
    /\ UNCHANGED <<tracked, updates, deletes, afterRedis, afterLocal, published, shown,
                   cur, stack, batch, inTx, useTx, flushes, changes, kept, unsent, torn, outer, overflowed>>

\* executeUpdates and executeDeletes belong to root calls only.
Inserted ==
    /\ pc = "insert" /\ left = {}
    /\ pc' = IF Top.root THEN "update" ELSE "caches"
    /\ left' = IF Top.root THEN PoolsOf(EntitiesOf(updates[cur])) ELSE {}
    /\ batch' = {}
    /\ UNCHANGED <<entityVars, poolVars, flusherVars, engineVars, cur, stack, inTx, useTx,
                   countVars, whyVars>>

\* executeUpdates: the updates of a pool in one query.  Several outside a
\* transaction may fail in the middle; Query's error is MySQL's own.
Update(p) ==
    LET W == {w \in updates[cur] : Pool(w.x) = p} IN
    /\ pc = "update" /\ p \in left
    /\ left' = left \ {p}
    /\ \/ tx[p] # "broken" /\ Executed(p, W) /\ UNCHANGED <<pc, faults>>
       \/ /\ Fails(p) /\ pc' = "fail"
          /\ \/ UNCHANGED poolVars
             \/ tx[p] = "none" /\ \E S \in SUBSET W : S # W /\ Executed(p, S)
    /\ UNCHANGED <<entityVars, flusherVars, engineVars, cur, stack, batch, inTx, useTx,
                   flushes, changes, kept, unsent, torn, outer, overflowed>>

Updated ==
    /\ pc = "update" /\ left = {}
    /\ pc' = "delete" /\ left' = TypesOf(deletes[cur])
    /\ UNCHANGED <<entityVars, poolVars, flusherVars, engineVars, cur, stack, batch, inTx,
                   useTx, countVars, whyVars>>

\* executeDeletes: one statement for a type.  The entity stays marked.
Delete(t) ==
    LET W == {Write(x, "D") : x \in {y \in deletes[cur] : TypeOf[y] = t}} IN
    /\ pc = "delete" /\ t \in left
    /\ left' = left \ {t}
    /\ \/ /\ tx[PoolOf[t]] # "broken"
          /\ built' = built \cup W
          /\ Executed(PoolOf[t], W)
          /\ Queued(cur, W)
          /\ UNCHANGED <<pc, faults>>
       \/ /\ Fails(PoolOf[t])
          /\ pc' = "fail"
          /\ UNCHANGED <<built, poolVars, localSets, rf, queue>>
    /\ UNCHANGED <<state, tracked, updates, deletes, afterRedis, afterLocal, published,
                   shown, cur, stack, batch, inTx, useTx, flushes, changes, kept, unsent, torn, outer, overflowed>>

Deleted ==
    /\ pc = "delete" /\ left = {}
    /\ pc' = "caches"
    /\ UNCHANGED <<entityVars, poolVars, flusherVars, engineVars, cur, stack, batch, left,
                   inTx, useTx, countVars, whyVars>>

\* Mutant of UpdateRedisCache: it flushes inside a transaction as outside.
UpdateRedisCacheNow ==
    /\ afterRedis' = afterRedis /\ unsent' = unsent
    /\ IF rf[cur] # None /\ Top.root
       THEN /\ published' = published \cup queue[rf[cur]]
            /\ queue' = [queue EXCEPT ![rf[cur]] = {}]
       ELSE UNCHANGED <<published, queue>>
    /\ UNCHANGED rf

\* updateRedisCache: inside a transaction the engine gets this flusher's
\* redisFlusher, whatever it held before.
UpdateRedisCache ==
    IF inTx
    THEN \E o \in RedisFlusher(cur) :
           /\ rf' = [rf EXCEPT ![cur] = o]
           /\ afterRedis' = o
           /\ queue' = IF o \in Held THEN queue ELSE [queue EXCEPT ![o] = {}]
           /\ unsent' = unsent \cup (IF afterRedis \in {None, o} THEN {} ELSE queue[afterRedis])
           /\ UNCHANGED published
    ELSE /\ UNCHANGED <<rf, afterRedis, unsent>>
         /\ IF rf[cur] # None /\ Top.root
            THEN /\ published' = published \cup queue[rf[cur]]
                 /\ queue' = [queue EXCEPT ![rf[cur]] = {}]
            ELSE UNCHANGED <<published, queue>>

\* updateLocalCache (of root calls) and updateRedisCache, then flush returns.
Caches ==
    /\ pc = "caches"
    /\ IF ~Top.root THEN UNCHANGED <<shown, afterLocal>>
       ELSE IF inTx THEN afterLocal' = afterLocal \cup localSets[cur] /\ UNCHANGED shown
       ELSE shown' = shown \cup localSets[cur] /\ UNCHANGED afterLocal
    /\ UpdateRedisCache
    /\ kept' = [kept EXCEPT !.queue = @ \cup ((published' \ published)
                                        \cap UNION {open[p] : p \in Pools \ PoolsOf(tracked[cur])})]
    /\ stack' = Tail(stack)
    /\ pc' = IF stack' = << >> THEN "commit" ELSE "build"
    /\ left' = IF stack' = << >> /\ useTx THEN PoolsOf(tracked[cur]) ELSE {}
    /\ UNCHANGED <<entityVars, poolVars, tracked, updates, deletes, localSets, cur, batch,
                   inTx, useTx, countVars, torn, outer, overflowed>>

\* flushTrackedEntities commits the pools one by one.
FlushCommit(p) ==
    /\ pc = "commit" /\ p \in left
    /\ left' = left \ {p}
    /\ \/ tx[p] = "open" /\ Committed(p) /\ UNCHANGED <<pc, faults>>
       \/ tx[p] = "open" /\ CommitError(p) /\ pc' = "fail" /\ UNCHANGED <<committed, engineVars>>
       \/ /\ tx[p] # "open" /\ pc' = "fail"
          /\ UNCHANGED <<poolVars, engineVars, faults, kept>>
    /\ UNCHANGED <<entityVars, flusherVars, cur, stack, batch, inTx, useTx, flushes, changes,
                   unsent, torn, outer, overflowed>>

\* flushTrackedEntities returns.  The entities stay tracked.
Return ==
    /\ pc = "commit" /\ left = {}
    /\ pc' = "idle" /\ cur' = None
    /\ IF OneShot THEN Fresh(cur)
       ELSE /\ updates' = [updates EXCEPT ![cur] = {}]
            /\ deletes' = [deletes EXCEPT ![cur] = {}]
            /\ localSets' = [localSets EXCEPT ![cur] = {}]
            /\ UNCHANGED <<tracked, rf>>
    /\ UNCHANGED <<entityVars, poolVars, engineVars, stack, batch, left, inTx, useTx,
                   countVars, whyVars>>

\* flushTrackedEntities leaves by a panic: its deferred function rolls back the
\* pools of all tracked entities, whoever began their transactions, and itself
\* panics at a broken one.  Flush leaves the flusher as it is, FlushWithCheck and
\* FlushWithFullCheck clear it.
FlushPanics ==
    LET f == cur
        P == PoolsOf(tracked[f])
        broken == {p \in P : tx[p] = "broken"} IN
    /\ pc = "fail"
    /\ pc' = "idle" /\ cur' = None /\ stack' = << >> /\ batch' = {} /\ left' = {}
    /\ \/ OneShot /\ Fresh(f) /\ kept' = [kept EXCEPT !.queue = @ \cup Surviving]
       \/ ~OneShot /\ Clear(f) /\ kept' = [kept EXCEPT !.queue = @ \cup Surviving]
       \/ /\ ~OneShot /\ UNCHANGED flusherVars
          /\ kept' = [queue |-> kept.queue \cup Surviving,
                      sets |-> kept.sets \cup (localSets[f] \ committed)]
    /\ \E Q \in SUBSET (P \ broken) :
         /\ broken = {} => Q = P
         /\ Undone(Q)
         /\ torn' = torn \cup (IF Q = P THEN {} ELSE {flushes}) \cup {w.n : w \in updates'[f]}
         /\ unsent' = unsent \cup Holds(rf[f]) \cup IF Q = {} THEN {} ELSE Holds(afterRedis)
         /\ IF Q = {} THEN UNCHANGED engineVars ELSE LetGo
    /\ UNCHANGED <<entityVars, committed, inTx, useTx, countVars, outer, overflowed>>

\* The stack is full: the process dies, and another takes over.
Overflow ==
    /\ pc = "build" /\ Top.depth > StackBound
    /\ overflowed' = TRUE
    /\ pc' = "idle" /\ cur' = None /\ stack' = << >>
    /\ state' = [x \in Entities |-> IF state[x] = "new" THEN "new" ELSE "clean"]
    /\ Undone(Pools)
    /\ tracked' = [f \in Flushers |-> {}] /\ updates' = tracked'
    /\ deletes' = tracked' /\ localSets' = tracked'
    /\ rf' = [f \in Flushers |-> None]
    /\ afterRedis' = None /\ afterLocal' = {}
    /\ unsent' = unsent \cup committed
    /\ UNCHANGED <<built, committed, queue, published, shown, batch, left, inTx, useTx,
                   countVars, kept, torn, outer>>

-----------------------------------------------------------------------------
UsedPools == {PoolOf[t] : t \in Types}

Step ==
    \/ \E x \in setup.entities : Change(x) \/ Upsert(x)
    \/ \E f \in setup.flushers :
          NewFlusher(f) \/ \E X \in SUBSET setup.entities : Flush(f, X)
    \/ \E p \in UsedPools : Begin(p) \/ Commit(p) \/ Rollback(p) \/ CommitFails(p)
                            \/ Update(p) \/ FlushCommit(p)
    \/ \E t \in Types : Insert(t) \/ Delete(t)
    \/ Build \/ Inserted \/ Updated \/ Deleted \/ Caches \/ Return
    \/ FlushPanics \/ Overflow

Next == Step /\ UNCHANGED setup

Spec == Init /\ [][Next]_vars

-----------------------------------------------------------------------------
(* Properties.                                                             *)

TypeOK ==
    /\ setup \in Setups
    /\ state \in [Entities -> {"new", "clean", "dirty", "delete"}]
    /\ tx \in [Pools -> {"none", "open", "broken"}]
    /\ open \in [Pools -> SUBSET Writes]
    /\ \A W \in {committed, published, shown, afterLocal, built, kept.queue, kept.sets, unsent} :
         W \subseteq Writes
    /\ tracked \in [Flushers -> SUBSET Entities] /\ deletes \in [Flushers -> SUBSET Entities]
    /\ updates \in [Flushers -> SUBSET Writes] /\ localSets \in [Flushers -> SUBSET Writes]
    /\ rf \in [Flushers -> Objects \cup {None}] /\ afterRedis \in Objects \cup {None}
    /\ queue \in [Objects -> SUBSET Writes]
    /\ cur \in Flushers \cup {None} /\ (cur = None <=> pc = "idle")
    /\ pc \in {"idle", "build", "insert", "update", "delete", "caches", "commit", "fail"}
    /\ batch \subseteq Entities /\ inTx \in BOOLEAN /\ useTx \in BOOLEAN
    /\ flushes \in 0 .. MaxFlushes /\ changes \in 0 .. MaxChanges /\ faults \in 0 .. MaxFaults
    /\ torn \subseteq 0 .. MaxFlushes
    /\ outer \subseteq Pools /\ overflowed \in BOOLEAN

AtRest == pc = "idle" /\ \A p \in Pools : tx[p] = "none"

\* What reaches Redis, or the local cache, is about committed rows, unless it came
\* from a queue that a failed flush or a rollback left to a flusher that is used
\* again, or was shown by a commit or a flush of another pool.
ShownIsCommitted ==
    /\ published \subseteq committed \cup kept.queue
    /\ shown \subseteq committed \cup kept.sets

\* When no transaction is open, every committed write has reached Redis, unless the
\* queue it was in was let go of: by a rollback of another pool, by a panic, or for
\* the redisFlusher of another flusher of the same transaction.
CommittedIsPublished == AtRest => committed \subseteq published \cup unsent

\* With one pool, flushers that are not used again, as Engine.Flush makes them, and no
\* upserts, the caches hear of exactly what was committed.
ExactlyCommitted ==
    OneShot /\ Upserts = {} /\ (\E p \in Pools : UsedPools = {p}) /\ AtRest =>
              /\ published = committed
              /\ shown = committed

\* A flush is written as a whole or not at all in each pool, unless it ran with only
\* some of its pools in a transaction (that of the program, or of entities whose
\* references live elsewhere), or its UPDATEs stayed in the flusher after a panic.
AllOrNothing ==
    pc = "idle" =>
      \A n \in (1 .. flushes) \ torn, p \in Pools :
        LET W == {w \in built : w.n = n /\ Pool(w.x) = p /\ ~(w.op = "I" /\ w.x \in Upserts)}
        IN  W \cap committed = {} \/ W \subseteq committed

\* Flush never commits the transaction that the program began around it, and leaves
\* none of its own, unless a COMMIT has failed.
LeavesTransactionsAlone ==
    [][pc # "idle" =>
         /\ \A p \in outer : committed \cap open[p] = committed' \cap open[p]
         /\ pc' = "idle" => \A p \in Pools : \/ tx'[p] # "open" \/ p \in outer
                                             \/ \E q \in Pools : tx[q] = "broken"]_vars

\* New entities that reach themselves through their references.
Cyclic == \E X \in SUBSET New : X # {} /\ \A x \in X : Refs[x] \cap X # {}

\* The calls of flush within each other come to an end, unless new entities
\* reference each other.
EndsUnlessCyclic == overflowed => Cyclic
=============================================================================
