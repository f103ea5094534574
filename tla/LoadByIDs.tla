------------------------------ MODULE LoadByIDs ------------------------------
(***************************************************************************)
(* Loading many entities and their references (load_by_ids.go): LoadByIDs  *)
(* looks for the rows in the local cache, then for those that are missing  *)
(* in Redis, then in MySQL, and stores what it found on the way; then the  *)
(* references of what was loaded are looked for in the same way, and the   *)
(* references of these.  Another engine writes rows, or clears them from   *)
(* the caches (clear_by_ids.go), meanwhile.                                *)
(*                                                                         *)
(* The rows are of one entity with a reference to itself.  A row is the    *)
(* number of the write that set it and what it refers to.                  *)
(***************************************************************************)
EXTENDS Integers, Sequences, FiniteSets, SequencesExt, FiniteSetsExt

CONSTANTS
    Ids,
    None,        \* no reference, no entity
    NoRow,       \* no such row: the nil value "" of the caches
    Miss,        \* no such key in a cache
    Unloaded,    \* an entity with an id and nothing else
    MaxWrites,   \* bound: writes in any program
    Setups       \* the programs that are looked at

Row == [n : 0 .. MaxWrites, ref : Ids \cup {None}]

\* A program: which caches the loading engine has, whether the other uses the same local
\* cache (the two are of one process, and it is no request cache), the rows at first and
\* what they may come to refer to, the ids that are asked for, and its bounds.
SetupType == [hasLocal : BOOLEAN, hasRedis : BOOLEAN, shared : BOOLEAN,
              rows : [Ids -> Row \cup {NoRow}], refs : SUBSET (Ids \cup {None}),
              requests : SUBSET Seq(Ids), calls : Nat, writes : 0 .. MaxWrites]

ASSUME SetupsAssumption ==
    MaxWrites \in Nat /\ \A u \in Setups : u \in SetupType /\ (u.shared => u.hasLocal)
ASSUME NoneAssumption == None \notin Ids /\ {NoRow, Miss, Unloaded} \cap Row = {}
                         /\ NoRow # Unloaded

VARIABLES
    setup,    \* the program, one of Setups
    db,       \* the committed rows
    redis,    \* the keys of the rows in Redis, as [row, raced]
    local,    \* the same in the local cache of the loading engine
    slice,    \* what LoadByIDs gave the program: the entity of each position, or None
    chain,    \* of each entity: it, the one that it refers to, and the one after that
    call,     \* the call that runs
    writer,   \* what the other engine is doing
    calls, writes,   \* counters of the bounds above
    unseen,   \* history: rows that changed without this local cache being told
    seen,     \* history: what MySQL and the caches said of a row during the call
    was,      \* history: what MySQL said
    cleared   \* history: whether the caches were cleared, with no load meanwhile

storeVars == <<db, redis, local>>
entityVars == <<slice, chain>>
countVars == <<calls, writes>>
vars == <<setup, storeVars, entityVars, call, writer, countVars, unseen, seen, was, cleared>>

\* Levels: what was asked for, its references, the references of these.
Levels == 0 .. 2
IsRow(r) == r \notin {NoRow, Unloaded}

Idle == [at |-> "idle", ids |-> <<>>, depth |-> 0, level |-> 0, tops |-> {}, keys |-> {},
         found |-> <<>>, notLocal |-> {}, notRedis |-> {}, missing |-> FALSE]

Copies(r) == {Miss, [row |-> r, raced |-> FALSE]}

Init ==
    /\ setup \in Setups
    /\ db = setup.rows
    /\ redis \in {f \in [Ids -> UNION {Copies(db[i]) : i \in Ids}] :
                    \A i \in Ids : f[i] \in IF setup.hasRedis THEN Copies(db[i]) ELSE {Miss}}
    /\ local \in {f \in [Ids -> UNION {Copies(db[i]) : i \in Ids}] :
                    \A i \in Ids : f[i] \in IF setup.hasLocal THEN Copies(db[i]) ELSE {Miss}}
    /\ slice = <<>> /\ chain = [p \in Ids |-> <<Unloaded, Unloaded, Unloaded>>]
    /\ call = Idle /\ writer = [at |-> "idle", ids |-> {}]
    /\ calls = 0 /\ writes = 0
    /\ unseen = {}
    /\ seen = [i \in Ids |-> {db[i]}] /\ was = seen /\ cleared = "no"

-----------------------------------------------------------------------------
(* One level of a call.                                                    *)

\* The id of the entity of p at a level.
IdAt(p, level) == IF level = 0 THEN p ELSE chain[p][level].ref

\* The chains of T that go on: fillRefMap takes references that are not loaded.
Reach(c, level, T) == {p \in T : /\ IsRow(c[p][level]) /\ c[p][level].ref # None
                                 /\ c[p][level + 1] = Unloaded}

Lookup(c, level, T) == {IF level = 0 THEN p ELSE c[p][level].ref : p \in T}

\* LoadByIDs(ids, references): with the references of the first, or of both levels.
LoadByIDs ==
    /\ call.at = "idle" /\ calls < setup.calls
    /\ calls' = calls + 1
    /\ \E ids \in setup.requests, depth \in Levels :
         call' = [Idle EXCEPT !.at = "local", !.ids = ids, !.depth = depth,
                              !.tops = ToSet(ids), !.keys = ToSet(ids)]
    /\ slice' = <<>> /\ chain' = [p \in Ids |-> <<Unloaded, Unloaded, Unloaded>>]
    /\ UNCHANGED <<storeVars, writer, writes, unseen>>

\* Engine.Load of an entity that is loaded: its references are.
Load ==
    /\ call.at = "idle" /\ calls < setup.calls
    /\ calls' = calls + 1
    /\ \E p \in ToSet(slice) \ {None}, depth \in Levels \ {0} :
         LET T == Reach(chain, 1, {p}) IN
         /\ T # {}
         /\ call' = [Idle EXCEPT !.at = "local", !.depth = depth, !.level = 1, !.tops = T,
                                 !.keys = Lookup(chain, 1, T)]
    /\ UNCHANGED <<storeVars, entityVars, writer, writes, unseen>>

\* Mutant of Answers: the nil value of a cache ends the search for a reference.
AnswersAlways(copy) == copy # Miss

\* What a cache holds ends the search, but its nil value is only believed of the
\* entities that were asked for.
Answers(copy) == copy # Miss /\ (call.level = 0 \/ copy.row # NoRow)

\* What was found, and what is new.
With(new) == [i \in DOMAIN new \cup DOMAIN call.found |->
                IF i \in DOMAIN new THEN new[i] ELSE call.found[i]]

GetLocal ==
    /\ call.at = "local"
    /\ LET hits == {i \in call.keys : setup.hasLocal /\ Answers(local[i])} IN
       call' = [call EXCEPT !.at = "redis", !.found = [i \in hits |-> local[i]],
                            !.notLocal = call.keys \ hits,
                            !.missing = @ \/ \E i \in hits : local[i].row = NoRow]
    /\ UNCHANGED <<storeVars, entityVars, writer, countVars, unseen>>

\* Rows that are still to be deleted in Redis.
Pending == IF writer.at \in {"local", "redis"} THEN writer.ids ELSE {}

GetRedis ==
    /\ call.at = "redis"
    /\ LET hits == {i \in call.notLocal : setup.hasRedis /\ Answers(redis[i])}
           new == [i \in hits |-> [row |-> redis[i].row, raced |-> redis[i].raced \/ i \in Pending]] IN
       call' = [call EXCEPT !.at = "select", !.found = With(new),
                            !.notRedis = call.notLocal \ hits,
                            !.missing = @ \/ \E i \in hits : redis[i].row = NoRow]
    /\ UNCHANGED <<storeVars, entityVars, writer, countVars, unseen>>

\* The SELECT.  What it does not find is remembered as nil of references only.
Select ==
    /\ call.at = "select"
    /\ LET there == {i \in call.notRedis : db[i] # NoRow}
           new == [i \in (IF call.level = 0 THEN there ELSE call.notRedis) |->
                     [row |-> db[i], raced |-> FALSE]] IN
       call' = [call EXCEPT !.at = IF call.level = 0 THEN "fill local" ELSE "fill redis",
                            !.found = With(new),
                            !.missing = @ \/ (call.level = 0 /\ there # call.notRedis)]
    /\ UNCHANGED <<storeVars, entityVars, writer, countVars, unseen>>

\* Of ids, those that are stored: of what was asked for the rows that were found, of
\* references all of them.
Stored(ids) ==
    {i \in ids : call.level > 0 \/ (i \in DOMAIN call.found /\ call.found[i].row # NoRow)}

\* MSet of the local cache: first of what was asked for, after Redis of references.
FillLocal ==
    /\ call.at = "fill local"
    /\ LET ids == IF setup.hasLocal THEN Stored(call.notLocal) ELSE {} IN
       /\ local' = [i \in Ids |-> IF i \in ids THEN call.found[i] ELSE local[i]]
       /\ unseen' = unseen \ ids
    /\ call' = [call EXCEPT !.at = IF call.level = 0 THEN "fill redis" ELSE "filled"]
    /\ UNCHANGED <<db, redis, entityVars, writer, countVars>>

\* Mutant of FillRedis: what was not looked for in Redis is stored there.
FillRedisAll ==
    /\ call.at = "fill redis"
    /\ redis' = [i \in Ids |-> IF setup.hasRedis /\ i \in Stored(call.keys)
                               THEN call.found[i] ELSE redis[i]]
    /\ call' = [call EXCEPT !.at = IF call.level = 0 THEN "filled" ELSE "fill local"]
    /\ UNCHANGED <<db, local, entityVars, writer, countVars, unseen>>

\* MSET, without a time to live.
FillRedis ==
    /\ call.at = "fill redis"
    /\ redis' = [i \in Ids |-> IF setup.hasRedis /\ i \in Stored(call.notRedis)
                               THEN call.found[i] ELSE redis[i]]
    /\ call' = [call EXCEPT !.at = IF call.level = 0 THEN "filled" ELSE "fill local"]
    /\ UNCHANGED <<db, local, entityVars, writer, countVars, unseen>>

\* The first position of an id: cacheKeysMap.
Place(ids, i) == Min({k \in DOMAIN ids : ids[k] = i})

\* newSlice: each entity at the first position of its id, then duplicates after it.
Placed(ids, there) ==
    LET first == [k \in DOMAIN ids |->
                    IF k = Place(ids, ids[k]) /\ ids[k] \in there THEN ids[k] ELSE None]
    IN  [k \in DOMAIN ids |-> first[Place(ids, ids[k])]]

\* Mutant of Found: a row that is known not to be is an entity.
FoundAny == DOMAIN call.found

\* What the level found.
Found == {i \in DOMAIN call.found : call.found[i].row # NoRow}

\* The entities of the level are there; their references come next, if any are asked for.
Filled ==
    LET has(p) == p \in call.tops /\ IdAt(p, call.level) \in Found
        c == [p \in Ids |-> IF has(p)
                            THEN [chain[p] EXCEPT ![call.level + 1] =
                                    call.found[IdAt(p, call.level)].row]
                            ELSE chain[p]]
        next == IF call.level < call.depth
                THEN Reach(c, call.level + 1, {p \in call.tops : has(p)}) ELSE {} IN
    /\ call.at = "filled"
    /\ chain' = c
    /\ slice' = IF call.level = 0 THEN Placed(call.ids, Found) ELSE slice
    /\ call' = IF next = {} THEN [call EXCEPT !.at = "done"]
               ELSE [call EXCEPT !.at = "local", !.level = @ + 1, !.tops = next,
                                 !.keys = Lookup(c, call.level + 1, next), !.found = <<>>,
                                 !.notLocal = {}, !.notRedis = {}]
    /\ UNCHANGED <<storeVars, writer, countVars, unseen>>

Return ==
    /\ call.at = "done"
    /\ call' = Idle
    /\ UNCHANGED <<storeVars, entityVars, writer, countVars, unseen>>

-----------------------------------------------------------------------------
(* The other engine.                                                       *)

\* A row is inserted, updated or deleted, and committed: what was read of it is old.
Write(i) ==
    /\ writer.at = "idle" /\ writes < setup.writes
    /\ writes' = writes + 1
    /\ \E r \in {NoRow} \cup {[n |-> writes + 1, ref |-> x] : x \in setup.refs} :
         r # db[i] /\ db' = [db EXCEPT ![i] = r]
    /\ writer' = [at |-> IF setup.shared THEN "local" ELSE "redis", ids |-> {i}]
    /\ call' = IF i \in DOMAIN call.found
               THEN [call EXCEPT !.found[i].raced = TRUE] ELSE call
    /\ unseen' = IF setup.shared THEN unseen ELSE unseen \cup {i}
    /\ UNCHANGED <<redis, local, entityVars, calls>>

\* updateLocalCache: the row, or nil when it was deleted.
SetLocal ==
    /\ writer.at = "local"
    /\ local' = [i \in Ids |-> IF i \in writer.ids THEN [row |-> db[i], raced |-> FALSE]
                               ELSE local[i]]
    /\ writer' = [writer EXCEPT !.at = "redis"]
    /\ UNCHANGED <<db, redis, entityVars, call, countVars, unseen>>

\* Mutant of ClearCacheByIDs: the local cache is left to those who use it.
ClearRedisOnly(I) ==
    /\ writer.at = "idle" /\ writes < setup.writes
    /\ writes' = writes + 1
    /\ writer' = [at |-> "clear", ids |-> I]
    /\ UNCHANGED <<db, redis, local, entityVars, call, calls, unseen>>

\* ClearCacheByIDs: the local cache, then Redis.
ClearCacheByIDs(I) ==
    /\ writer.at = "idle" /\ writes < setup.writes
    /\ writes' = writes + 1
    /\ local' = [i \in Ids |-> IF i \in I /\ setup.shared THEN Miss ELSE local[i]]
    /\ unseen' = IF setup.shared THEN unseen \ I ELSE unseen
    /\ writer' = [at |-> "clear", ids |-> I]
    /\ UNCHANGED <<db, redis, entityVars, call, calls>>

\* redisFlusher.Flush, or the DEL of ClearCacheByIDs.
DelRedis ==
    /\ writer.at \in {"redis", "clear"}
    /\ redis' = [i \in Ids |-> IF i \in writer.ids THEN Miss ELSE redis[i]]
    /\ writer' = [at |-> "idle", ids |-> {}]
    /\ UNCHANGED <<db, local, entityVars, call, countVars, unseen>>

-----------------------------------------------------------------------------
Step ==
    \/ LoadByIDs \/ Load
    \/ GetLocal \/ GetRedis \/ Select \/ FillLocal \/ FillRedis \/ Filled \/ Return
    \/ \E i \in Ids : Write(i)
    \/ SetLocal \/ ClearCacheByIDs(Ids) \/ DelRedis

\* What is said of i from now on, or since the call began.
Said(before, i, now) == (IF call.at = "idle" THEN {} ELSE before[i]) \cup now
RowIn(copy) == IF copy = Miss THEN {} ELSE {copy.row}

\* Whether ClearCacheByIDs has begun, or has come to its end, with no load meanwhile and no
\* write since.
Clearing ==
    IF writer.at = "idle" /\ writer'.at # "idle"
    THEN IF writer'.at = "clear" /\ call.at = "idle" THEN "begun" ELSE "no"
    ELSE IF cleared = "begun" /\ call'.at # "idle" THEN "no"
    ELSE IF cleared = "begun" /\ writer'.at = "idle" THEN "yes"
    ELSE cleared

Next ==
    /\ Step
    /\ UNCHANGED setup
    /\ was' = [i \in Ids |-> Said(was, i, {db'[i]})]
    /\ seen' = [i \in Ids |-> Said(seen, i, {db'[i]} \cup RowIn(redis'[i]) \cup RowIn(local'[i]))]
    /\ cleared' = Clearing

Spec == Init /\ [][Next]_vars

-----------------------------------------------------------------------------
Copy == [row : Row \cup {NoRow}, raced : BOOLEAN]

CallType == [at : {"idle", "local", "redis", "select", "fill local", "fill redis", "filled", "done"},
             ids : Seq(Ids), depth : Levels, level : Levels, tops : SUBSET Ids, keys : SUBSET Ids,
             found : UNION {[D -> Copy] : D \in SUBSET Ids},
             notLocal : SUBSET Ids, notRedis : SUBSET Ids, missing : BOOLEAN]

\* The type of the state.  An entity that is loaded is never the nil value of a cache.
TypeOK ==
    /\ setup \in Setups
    /\ db \in [Ids -> Row \cup {NoRow}]
    /\ redis \in [Ids -> Copy \cup {Miss}] /\ local \in [Ids -> Copy \cup {Miss}]
    /\ slice \in Seq(Ids \cup {None})
    /\ chain \in [Ids -> [1 .. 3 -> Row \cup {Unloaded}]]
    /\ call \in CallType
    /\ calls \in Nat /\ writes \in 0 .. MaxWrites
    /\ writer \in [at : {"idle", "local", "redis", "clear"}, ids : SUBSET Ids]
    /\ unseen \subseteq Ids
    /\ seen \in [Ids -> SUBSET (Row \cup {NoRow})] /\ was \in [Ids -> SUBSET (Row \cup {NoRow})]
    /\ cleared \in {"no", "begun", "yes"}

\* The entities the call was about.
Subjects == IF call.ids = <<>> THEN call.tops ELSE ToSet(slice) \ {None}

\* LoadByIDs gives each position the entity of its id, or nothing, also where an id is asked
\* for twice and wherever among the three stores the rows are; it answers "missing" exactly
\* if a position is empty.  Whatever is loaded was said of the row during the call, what is
\* not there was said not to be.  A reference that was asked for is loaded, unless MySQL
\* itself said during the call that there is no such row: no old nil value of a cache hides
\* it (load_by_ids.go:65, 268, 305).
LoadedAsAsked ==
    call.at = "done" =>
    /\ call.ids # <<>> =>
         /\ Len(slice) = Len(call.ids)
         /\ \A k \in DOMAIN slice :
              IF slice[k] = None THEN NoRow \in seen[call.ids[k]]
              ELSE slice[k] = call.ids[k] /\ chain[slice[k]][1] \in seen[slice[k]]
         /\ call.missing <=> None \in ToSet(slice)
    /\ \A p \in Subjects, l \in 1 .. call.depth :
         IsRow(chain[p][l]) /\ chain[p][l].ref # None =>
           LET r == chain[p][l].ref IN
           IF chain[p][l + 1] = Unloaded THEN NoRow \in was[r] ELSE chain[p][l + 1] \in seen[r]

\* A copy in a cache is the row as it is in MySQL, but for these: the load that stored it
\* read it before the row was written; the write is about to tell the cache; or the local
\* cache is of another process and is never told (load_by_ids.go:146, 149, 348, 363).
CopiesExplained ==
    \A i \in Ids :
      /\ redis[i] # Miss => redis[i].row = db[i] \/ redis[i].raced \/ i \in Pending
      /\ local[i] # Miss => \/ local[i].row = db[i] \/ local[i].raced \/ i \in unseen
                            \/ setup.shared /\ writer.at = "local" /\ i \in writer.ids

\* ClearCacheByIDs with no load on its way leaves no wrong copy behind, whatever loads raced
\* with whatever writes before, and none comes back until the next write: neither in Redis
\* nor in the local cache of the process (clear_by_ids.go:14-20).
ClearHeals ==
    cleared = "yes" =>
      \A i \in Ids : /\ redis[i] # Miss => redis[i].row = db[i]
                     /\ setup.shared /\ local[i] # Miss => local[i].row = db[i]
=============================================================================
