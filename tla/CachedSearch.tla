---------------------------- MODULE CachedSearch ----------------------------
(***************************************************************************)
(* Cached queries (cached_search.go): lists of ids that are kept, page by  *)
(* page, in a Redis hash and in local caches, and the flusher's choice of  *)
(* the lists that a write makes it delete (flusher.go, table_schema.go).   *)
(* Engines search while others write, in and out of transactions.  A list  *)
(* is known by its index and its parameters, and two lists never share a   *)
(* key: the 32 bits of its hash are not modelled.  How the entities of a   *)
(* list are then loaded is in EntityCache.                                 *)
(***************************************************************************)
EXTENDS Integers, Sequences, FiniteSets, SequencesExt

CONSTANTS
    Engines, Caches,    \* engines, local caches of processes or of requests
    None,
    Unused, Gone,       \* ids that MySQL has not given yet, rows that are deleted
    Ids, Names, Ages,
    idsOnCachePage, ListMax,  \* the constant, and cachedQueryDefinition.ListMax of a list
    Setups              \* the programs that are looked at

\* The fields of an entity that has a unique index on all three.
Row == [Name : Names, Age : Ages, FakeDelete : BOOLEAN]
Columns == {"Name", "Age", "FakeDelete"}

\* Its CachedQuery fields: the fields that the query names before and after ORDER BY,
\* and whether it is a query or a queryOne.
Queries == [All  |-> [where |-> <<>>, order |-> <<>>, one |-> FALSE],
            List |-> [where |-> <<"Name">>, order |-> <<"Age">>, one |-> FALSE],
            One  |-> [where |-> <<"Name", "Age">>, order |-> <<>>, one |-> TRUE]]

\* A program: the local cache of an engine, whether the entity has a Redis cache and
\* the flag FakeDelete, the queries it has, the pages that are asked for, the rows at
\* first and those that are written, whether updates may be lazy,
\* and the bounds of searches, writes, transactions and faults.
SetupType == [engines : SUBSET Engines, local : [Engines -> Caches \cup {None}],
              redis : BOOLEAN, fake : BOOLEAN, queries : SUBSET DOMAIN Queries,
              pagers : SUBSET [page : Nat \ {0}, size : Nat \ {0}],
              rows : [Ids -> Row \cup {Unused}], values : SUBSET Row,
              lazy : BOOLEAN, searches : Nat, writes : Nat, transactions : Nat, faults : Nat]

ASSUME PagesAssumption == idsOnCachePage \in Nat \ {0} /\ ListMax \in Nat \ {0}
ASSUME IdsAssumption == Ids \subseteq Nat \ {0} /\ IsFiniteSet(Ids) /\ Ages \subseteq Nat
ASSUME NoneAssumption == None \notin Caches /\ Unused \notin Row /\ Gone \notin Row
\* What cachedSearch panics for before it reads anything: no cache, or a page past ListMax.
\* The rows at first are unique as the index has it.
ASSUME SetupsAssumption ==
    \A u \in Setups : /\ u \in SetupType /\ u.engines # {}
                      /\ u.redis \/ \A e \in u.engines : u.local[e] # None
                      /\ \A r \in u.pagers : r.page * r.size <= ListMax
                      /\ \A r \in u.values : ~r.FakeDelete
                      /\ \A i, j \in Ids : i # j /\ u.rows[i] # Unused => u.rows[i] # u.rows[j]

VARIABLES
    setup,      \* the program, one of Setups
    rows,       \* the committed table
    tx,         \* of each engine: what its open transaction wrote, and its DELs to come
    redis,      \* the hash fields of Redis, as [key, page, value]
    local,      \* the local caches, as [cache, key, value]
    run,        \* what each engine is doing
    events,     \* lazy updates that the background consumer has not executed
    searches, writes, transactions, faults,   \* counters of the bounds above
    lost,       \* history: lists that changed while no DEL of them will follow
    unseen      \* history: <<cache, key>>: lists that changed without that cache being told

cacheVars == <<redis, local>>
countVars == <<searches, writes, transactions, faults>>
vars == <<setup, rows, tx, cacheVars, run, events, countVars, lost, unseen>>

-----------------------------------------------------------------------------
(* The lists that the cached queries of the entity stand for.              *)

IsRow(r) == r \notin {Unused, Gone}
ParametersOf(q, r) == [j \in 1 .. Len(q.where) |-> r[q.where[j]]]
Matches(k, r) ==
    /\ IsRow(r)
    /\ ~r.FakeDelete
    /\ ParametersOf(Queries[k.query], r) = k.parameters

KeysOf(X) == UNION {[query : {i}, parameters : {ParametersOf(Queries[i], r) : r \in X}]
                    : i \in setup.queries}
Keys == KeysOf(Row)

\* What the query sorts by: its own fields, else the primary key.
Before(k, T, i, j) ==
    IF Queries[k.query].order = <<>> \/ T[i].Age = T[j].Age THEN i < j ELSE T[i].Age < T[j].Age

\* The ids that the query finds in table T, in its order.
FoundIn(k, T) == {i \in Ids : Matches(k, T[i])}
RankIn(k, T) == [i \in FoundIn(k, T) |-> Cardinality({j \in FoundIn(k, T) : Before(k, T, j, i)}) + 1]
Sorted(X, rank) == [n \in 1 .. Cardinality(X) |-> CHOOSE i \in X : rank[i] = n]
ListOf(k, T) == Sorted(FoundIn(k, T), RankIn(k, T))

-----------------------------------------------------------------------------
(* The keys of cached queries that a write makes the flusher delete.       *)

TrackedFields(q) ==
    LET fields == Range(q.where) \cup Range(q.order)
    IN  IF setup.fake /\ fields # {} THEN fields \cup {"FakeDelete"} ELSE fields

\* QueryFields without FakeDelete, which is no parameter.
QueryFields(q) == q.where

\* bind: the columns that are written; current: the row as the entity had it.
KeyFor(i, bind, current, old) ==
    LET q == Queries[i]
        Attribute(f) == IF f \in DOMAIN bind /\ ~old THEN bind[f] ELSE current[f]
    IN  [query |-> i, parameters |-> [j \in 1 .. Len(QueryFields(q)) |-> Attribute(QueryFields(q)[j])]]

\* Mutant of getCacheQueriesKeys: the lists whose parameters are written, not those
\* whose order is.
getCacheQueriesKeysOfWhere(bind, current, old, addedDeleted) ==
    {KeyFor(i, bind, current, old) :
       i \in {n \in setup.queries : addedDeleted \/ Range(QueryFields(Queries[n])) \cap DOMAIN bind # {}}}

getCacheQueriesKeys(bind, current, old, addedDeleted) ==
    LET added == addedDeleted \/ (setup.fake /\ "FakeDelete" \in DOMAIN bind)
    IN  {KeyFor(i, bind, current, old) :
           i \in {n \in setup.queries : added \/ TrackedFields(Queries[n]) \cap DOMAIN bind # {}}}

BindOf(old, new) == [f \in {f \in Columns : old[f] # new[f]} |-> new[f]]
InsertKeys(new) == getCacheQueriesKeys(new, new, FALSE, TRUE)
\* Mutant of UpdateKeys: only the lists that the row comes into.
UpdateKeysNew(old, new) == getCacheQueriesKeys(BindOf(old, new), old, FALSE, FALSE)

UpdateKeys(old, new) ==
    LET bind == BindOf(old, new)
    IN  getCacheQueriesKeys(bind, old, TRUE, FALSE) \cup getCacheQueriesKeys(bind, old, FALSE, FALSE)
DeleteKeys(old) == getCacheQueriesKeys(<<>>, old, TRUE, TRUE)

-----------------------------------------------------------------------------
(* The pages of a list.                                                    *)

LocalOf(e) == setup.local[e]
HasLocal(e) == LocalOf(e) # None
PageSize(e) == IF HasLocal(e) THEN ListMax ELSE idsOnCachePage

Start(r) == (r.page - 1) * r.size
\* Mutant of CachePages: the loop includes its bound.
CachePagesAndNext(r, size) == (Start(r) \div size) + 1 .. ((Start(r) + r.size + size - 1) \div size) + 1

CachePages(r, size) == (Start(r) \div size) + 1 .. ((Start(r) + r.size + size - 1) \div size)

SmallerOf(m, n) == IF m < n THEN m ELSE n
LeastOf(S) == CHOOSE m \in S : \A n \in S : m <= n
MostOf(S) == CHOOSE m \in S : \A n \in S : n <= m

\* The rows of the SELECT that searchPager = NewPager(minPage, maxPage*pageSize) limits.
Selected(ids, missing, size) ==
    LET limit == MostOf(missing) * size
        offset == (LeastOf(missing) - 1) * limit
    IN  SubSeq(ids, offset + 1, SmallerOf(offset + limit, Len(ids)))

\* results[sliceStart:sliceEnd] for page p, when rows were selected at all.
CutStart(p, missing, size) == (p - LeastOf(missing)) * size
CutEnd(p, missing, size, ids) ==
    SmallerOf(SmallerOf(CutStart(p, missing, size) + size, Len(ids)),
              Len(Selected(ids, missing, size)))
IsCut(p, missing, size, ids) ==
    CutStart(p, missing, size) <= Len(ids) /\ Selected(ids, missing, size) # <<>>
\* Go panics for a slice that ends before it starts.
CutPanics(missing, size, ids) ==
    \E p \in missing : /\ IsCut(p, missing, size, ids)
                       /\ CutStart(p, missing, size) > CutEnd(p, missing, size, ids)

\* A page as it is stored, with the list it was cut from, the first page and the page
\* size of the SELECT, and whether a writer overtook it: history that the code has not.
Page(p, missing, size, ids, raced) ==
    [total |-> Len(ids),
     ids |-> IF IsCut(p, missing, size, ids)
             THEN SubSeq(Selected(ids, missing, size), CutStart(p, missing, size) + 1,
                         CutEnd(p, missing, size, ids))
             ELSE <<>>,
     of |-> ids, first |-> LeastOf(missing), size |-> size, raced |-> raced]

\* The answer to pager r from the pages that were found.
Concat(found, pages) == FlattenSeq([n \in 1 .. Cardinality(pages) |-> found[LeastOf(pages) + n - 1].ids])

\* Mutant of Answer: the start is not moved to the first page that was read.
AnswerFromTheTop(r, size, found, total) ==
    LET all == Concat(found, CachePages(r, size))
        start == Start(r)
        end == SmallerOf(start + r.size, Len(all))
    IN  IF start > total THEN [total |-> total, ids |-> <<>>, panics |-> FALSE]
        ELSE IF start > end THEN [total |-> total, ids |-> <<>>, panics |-> TRUE]
        ELSE [total |-> total, ids |-> SubSeq(all, start + 1, end), panics |-> FALSE]

Answer(r, size, found, total) ==
    LET all == Concat(found, CachePages(r, size))
        start == Start(r) - (LeastOf(CachePages(r, size)) - 1) * size
        end == SmallerOf(start + r.size, Len(all))
    IN  IF start > total THEN [total |-> total, ids |-> <<>>, panics |-> FALSE]
        ELSE IF start > end THEN [total |-> total, ids |-> <<>>, panics |-> TRUE]
        ELSE [total |-> total, ids |-> SubSeq(all, start + 1, end), panics |-> FALSE]

-----------------------------------------------------------------------------
Idle == [at |-> "idle"]
Closed == [open |-> FALSE, rows |-> <<>>, dels |-> {}, stale |-> FALSE]

Init ==
    /\ setup \in Setups
    /\ rows = setup.rows
    /\ tx = [e \in Engines |-> Closed]
    /\ redis = {} /\ local = {}
    /\ run = [e \in Engines |-> Idle]
    /\ searches = 0 /\ writes = 0 /\ transactions = 0 /\ faults = 0
    /\ events = <<>> /\ lost = {} /\ unseen = {}

\* The table as the connection of e sees it, and what it writes.
Put(W, i, r) == [j \in DOMAIN W \cup {i} |-> IF j = i THEN r ELSE W[j]]
View(e) == [i \in Ids |-> IF i \in DOMAIN tx[e].rows THEN tx[e].rows[i] ELSE rows[i]]
Changed(T, U) == {k \in Keys : ListOf(k, T) # ListOf(k, U)}

-----------------------------------------------------------------------------
(* cachedSearch and cachedSearchOne.                                       *)

IsOne(k) == Queries[k.query].one
Single == [page |-> 1, size |-> 1]

\* The end of a search that found or filled pages `found`.
Answered(e, k, r, found, totals) ==
    \E total \in totals :
      run' = [run EXCEPT ![e] =
                [at |-> "answered", key |-> k, pager |-> r, found |-> found,
                 answer |-> IF IsOne(k) THEN [total |-> Len(found[1].ids), ids |-> found[1].ids, panics |-> FALSE]
                            ELSE Answer(r, PageSize(e), found, total)]]

\* The lists that are asked for: of rows that there are at first or may be written.
SearchKeys == KeysOf(setup.values \cup (Range(setup.rows) \ {Unused}))

Totals(found) == {found[p].total : p \in DOMAIN found}

\* The pages that are looked up: one in a local cache, those of the pager in Redis.
PagesFor(e, k, r) == IF HasLocal(e) \/ IsOne(k) THEN {1} ELSE CachePages(r, PageSize(e))
Kept(e, k) == {x \in local : x.cache = LocalOf(e) /\ x.key = k}
FoundInRedis(k, pages) ==
    LET stored == {x \in redis : x.key = k /\ x.page \in pages}
    IN  [p \in {x.page : x \in stored} |-> (CHOOSE x \in stored : x.page = p).value]

\* A value that is on its way to a cache, and whether a writer overtakes it.
Overtaken(v, raced) == [v EXCEPT !.raced = @ \/ raced]
Late(k, v) == Overtaken(v, v.of # ListOf(k, rows))

Hit(e, k, r) == \E x \in Kept(e, k) : Answered(e, k, r, [p \in {1} |-> x.value], {x.value.total})

\* A list that came from Redis is still to be set in the local cache; the id of a
\* queryOne is not.
RedisHit(e, k, r, found) ==
    IF HasLocal(e) /\ ~IsOne(k)
    THEN run' = [run EXCEPT ![e] = [at |-> "keep", key |-> k, pager |-> r, missing |-> {},
                                    found |-> [p \in DOMAIN found |-> Late(k, found[p])],
                                    raced |-> FALSE]]
    ELSE Answered(e, k, r, found, Totals(found))

Misses(e, k, r, pages, found) ==
    run' = [run EXCEPT ![e] = [at |-> "select", key |-> k, pager |-> r,
                               missing |-> pages \ DOMAIN found, found |-> found]]

\* The local cache, then the hash in Redis, then MySQL.
Search(e) ==
    /\ run[e].at = "idle" /\ searches < setup.searches
    /\ \E k \in SearchKeys, r \in setup.pagers \cup {Single} :
         /\ IF IsOne(k) THEN r = Single ELSE r \in setup.pagers
         /\ LET pages == PagesFor(e, k, r)
                found == FoundInRedis(k, pages)
            IN  \/ Hit(e, k, r)
                \/ Kept(e, k) = {} /\ DOMAIN found = pages /\ RedisHit(e, k, r, found)
                \/ Kept(e, k) = {} /\ DOMAIN found # pages /\ Misses(e, k, r, pages, found)
    /\ searches' = searches + 1
    /\ UNCHANGED <<setup, events, rows, tx, cacheVars, writes, transactions, faults, lost, unseen>>

\* searchIDsWithCount, and the pages cut out of its result.  What a transaction alone
\* sees goes to the caches as everything else does.
Select(e) ==
    /\ run[e].at = "select"
    /\ LET k == run[e].key
           ids == ListOf(k, View(e))
           size == IF IsOne(k) THEN 1 ELSE PageSize(e)
           missing == run[e].missing
           filled == [p \in missing \cup DOMAIN run[e].found |->
                        IF p \in missing THEN Page(p, missing, size, ids, ids # ListOf(k, rows))
                        ELSE run[e].found[p]]
       IN  IF ~IsOne(k) /\ CutPanics(missing, size, ids)
           THEN run' = [run EXCEPT ![e] =
                          [at |-> "answered", key |-> k, pager |-> run[e].pager,
                           found |-> filled,
                           answer |-> [total |-> Len(ids), ids |-> <<>>, panics |-> TRUE]]]
           ELSE run' = [run EXCEPT ![e] =
                          [at |-> IF HasLocal(e) /\ (IsOne(k) \/ ~setup.redis) THEN "keep" ELSE "store",
                           key |-> k, pager |-> run[e].pager, missing |-> missing,
                           found |-> filled, raced |-> FALSE]]
    /\ UNCHANGED <<setup, events, rows, tx, cacheVars, countVars, lost, unseen>>

\* What is left when one of the two caches is filled.
Done(e, next) ==
    IF next # "answered" THEN run' = [run EXCEPT ![e].at = next]
    ELSE Answered(e, run[e].key, run[e].pager, run[e].found,
                  IF run[e].missing = {} THEN Totals(run[e].found)
                  ELSE {run[e].found[p].total : p \in run[e].missing})

\* HSET of the missing pages.
Store(e) ==
    /\ run[e].at = "store"
    /\ LET k == run[e].key
       IN  /\ redis' = {x \in redis : ~(x.key = k /\ x.page \in run[e].missing)}
                       \cup {[key |-> k, page |-> p, value |-> Overtaken(run[e].found[p], run[e].raced)]
                             : p \in run[e].missing}
           /\ Done(e, IF HasLocal(e) /\ ~IsOne(k) THEN "keep" ELSE "answered")
    /\ UNCHANGED <<setup, events, rows, tx, local, countVars, lost, unseen>>

\* LocalCache.Set of the only page.
Keep(e) ==
    /\ run[e].at = "keep"
    /\ LET k == run[e].key
       IN  /\ local' = {x \in local : ~(x.cache = LocalOf(e) /\ x.key = k)}
                       \cup {[cache |-> LocalOf(e), key |-> k,
                              value |-> Overtaken(run[e].found[1], run[e].raced)]}
           /\ Done(e, IF IsOne(k) /\ setup.redis THEN "store" ELSE "answered")
    /\ UNCHANGED <<setup, events, rows, tx, redis, countVars, lost, unseen>>

Return(e) ==
    /\ run[e].at = "answered"
    /\ run' = [run EXCEPT ![e] = Idle]
    /\ UNCHANGED <<setup, events, rows, tx, cacheVars, countVars, lost, unseen>>

-----------------------------------------------------------------------------
(* Flushes of one entity, and the transactions they are in.                *)

\* MySQL: the rows that another open transaction wrote are locked, and the index on
\* name, age and flag is unique among what anybody wrote.
Allows(e, i, r) ==
    /\ \A f \in Engines \ {e} : i \notin DOMAIN tx[f].rows
    /\ IsRow(r) => \A f \in Engines : \A j \in Ids \ {i} : ~(IsRow(View(f)[j]) /\ View(f)[j] = r)

\* A statement: row i becomes r, outside a transaction at once.  An entity is stale
\* when its row is not what the entity takes it for.
Execute(e, i, r, keys, stale) ==
    /\ Allows(e, i, r)
    /\ IF tx[e].open
       THEN /\ tx' = [tx EXCEPT ![e].rows = Put(@, i, r), ![e].stale = @ \/ stale]
            /\ UNCHANGED <<rows, lost, unseen>>
       ELSE LET T == [rows EXCEPT ![i] = r]
                missed == IF stale THEN Changed(rows, T) \ keys ELSE {}
            IN  /\ rows' = T
                /\ lost' = lost \cup missed
                /\ unseen' = unseen \cup (({LocalOf(e)} \X missed)
                                          \cup ((Caches \ {LocalOf(e)}) \X Changed(rows, T)))
                /\ UNCHANGED tx

\* What is left to do when a statement has run: the caches one after the other, or
\* the DELs after the COMMIT.
Clears(keys, at, then) == [at |-> at, keys |-> keys, then |-> then]

\* Flush: the local cache comes first, Redis second.
Flush(e, i, r, keys, stale) ==
    /\ Execute(e, i, r, keys, stale)
    /\ run' = [run EXCEPT ![e] = Clears(keys, "local", IF tx[e].open \/ ~setup.redis THEN "none" ELSE "redis")]
    /\ writes' = writes + 1

\* An entity is loaded; others may write its row before it is flushed.
Load(e) ==
    /\ run[e].at = "idle" /\ writes < setup.writes
    /\ \E i \in Ids : /\ IsRow(View(e)[i]) /\ ~View(e)[i].FakeDelete
                      /\ run' = [run EXCEPT ![e] = [at |-> "loaded", id |-> i, row |-> View(e)[i]]]
    /\ UNCHANGED <<setup, events, rows, tx, cacheVars, countVars, lost, unseen>>

FlushInsert(e) ==
    /\ run[e].at = "idle" /\ writes < setup.writes
    /\ LET free == {i \in Ids : \A f \in Engines : View(f)[i] = Unused}
       IN  \E r \in setup.values, i \in free :
             /\ \A j \in free : i <= j
             /\ Flush(e, i, r, InsertKeys(r), FALSE)
    /\ UNCHANGED <<setup, events, cacheVars, searches, transactions, faults>>

\* UPDATE of the dirty columns, or of FakeDelete; nothing when the row is gone.
Updated(old, r, now) ==
    IF IsRow(now) THEN [f \in Columns |-> IF old[f] # r[f] THEN r[f] ELSE now[f]] ELSE now
NewRows(old) ==
    (setup.values \cup IF setup.fake THEN {[old EXCEPT !.FakeDelete = TRUE]} ELSE {}) \ {old}

FlushUpdate(e) ==
    /\ run[e].at = "loaded"
    /\ \E r \in NewRows(run[e].row) :
         LET old == run[e].row
             now == View(e)[run[e].id]
         IN  Flush(e, run[e].id, Updated(old, r, now), UpdateKeys(old, r), now # old)
    /\ UNCHANGED <<setup, events, cacheVars, searches, transactions, faults>>

FlushDelete(e) ==
    /\ run[e].at = "loaded" /\ ~setup.fake
    /\ Flush(e, run[e].id, Gone, DeleteKeys(run[e].row), View(e)[run[e].id] # run[e].row)
    /\ UNCHANGED <<setup, events, cacheVars, searches, transactions, faults>>

\* Searches that are to fill a cache with list k, for which a deletion comes too early.
Race(keys, engines) ==
    [f \in Engines |-> IF f \in engines /\ run[f].at \in {"keep", "store"} /\ run[f].key \in keys
                       THEN [run[f] EXCEPT !.raced = TRUE] ELSE run[f]]

\* updateLocalCache, which does not wait for COMMIT; updateRedisCache leaves the DELs
\* to it.
RemoveLocal(e) ==
    /\ run[e].at = "local"
    /\ LET keys == run[e].keys
           c == LocalOf(e)
       IN  /\ local' = {x \in local : ~(x.cache = c /\ x.key \in keys)}
           /\ unseen' = unseen \ ({c} \X keys)
           /\ tx' = [tx EXCEPT ![e].dels = IF tx[e].open THEN @ \cup keys ELSE @]
           /\ run' = [Race(keys, {f \in Engines : LocalOf(f) = c})
                        EXCEPT ![e] = IF run[e].then = "redis" THEN Clears(keys, "redis", "none") ELSE Idle]
    /\ UNCHANGED <<setup, events, rows, redis, countVars, lost>>

\* redisFlusher.Flush; the background consumer's DEL.
DelRedis(e) ==
    /\ run[e].at = "redis"
    /\ LET keys == run[e].keys
       IN  /\ redis' = {x \in redis : x.key \notin keys}
           /\ lost' = lost \ keys
           /\ run' = [Race(keys, Engines)
                        EXCEPT ![e] = IF run[e].then = "local" THEN Clears(keys, "local", "none") ELSE Idle]
    /\ UNCHANGED <<setup, events, rows, tx, local, countVars, unseen>>

\* FlushLazy: the statement and its keys go to the stream, after DELs that come too
\* early to matter; the local cache hears nothing.
FlushLazy(e) ==
    /\ run[e].at = "loaded" /\ setup.lazy /\ ~tx[e].open
    /\ \E r \in NewRows(run[e].row) :
         LET keys == UpdateKeys(run[e].row, r)
         IN  /\ events' = Append(events, [id |-> run[e].id, old |-> run[e].row, new |-> r])
             /\ redis' = {x \in redis : x.key \notin keys}
             /\ lost' = lost \ keys
             /\ run' = [Race(keys, Engines) EXCEPT ![e] = Idle]
    /\ writes' = writes + 1
    /\ UNCHANGED <<setup, rows, tx, local, searches, transactions, faults, unseen>>

\* The background consumer in the process of e executes an event (LazyFlush has its
\* batches), then deletes in Redis and in its own local cache.
HandleLazy(e) ==
    /\ run[e].at = "idle" /\ ~tx[e].open /\ events # <<>>
    /\ LET x == Head(events)
           now == rows[x.id]
           keys == UpdateKeys(x.old, x.new)
       IN  /\ Execute(e, x.id, Updated(x.old, x.new, now), keys, now # x.old)
           /\ run' = [run EXCEPT ![e] = IF setup.redis THEN Clears(keys, "redis", "local")
                                       ELSE Clears(keys, "local", "none")]
    /\ events' = Tail(events)
    /\ UNCHANGED <<setup, cacheVars, countVars>>

Begin(e) ==
    /\ run[e].at = "idle" /\ ~tx[e].open /\ transactions < setup.transactions
    /\ tx' = [tx EXCEPT ![e].open = TRUE]
    /\ transactions' = transactions + 1
    /\ UNCHANGED <<setup, events, rows, cacheVars, run, searches, writes, faults, lost, unseen>>

\* COMMIT; the DELs come after it, and nothing more for the local cache.
Commit(e) ==
    /\ run[e].at = "idle" /\ tx[e].open
    /\ LET T == View(e)
           dels == tx[e].dels
           missed == IF tx[e].stale THEN Changed(rows, T) \ dels ELSE {}
       IN  /\ rows' = T
           /\ run' = [run EXCEPT ![e] = IF setup.redis THEN Clears(dels, "redis", "none") ELSE Idle]
           /\ lost' = lost \cup missed
           /\ unseen' = unseen \cup (({LocalOf(e)} \X (dels \cup missed))
                                     \cup ((Caches \ {LocalOf(e)}) \X Changed(rows, T)))
    /\ tx' = [tx EXCEPT ![e] = Closed]
    /\ UNCHANGED <<setup, events, cacheVars, countVars>>

Rollback(e) ==
    /\ run[e].at = "idle" /\ tx[e].open
    /\ tx' = [tx EXCEPT ![e] = Closed]
    /\ UNCHANGED <<setup, events, rows, cacheVars, run, countVars, lost, unseen>>

-----------------------------------------------------------------------------
\* The lists that e is still to DEL in Redis, and to remove from its local cache.
RedisToDo(e) ==
    IF run[e].at = "redis" \/ (run[e].at = "local" /\ run[e].then = "redis") THEN run[e].keys ELSE {}
LocalToDo(e) ==
    IF (run[e].at = "local" /\ ~tx[e].open) \/ (run[e].at = "redis" /\ run[e].then = "local")
    THEN run[e].keys ELSE {}

\* A process dies, with its local cache; it has one engine here.
Crash(e) ==
    /\ faults < setup.faults
    /\ run[e].at # "idle" \/ tx[e].open
    /\ HasLocal(e) => \A f \in setup.engines \ {e} : LocalOf(f) # LocalOf(e)
    /\ run' = [run EXCEPT ![e] = Idle]
    /\ tx' = [tx EXCEPT ![e] = Closed]
    /\ local' = {x \in local : x.cache # LocalOf(e)}
    /\ lost' = lost \cup RedisToDo(e)
    /\ unseen' = {x \in unseen : x[1] # LocalOf(e)}
    /\ faults' = faults + 1
    /\ UNCHANGED <<setup, events, rows, redis, searches, writes, transactions>>

\* The LRU of a local cache is full.
Evict ==
    /\ faults < setup.faults
    /\ \E x \in local : local' = local \ {x}
    /\ faults' = faults + 1
    /\ UNCHANGED <<setup, events, rows, tx, redis, run, searches, writes, transactions, lost, unseen>>

Step ==
    \/ \E e \in setup.engines :
          \/ Search(e) \/ Select(e) \/ Store(e) \/ Keep(e)
          \/ Load(e) \/ FlushInsert(e) \/ FlushUpdate(e) \/ FlushDelete(e)
          \/ FlushLazy(e) \/ HandleLazy(e) \/ RemoveLocal(e) \/ DelRedis(e)
          \/ Begin(e) \/ Commit(e) \/ Rollback(e)
          \/ Crash(e)
    \/ Evict

\* An answer is given before anything else happens: nobody else sees it.
Next ==
    \/ \E e \in setup.engines : Return(e)
    \/ (\A e \in setup.engines : run[e].at # "answered") /\ Step

Spec == Init /\ [][Next]_vars

-----------------------------------------------------------------------------
(* Properties.                                                             *)

Value == [total : Nat, ids : Seq(Ids), of : Seq(Ids), first : Nat, size : Nat, raced : BOOLEAN]

TypeOK ==
    /\ setup \in Setups
    /\ rows \in [Ids -> Row \cup {Unused, Gone}]
    /\ \A e \in Engines : /\ tx[e].open \in BOOLEAN /\ tx[e].stale \in BOOLEAN
                          /\ DOMAIN tx[e].rows \subseteq Ids /\ tx[e].dels \subseteq Keys
                          /\ run[e].at \in {"idle", "select", "store", "keep", "answered",
                                            "loaded", "local", "redis"}
    /\ \A x \in redis : /\ x.key \in Keys /\ x.page \in Nat \ {0} /\ x.value \in Value
                        /\ (x.page - 1) * x.value.size < ListMax
    /\ \A x, y \in redis : x.key = y.key /\ x.page = y.page => x = y
    /\ \A x \in local : x.cache \in Caches /\ x.key \in Keys /\ x.value \in Value
    /\ \A x, y \in local : x.cache = y.cache /\ x.key = y.key => x = y
    /\ lost \subseteq Keys /\ unseen \subseteq (Caches \cup {None}) \X Keys

\* A page in Redis is of the list as the database has it, unless a DEL of the list is
\* on its way, or lost with a process, or the write was of an entity that took its row
\* for another (its list is not deleted), or the page was stored by a search that a DEL
\* had overtaken or that read what its own transaction had not committed.
RedisListsExplained ==
    \A x \in redis : \/ x.value.of = ListOf(x.key, rows)
                     \/ x.value.raced
                     \/ x.key \in lost \cup UNION {RedisToDo(e) : e \in Engines}

\* A list in a local cache is the database's, unless another process wrote it, the
\* write's own removal came before its COMMIT or is still to come, or the list was kept
\* by a search that such a removal had overtaken, or taken from Redis when it was old.
LocalListsExplained ==
    \A x \in local : \/ x.value.of = ListOf(x.key, rows)
                     \/ x.value.raced
                     \/ <<x.cache, x.key>> \in unseen
                     \/ \E e \in Engines : LocalOf(e) = x.cache /\ x.key \in LocalToDo(e)

\* What the caller asked for in the list ids.
Asked(r, ids) == SubSeq(ids, Start(r) + 1, SmallerOf(Start(r) + r.size, Len(ids)))

\* A pager that starts past the end of the list, in the middle of a page of the cache,
\* and not so far in it that the answer is empty: the slice ends before it starts.
RunsPast(r, ids, size) == Start(r) > Len(ids) /\ Start(r) % size \in 1 .. Len(ids)

\* A search answers with the part of the list that its pager asks for, whatever pages
\* it found and fetched, if these are of one list, and panics for no pager but one that
\* runs past it; except when a page was fetched by a SELECT that began with another page
\* than the first, whose OFFSET skips rows, or was stored by an engine with another page
\* size.
AnswerIsPage ==
    \A e \in setup.engines :
      run[e].at = "answered" =>
        LET found == run[e].found
            ids == found[CHOOSE p \in DOMAIN found : TRUE].of
        IN  (\A p \in DOMAIN found : /\ found[p].of = ids /\ found[p].first = 1
                                     /\ found[p].size = IF IsOne(run[e].key) THEN 1 ELSE PageSize(e))
              => run[e].answer = [total |-> Len(ids), ids |-> Asked(run[e].pager, ids),
                                  panics |-> /\ ~IsOne(run[e].key)
                                             /\ RunsPast(run[e].pager, ids, PageSize(e))]
=============================================================================
