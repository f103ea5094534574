# trixorm in TLA+

trixorm is a Go library: an ORM over MySQL that keeps entities in a local cache
of each process and in Redis, writes them through *flushers*, postpones writes
and reports through Redis streams, and consumes those streams with a broker of
its own. This directory models the parts of it where processes, caches and
streams meet. Every definition is taken from the code; `PROJECT.json` lists, for
each one, the lines it stands for.

## Inventory

| Component | State it keeps | Operations | Why it is hard |
|---|---|---|---|
| Event broker (`event_broker.go`) | streams, groups, pending lists (Redis); lock key per consumer name; `consumeAttributes` of each running `consume` | `Publish`, `Consume`, `digestKeys`, `event.Ack`, `Claim`, `garbage` | several processes under one name, panics, crashes, redelivery, entries claimed while they are handled |
| Stream garbage collector (`background_consumer.go:524`) | `<group>_gc` key, `ids`, `inPending` | `handleRedisChannelGarbageCollector` and its Lua script | reads each group at another moment, then deletes |
| Lock (`locker.go`) | a Redis key with a time to live, `has` | obtain, refresh, release | expires while its holder works |
| Load by id (`load_by_id.go`, `local_cache.go`) | entity's key in the local cache and in Redis | `loadByID` | reads the row long before it stores it |
| Flusher (`flusher.go`, `redis_flusher.go`) | tracked entities, queued SQL, `localCacheSets`, `localCacheDeletes`, a `redisFlusher` with DEL, SET, HSET and XADD | `Flush`, `FlushWithCheck`, `FlushLazy`, `Clear` | several statements, several caches, failures between them |
| Transactions (`db.go`) | `inTransaction`, and in the engine `afterCommitLocalCacheSets`, `afterCommitRedisFlusher` | `Begin`, `Commit`, `Rollback` | the caches are updated after COMMIT; one engine may have several pools |
| Lazy flush (`background_consumer.go:105`) | `lazyMap` on the stream | `Digest`, `handleLazy`, `handleQueries`, `handleCache`, `handleLog` | goroutines per pool and modulo, redelivery, acknowledgement before or after the effect |
| Cached queries (`cached_search.go`) | lists of ids by index key and page | `cachedSearch`, `cachedSearchOne`, `getCacheQueriesKeys` | pages filled and deleted independently |
| Load by ids, references (`load_by_ids.go`) | as load by id, for many keys | `tryByIDs`, `warmUpReferences` | partial hits, order of results |
| Dirty queues and entity logs | events in the `redisFlusher` | `addDirtyQueues`, `addToLogQueue` | published only if the write is |
| Redis Search indexer (`background_consumer.go:473`) | last id in Redis | `handleRedisIndexerEvent` | resumes after a crash |
| Bind builder, serializer, fields (`bind_builder.go`, `serializer.go`, `orm.go`) | the struct, its binary form, its row | `build`, `serialize`, `deserialize`, `SetField` | "unchanged" is decided per kind of field, by its text |
| Schema alters (`schema.go`, `table_schema.go`) | tables of MySQL, the registry of a release | `GetAlters`, `GetSchemaChanges`, `UpdateSchema`, `TruncateTable`, `DropTable` | order of alters, what counts as safe, rows that come in between |
| Clear by ids (`clear_by_ids.go`) | as load by ids | `clearByIDs` | two caches, one after the other |
| Redis Search, uuid, registry, search, loggers | mostly none | text of commands, start-up, reporting | otherwise sequential |

How they interact: a flush writes MySQL, then sets the local cache of its own
process, then runs its `redisFlusher`, which deletes or sets keys and adds events
to streams; inside a transaction the last two wait in the `Engine` for `DB.Commit`
and are dropped by `DB.Rollback`. Loads go from the local cache to Redis to MySQL
and fill both on the way back. Events are consumed through the broker; the
background consumer runs postponed writes, writes logs and trims the streams.

What makes each correct: an entry of a stream reaches every group at least once
and is deleted only afterwards; one process consumes under a name; a cache
differs from the database only in windows that close, or for reasons one can
name; what a rolled back transaction queued is never published; a lazy write is
executed and its caches are cleared although the consumer may die at any point; a
cached list never misses a row for good.

## Modules

| Module | What it is |
|---|---|
| `AtLeastOnce` | abstract specification of a stream with groups |
| `EventBroker` | broker, lock, Claim and garbage collector on one stream; implements `AtLeastOnce` |
| `MCEventBroker`, `EventBroker_gc/claim/lock.cfg` | instances |
| `EntityCache` | one row, its copies in local caches and Redis, loads, flushes, transactions |
| `MCEntityCache`, `EntityCache.cfg` | instance |
| `FlushTransaction` | the flushers and pools of one engine: what a flush of several entities executes, in which transactions, and when its keys and events become visible |
| `MCFlushTransaction`, `FlushTransaction.cfg` | instance |
| `LazyFlush` | lazy flushes of the rows of a table, the batches and goroutines of the background consumer |
| `MCLazyFlush`, `LazyFlush_uuid/live/order.cfg` | instances |
| `CachedSearch` | cached queries: lists of ids by pages in both caches, and the lists that a write deletes |
| `MCCachedSearch`, `CachedSearch.cfg` | instance |
| `LoadByIDs` | loading many entities and their references through both caches; `ClearCacheByIDs` |
| `MCLoadByIDs`, `LoadByIDs.cfg` | instance |
| `Fields` | a field of every kind between the Go struct, the binary form, the row and the caches |
| `MCFields`, `Fields.cfg` | instance |
| `SchemaAlters` | the tables that entities ask for and the ALTERs that lead there |
| `MCSchemaAlters`, `SchemaAlters.cfg` | instance |
| `EventBrokerProofs`, `EntityCacheProofs`, `LazyFlushProofs`, `CachedSearchProofs`, `LoadByIDsProofs`, `FlushTransactionProofs`, `FieldsProofs`, `SchemaAltersProofs` | theorems about these modules |

`EntityCache`, `CachedSearch` and `LoadByIDs` are three views of the same caches: one
row with its values and every way to write it; the lists that contain rows; many rows
that are read at once. `FlushTransaction` looks at a flush from the side of the engine,
where `EntityCache` looks at what its row goes through, and `LazyFlush` at a flush
that another process executes. `Fields` is what one write and one read do to a value,
everywhere else a number. Where a module looks at several programs (which caches there
are, which entities refer to which, how often something happens) these are members of
`Setups`: one is chosen at the start, in the variable `setup`, so that one run explores
them all and the theorems hold for any set of them.

### EventBroker

An entry is its rank in the stream, so ids are compared as the code compares
`ms-counter` pairs and 0 is `0-0`. `pc[p]` follows a process through `consume`:
`idle` (not in it), `create` (has the lock, before XGROUP CREATE), `loop` (head of
the `for`), `read` (inside `digest`), `handle` (the handler runs), `ack` (before
the final XACK). `pending`, `lastID` and `batch` are the fields of
`consumeAttributes` and the events of the current call; `toAck` is what the
handler has not acknowledged itself. The two Redis commands of `Claim` are two
actions, and so are the reads of the collector: XINFO GROUPS is one, XPENDING of
each group another. `Garbage` publishes a collector event or, within ten seconds
of the last one, does not. The ten-second clock, the 30-second key and the 90-second
lock are nondeterministic; expiry of a live holder's lock is counted so that
properties can tell it from other causes. A crash loses the process's variables,
a panic also runs the deferred release. The script's batches of 1000 up to 100000
entries are one step of at most `ChunkSize` entries.

- `event_broker_gc` (2.2M states): two groups, one consumer each, three entries, one
  collector, one fault. Three entries and two groups are the least in which one
  group is ahead of, level with and behind another by a batch, with a partial last
  chunk. Shows `NothingLost`.
- `event_broker_claim` (0.5M states): two names of a group and a Claim. Shows that a
  pending entry still has its body (`PendingInStream`: the collector stops before the
  lowest pending id) and that everything the consumers and the collector do is
  a step of `AtLeastOnce`.
- `event_broker_lock` (61k states): two processes, one name, two faults, one expiry,
  three entries. `LockKept`: a release or refresh by a holder whose key expired does
  not touch its successor's lock. `OneConsumerPerName`: exclusion holds until a lock
  expires under its holder, and the code makes that possible, because the handler
  runs on the goroutine that refreshes the lock. `EventuallyAcked`: through panics and
  crashes, or through an expired lock, every entry is acknowledged. It is stated
  with its real exceptions. A consumer reads its pending entries once, at its
  start, so an entry left pending *under a running session of its name* stays
  there until the next start: by a stale holder that dies after its successor
  finished its pending phase, or by a Claim into a running consumer.

Fairness: weak fairness of a process's own steps (whoever runs a consumer calls
it again when it returns, and handlers return) and of the expiry of a dead holder's
key. None is assumed of publishers, faults, Claim or the collector.

### EntityCache

A row is, for each column, the number of the write that set it. Each engine is
used by one goroutine; its `pc` follows `loadByID` (`get`, `select`, `copy`, `fill`,
`put`) or what follows a statement or COMMIT (`set`: local cache, `flush`: Redis).
`sets`, `dels` and `puts` are the queued local cache set, DEL and SET of the key.
Inside a transaction they stay queued until `Commit`; `Rollback` drops them, and a
failing `Flush` calls it too. MySQL is InnoDB at REPEATABLE READ: a statement that
writes waits for the row's lock and works on the current row, a SELECT in a
transaction reads the snapshot its first read took, or the transaction's own write. A
pipeline reaches Redis as one step; the SETs of one pipeline come after its DELs.

The history variables say *why* a copy may be stale: `late` (a load, or the SET
of an inserted UUID row, stored a value another commit had overtaken), `dirty` (a
transaction loaded its own uncommitted row into shared caches), `setLast` (the SET
of an inserted row in a pipeline that also deletes the key), `lost` (the process
died before its DEL), `blind` (a cache answered a transaction for a row it had
changed itself), `kept` (a rolled back entity was used on). `suspect` holds the
reasons that still apply to the key in Redis, `mishaps` all that ever happened.

- `entity_cache` (3.6M states), two programs. Two processes, two columns, two writes,
  processes and columns symmetric: `RedisStaleExplained` is the contract of the cache: a value in Redis
  is the committed one, or its writer is about to delete it, or one of the named
  reasons applies; nothing else makes it stale. `OwnWritesVisible`: a process
  does not lose sight of its own last write of a column, although an update
  stores the whole entity in its local cache and writes only the dirty column. One engine
  of a UUID entity, four writes, one crash: `CachesAgree`: without any mishap both
  caches equal the database whenever the engine is outside a transaction, after any mix
  of commits and rollbacks.

The reason `setLast` is the case of Begin, insert, update, Commit of a UUID entity, which
leaves the row *as inserted* in Redis, without a time to live: the flusher runs all DELs
of a pipeline first (`redis_flusher.go:109`), and the queued SET holds the inserted value.
`flusher_test.go:795` tests the sequence on an entity without uuid, where the insert is a DEL.

Two writes suffice for a race of two writers or of a writer and a load; four let
one engine insert, update, delete and insert again.

### FlushTransaction

One engine, used by one goroutine, with its flushers (`tracked`, `updates`, `deletes`,
`localSets`, and in `rf` the `redisFlusher`, an object of its own because the engine may keep
it), the transaction of each pool, and the engine's two after-commit queues. A write is what
flush `n` did to an entity; its DEL, its dirty and its log event share a fate and are one
member of a queue. `stack`, `batch` and `left` follow `flush` through its calls for
references, `pc` through upserts and collecting (`build`), the statements of each pool in order
(`insert`, `update`, `delete`), the queues (`caches`) and the commit. A statement or a COMMIT may
fail. What the code lets go wrong has a name in the model, and the properties say that
it goes wrong for these reasons only:

- `kept`: a flusher used again after a failed flush or a rollback publishes the queue of
  writes that were undone, because `Clear` keeps the `redisFlusher`; the after-commit queues
  belong to the engine, so the commit of one pool publishes what another has open, and a
  flush outside transactions that takes the engine's flusher publishes it at once.
- `unsent`: the rollback of any pool drops the queues of all; a second flusher of the same
  transaction replaces the first one's; a panic leaves them behind.
- `torn`: one entity whose pool is in a transaction makes the whole flush count as inside
  one, and statements of other pools commit one by one; upserts run before the
  transaction of their flush; a plain `Flush` that panics keeps its UPDATEs for the next.
- `broken` (a value of `tx`): after a COMMIT that failed every call on the pool fails.
- `overflowed`: new entities that reference each other make `flush` call itself without end.

- `flush_tx` (3.7M states), five programs: one pool with flushers that are used once; two
  pools and two flushers; one pool with flushers that are used again; a reference into another
  pool with an upsert; a cycle. `ShownIsCommitted` and `CommittedIsPublished` are the two
  directions of "caches and queues hear of what was committed", with the exceptions above;
  `ExactlyCommitted` has no exception but supposes one pool and new flushers, as
  `Engine.Flush` uses them. `AllOrNothing`: a flush is written as a whole or not at all in each
  pool. `LeavesTransactionsAlone`: a flush never ends well a transaction that the program
  had begun. `EndsUnlessCyclic`. Three flushes let a third reuse what a first failed with
  and a second replaced; a fourth repeats one of these.

### LazyFlush

Event `n` is the n-th lazy flush: what it does to each of its rows (`"I"`, `"U"`, `"D"`).
Its updates come first, then one INSERT per table, then its deletes, as in
`flusher.flush`. `Digest` is followed through its two phases. In `inserts` there is
a goroutine per pool, which takes the insert events of its pool one by one through
`handleLazy`: `Query` (a statement, autocommit), `Clear` (`handleCache`) and `Ack`. In
`groups` there is one goroutine per pool and id modulo `lazyFlushModulo`: `Execute`
(all its statements, one transaction), then for each event `GroupAck` and `GroupClear`,
acknowledgement first. `left`, `at`, `ran` are the first kind's loop, `run` and `todo` the
second's. An event is an insert event if its *last* statement is an INSERT
(`lazyMap["o"]`), and goes to the pool of its *first* one. A statement that MySQL
refuses is let go by a resolver, or panics: past a deferred recover in a group, which
leaves `lazyError`; through the process in an insert goroutine, whose recover is not
deferred. A deadlock that is retried with success is `Execute`. The broker is as `EventBroker`
shows it for one consumer: the oldest events that are not acknowledged, again
after a panic or a crash, and the whole batch acknowledged when the handler returns.
A load whose GET missed is two steps, `LoadSelects` (it reads the row) and `LoadSets` (its
SET, whatever happened in between); `loads` are those under way, and each knows whether
a DEL of its key has `passed` it.

The history variables are `want` (the last value the program gave each row), `executed`,
`givenUp` (let go by a resolver), `uncleared` (acknowledged, but the process ended before
the DEL), `overtaken` (a load that a DEL had passed SET an old value), `poisoned` (an event failed that fails at each delivery: a duplicate
insert after a crash, or ids that cannot be looked up) and `reborn`.

- `lazy_flush_uuid` (1.1M states): two rows with uuids, whose keys the flush SETs ahead of the
  INSERT, in two pools, two flushes of one or two rows, one load under way, batches of two, one
  fault, a resolver.
  `AckedIsExecuted`: an acknowledged event ran, except that one spread over several groups is
  acknowledged by the first of them while another may still fail, by a fault or because an event
  mixes an insert with others (`Excused`). `RedisFollows`: a value
  in Redis is the committed one, or a DEL is to come, or it was lost in one of two windows. One is
  between `GroupAck` and `GroupClear`, when the process ends or a goroutine panics. That loses all
  keys of the event, those of other groups' rows too, because each group clears every key
  of an event after its own transaction and the first to acknowledge it may be the only one to have run
  (`Unfinished`). The other is between a load's SELECT and its SET, which has no time to live
  (`load_by_id.go:59`, `:74`): if the consumer's statement and its DEL both fall into it, the old value
  is there for good (`overtaken`), as in `EntityCache` (`late`). Nil values and the
  value of a uuid row that was SET ahead of its INSERT are exceptions of their own. `LastFlushWins`: when all
  is done each row has the value of its last flush, through redelivery, as long as
  inserts travel in events of their own.
- `lazy_flush_live` (93k states): ids from MySQL, in one pool, three flushes, no loads. `EventuallyDone`: every event is
  acknowledged, unless one is poisoned, which stops the consumer for all. Among the poisoned
  is an event of two new rows of one type: `handleCache` counts ids on from the first over a
  list that holds one (`background_consumer.go:417`), after the rows were inserted, and
  the process dies of it at each delivery.
- `lazy_flush_order` (violation): `LaterFlushIsSeen`. A row updated by one flush, and by a
  later one that also inserts another row, ends with the earlier value: insert events
  of a batch run before the others.

Two rows and two events are the least in which one flush spans two groups and is
overtaken by another, in the same batch or the next; with a third event, as in the runs without loads,
a batch is full. Rows and keys do not depend on each other's loads, so one load under way
is enough for the race of a load with a DEL. Fairness: weak fairness of the consumer as
a whole: goroutines go on, and `Digest` is called again after it returns or panics.

### CachedSearch

A row is what a unique index over `Name`, `Age` and the fake delete flag has of it. A list is a query and
its parameters; Redis keeps a hash of pages of it, a local cache the whole map of pages
under one key. `run` follows a search through its look-up (`Search`, both caches, or
what is missing of them), the SELECT, the two stores, and the return, and a writer from its
statement through the removal from the local cache to the DEL in Redis. `getCacheQueriesKeys`
is the code's: from the columns that a flush binds and the entity as it was before. `of` in
a cached value is the list the page was read of, `raced` marks a value whose search a removal
had overtaken.

- `cached_search` (0.5M states), seven programs; `RedisListsExplained` and
  `LocalListsExplained`: a page is of the list as the database has it, or one of the named
  reasons applies. Locally they are more: the list is removed before COMMIT
  (`flusher.go:353`), other processes are never told, a lazy update removes the list in the
  process that executes it. `AnswerIsPage`: a search answers with the part of the list
  that its pager asks for, whatever it found in the caches, if these are of one list. It has an
  exception for what the code does when the first page is cached and a later one is not:
  the rest is fetched with `OFFSET (minPage-1)*maxPage*pageSize` (`cached_search.go:125`), past
  the rows it needs, and the search answers with wrong rows or panics on its slice; and for engines
  with and without a request cache, which share the hash and have pages of different sizes.
  It also says when a search panics although its pages are right (`RunsPast`): a pager that starts past
  the end of the list, in the middle of a page of the cache, has a slice that ends before it
  starts (`cached_search.go:188`), because line 180 compares the start, counted from the first page that was read,
  with the rows of the whole list. In a list of two rows and pages of two ids that is page 4 of
  size 1; with 1000 ids, page 102 of size 10 of a list of 1005 rows.

`idsOnCachePage` is a constant (1000 in the code); cache pages of two ids and lists of up to four rows have first,
last, full, half-full and missing pages in every combination of three searches, and pagers that
start in the middle of a page of the cache, which pages of one id do not have.

### LoadByIDs

The rows are of one entity with a reference to itself, so that a reference of a reference can be
the entity that was asked for. `call` follows `tryByIDs` at level 0 and `warmUpReferences` at
levels 1 and 2: `local`, `redis`, `select`, the two fills in the order each of the two has,
and `filled`, where duplicates are placed and the next references found. `chain` is what is loaded of
each entity and below it. The other engine writes a row and then its caches, or clears the caches
by ids.

- `load_by_ids` (2.2M states), six programs (local cache of the process, request cache,
  Redis, each alone, none). `LoadedAsAsked`: every position has the entity of its id
  as some store had it during the call, duplicates included; "missing" is answered exactly if a
  position is empty; and a reference is left unloaded only if MySQL said that it has no row:
  the nil value of a cache is believed for ids that were asked for and not for references.
  `CopiesExplained`: the stale copies that loads leave behind are those that raced with a write.
  `ClearHeals`: `ClearCacheByIDs` mends them, if no load is on its way: it clears the local
  cache first, and a load between its two steps takes the old value back from Redis.

A reference that is not there is cached as nil in Redis, and without a time to live; a row
that is not there and was asked for is not cached. References that are loaded already are skipped with everything
below them, so `Load(e, "Ref/Ref")` after `Load(e, "Ref")` loads nothing.

### Fields

An entity with a field of the kind under test and, in a struct, an integer after it, which would
be read wrongly if a token too many or too few were written before. `go` is the struct, `bin` the
binary form as the sequence of what the serializer was given, `row` the columns, `cache` a copy
of the binary form. Assigning a field, `SetField`, insert, update, failing statements, loads
from the row and from the cache are actions. A Go time is an instant
in the Location of the process, `<< u >>`, or in another one, `<< u, UTC >>`, as `SetField` makes of an
RFC 3339 text (`orm.go:22`, `:968`) or the program assigns; the builder and the serializer take
its text and the start of its day from its own Location (`Text`, `InstantOf`), and what is loaded from a
row or a cache is in that of the process. Small numbers stand for the constants of the
code in proportion: a day of four seconds, a zero date before year 1000 before 1970.

- `fields` (0.49M states): every kind of field, optional, required or pointer, times and dates
  in processes of four zones and with a Location of their own. `CleanIsRow`: a field that is not dirty says what its column says.
  `SettledIsClean`: an entity just loaded or flushed is not dirty. `CacheIsRow`: a cached copy
  says what the row says. `BeforeIsRow`: the old values that logs and index keys are made from
  are the row's. Each holds for the values that survive (`IsKept`, `IsKeptColumn`), and these
  operators are the record of those that do not: times before 1970, times of the other
  season (the zone's offset is read once, at the start), sets with repeated or unknown members,
  unknown enum values. `unsaved` and `IsForgotten` are the rest: a float that changed by less than its
  precision enters the binary form with the next dirty field, the binary form is replaced
  before the UPDATE runs, bytes lose their old value in logs. A time of another Location is the
  last of these (`IsAbroad`): when its text is not what the process has for its instant, or its day
  does not begin with one of the process's, the row gets the text and the binary form the
  instant (`bind_builder.go:230`, `orm.go:358`), and caches and row say different times until it is written
  again. Such a field is recorded in `unsaved` and `stale` at its flush; a date of this kind that is
  loaded from a cache is dirty at once, as `time.Date` then finds another midnight
  (`bind_builder.go:243`).

### SchemaAlters

A release is a registry; `Columns`, `Keys` and `ForeignKeys` are what `checkStruct` and its
helpers make of it, `Alters` is `GetAlters` with its order and its `Safe`, `SchemaChanges` that of one
entity, `Altered` and `IsAccepted` are MySQL 8's rules (external). Between releases rows come, an
alter may fail half-way, somebody changes a foreign key by hand.

- `schema_alters` (0.24M states): ten releases, in sequences of three. `Converges`: after all alters were executed
  each entity has what it asks for and nothing else is left, except that the order of
  columns may need a second pass, and the default encoding a third. `RefusedIsExplained`:
  MySQL refuses an alter of `GetAlters` only when it changes a column that a foreign key
  holds; `UpdateSchema` alters columns before it drops foreign keys and knows one table, and
  safe alters may build on one that is not. `SafeLosesNothing`: what is called safe loses
  no row but those that came after it was called so.

## Proofs

For every value of the constants, TLAPS checks:

- `EventBrokerProofs`: `TypeCorrect`, `BrokerInvariant`, `NothingIsLost`,
  `PendingEntriesStay`, `Refinement` (the step simulation of `AtLeastOnce`),
  `ConsumersExclude`, `LocksAreKept`. `NothingLost` is not inductive: that the entries
  up to the collector's bound are acknowledged depends on what it read earlier
  about groups that have moved on. `BrokerInv` adds that a group's delivered
  entries are split into acknowledged and pending ones (`DeliveredOnce`), that a
  handler holds delivered entries only (`InHand`), and that what a collector read
  stays true however late it acts (`CollectorKnows`): delivery and
  acknowledgement only grow.
- `EntityCacheProofs`: `TypeCorrect`, `RedisStaleIsExplained`, `OwnWritesAreVisible`,
  `CachesAgreeAlone`. The invariant `CacheInv`
  ties each engine's value in hand to the database: a load's value equals the
  committed row unless the engine is marked `overtaken`, and a writer between
  commit and flush has its DEL or SET queued unless nothing was written. The last two theorems need
  `OwnersInv`: in each of the columns that an engine was the last to commit (`Mine`; all of them if
  nobody else writes), everything the engine has (its entity, its queued SET, its snapshot, a loaded value,
  its local cache, and Redis unless its own DEL is to come) agrees with the database. Its loads may put
  other columns' old values anywhere; only nobody else sets these. `OwnWritesAreVisible`
  assumes that the engines are in processes of their own (`EnginesApart`), as the run does: two engines of a process
  overwrite each other's local cache.
- `LazyFlushProofs`: `TypesHold`, `LazyInvariant`, `AckedIsDone`, `BatchHolds`,
  `RedisIsCommittedOrCleared`, `LastFlushIsKept`. That an acknowledged event ran
  is not inductive: `LazyInv` adds that each row of the batch is either still with the
  goroutine responsible for it, or done, or its group's failure is recorded in `lazyError`
  (`InsertsRun`, `GroupsRun`), and what each goroutine has behind it at its place in
  the code (`InsertGoroutines`, `GroupGoroutines`). `Outcome` is a recursion over the events of the
  batch; what it leaves of a row (`Follows`: the value of the last event that touches it, a row that was
  there unless something deletes it, no row inserted that was there) is proved for the least event
  at which it would fail.
  The last three theorems are on three more invariants. `BatchInv`: the batch is a beginning of the events not acknowledged, and each is with a
  goroutine that will acknowledge it. `RedisIs`: for each row that Redis has an old value of there is an
  event that is `Due`, in that somebody will clear the row *after* what he does to it: the event is not
  acknowledged, or the row's own group is past its transaction, or some group is at the
  clearing. The same is said of the value of a load under way (`Fits`); only a DEL takes the reason away,
  and it marks the load as passed. `RedisFollows` itself allows every event still in the hands of some group and is not inductive:
  a group that drops its last event would leave nobody. `Ordered` is for a program that is `Calm`, as
  `LastFlushWins` supposes. Its heart is `InOrder`: an event that was executed ahead of an earlier one on
  the same row (through a redelivery) is in the batch, or among those of the next, and not acknowledged, so that
  it will be run again behind it; `GroupInOrder` carries this to the events of one transaction. About inserts it says that
  one statement writes all rows of a pool (`RanWhole`, `Together`), that a row to insert is not there yet
  (`FreshIsNoRow`), hence that a duplicate was executed before (`GivenUpIsExecuted`); and that a row which the program wants
  and whose inserts ran exists (`InsertedExists`), so that an UPDATE finds it.
- `CachedSearchProofs`: `TypesHold`, `KeysCoverChanges`, `RedisListsAreExplained`,
  `LocalListsAreExplained`, `AnswersArePages`. The heart is `KeysCoverChanges`, a fact about
  `getCacheQueriesKeys` alone: a list whose key a write does not delete is the same list before
  and after it (`Same`, `SameList`). The invariant adds, for a search that has read, that its
  list is the database's or it is marked as raced; for an open transaction, that the keys
  of what it wrote are among its DELs to come (`TxOK`); and the excuses of each cached value.
  `AnswersArePages` rests on `Answers`, that every stored page is a piece of the list it is of at the place
  where its number says and that a search holds or is to select exactly the pages of its pager
  (`PageOf`, `Asking`), and on arithmetic of pages: neighbouring pieces of a list are one piece, by
  the least number of pages at which they would not be.
- `LoadByIDsProofs`: `TypeCorrect`, `LoadsAsAsked`, `CopiesAreExplained`, `ClearMends`. The
  invariant `IInv` says at each place of a call which ids have been looked for and where
  (`Stage`), that whatever is in hand or in a cache is the row or is excused (`Caches`), and
  that what is loaded was said during the call, level by level (`Loading`).
- `FlushTransactionProofs`: `TypeCorrect`, `FlushLeavesTransactionsAlone`,
  `OnlyCommittedIsShown`, `CommitsReachRedis`, `FlushIsAllOrNothing`, `CallsOfFlushEnd`,
  `CachesHearExactly`. The invariants, those after the first on top of it:
  - `Transactions` is about the stack of flush's calls (`Calls`): every call but the outermost
    runs inside a transaction, or finds a tracked entity of a pool that has one, and only the
    outermost, or the last, has entities to update or delete. From it follows that
    only the outermost call begins transactions, that a transaction which is open was open before or begun by
    this flush (`OpenedBy`), and that the engine holds a redisFlusher only while one is open (`HeldForCommit`).
  - `Backed` follows a write from the flusher's `updates` to its queues: what waits in
    `updates` has been executed or the last call on the stack is to execute it
    (`Statements`); what a flusher kept over a panic is excused in both kinds of queues
    (`LeftOver`); a queue holds committed, open or excused writes, or updates of
    the flush itself (`QueuesBacked`, `SetsBacked`). A call that shows its writes at once has no
    open transaction in its pools, because it is the outermost.
  - `Telling` goes the other way: every write that is committed, open, or built as an update is
    published, let go of, or in a queue that the engine or the flush still holds.
  - `Whole` says at each place of a flush
    that is not torn that everything it deals with is in a transaction (`Covered`), or that it has one
    statement only and none (`Lone`: one update, or one INSERT or DELETE done or to come); while it fails, that in
    each pool nothing is committed and the rollback will reach it, or that it is settled.
  - `Ends` bounds the depth
    of `flush`'s calls: a call for references is for entities at the end of a chain of new entities as long as
    its depth (`Chain`), and a chain without cycles is no longer than there are entities.
  - `Exact` is on top of both, for a program with one pool, flushers that are used once and no upserts:
    flushers that do not flush have no queues (`Dropped`), what the caches have heard is what is committed, but for
    what a flush without a transaction has done so far, and between flushes the engine holds exactly the writes that are open (`Heard`);
    the queues of the flush under way hold what it has built and what was open, and what it has yet to
    update is not committed (`Underway`); a call that is not a root never gets to queues of its own (`Rooted`).
- `FieldsProofs`: `TypeCorrect`, `CleanMeansWritten`, `FlushedIsClean`, `CachedIsWritten`,
  `OldIsWritten`, for any two fields of any kinds and flags and for any zone. The properties compare a
  Go value, a column and a binary form two at a time; the invariant `Inv` says of every field that
  each is of its kind (`Val`, `Col`, `Tok`), and that a column which is read for what it is agrees with
  the binary form that was written with it, for the database's (`FitsAll(bin, row, unsaved)`) and the
  cache's (`FitsAll(cache, row, stale)`). `Agrees` is equality with the binary form that the column
  would be loaded as, but for what kinds do not tell apart: half a unit of a number with a
  precision, the order of a set, the text of a JSON. `CleanIsRow` is not inductive, as an
  UPDATE writes the whole binary form and only dirty columns: a column that is written fits
  its binary form (`WrittenFits`), one that is left alone still does (`MeaningFits`), and
  what is not dirty is what the column says (`CleanSays`), kind by kind. `settled` adds that each field was encoded from, or
  decoded into, what the program has. The lemmas under it are a calculus of times: which
  instants a column and a binary form keep (`FormatIs`, `TimeTokenIs`, `TimesRead`, `KeptDayIs`).
  What the program has in a field is of `Held`, which adds times of another Location to `Val`; a
  time that is not `IsAbroad` is the time of the process with its instant (`NotAbroad`), and the lemmas
  about `Val` carry over to `Held` by it (`HeldEncodes`, `HeldWritten`, `HeldSays`, `HeldBefore`).
- `SchemaAltersProofs`: `TypeCorrect`, `RoundsConverge`, `RefusalsAreExplained`,
  `SafeAltersLoseNothing`, for any releases of any entities and any number of changes by hand. `Converges` speaks of
  the moment when nothing is left to execute; the invariant `SchemaInv` of what is left at every moment before:
  - each alter that is left still does what it was computed for (`IsPending`), though others were
    executed in between; there is one of a kind for a table, so none undoes what another did;
  - while all are executed, what an entity asks for is in its table or in an alter that is left
    (`WillHold`), and what nobody asks for is in an alter that drops it (`ForeignKeysOK`, `CompleteAt`);
    when none is left, everything is there (`EndsHolds`). A second round finds the columns
    of each table to be those of the entity in another order, and one ALTER sorts them (`AlteredColumnsAre`);
  - tables are of their type (`IsTable`): MySQL's own index of a foreign key has the foreign key's name,
    which no index of an entity has, and so neither is ever dropped for the other.

  `RefusalsAreExplained` goes through the statements one by one: a table is dropped when
  no foreign key refers to it any more (`DropAccepted`), an ALTER keeps an index for each foreign key
  that stays (`AlterAccepted`), and foreign keys find columns of one type in both tables, as all other
  alters were executed (`AddForeignAccepted`).
  The lemmas at the beginning are about sequences: selections, and what ALTER TABLE's columns that
  are put one after another come to.

Invariants over a recursive function or over sequences are proved without induction theorems: the
naturals are well-founded (`WFMin` of the library), so a set of counterexamples has a least
member, which has a predecessor that is none (`LeastNumber`).

Trying to prove them changed four definitions. `torn` has to be extended in the second branch of
`Build` too: a flush split in two is torn when only the pools of its own entities are outside a
transaction. `AnswerIsPage` did not say which searches may panic; with pages of one id no pager starts in the
middle of one. `Unfinished` counted the rows of one group only, and `RedisFollows` excused every
row of a uuid entity that was read, in place of the one whose insert is to come.

The assumptions are the ones in the modules: processes, names and engines are
related by functions, sizes are positive, an entity has a column, there are finitely many entities, a table's
rows are unique as its index has them, `None` is not a row, the programs in `Setups` are
programs, and in `FlushTransaction` there is a redisFlusher for a flusher that needs one
(`ObjectsSuffice`; the code allocates it). In `Fields` a day has more than one unit of time, the years 0 and 1000
begin at midnight and lie more than a day before 1970, and no zone is a day off (`DayAssumption`).
In `SchemaAlters` entities of a valid registry have tables and columns with names of their own, the first
column is the ID, references have its type and go to entities, and no two indexes have one name with different
columns (`ReleasesAssumption`, `IsEntity`; TLC checks it for the releases of the run). `MaxEvents`, `MaxFaults` and the other bounds are
arbitrary constants in the theorems.

Only model-checked: `EventuallyAcked` and `EventuallyDone` (liveness under fairness is out of the
prover's reach).

## Abstractions and what is left out

- One stream, one table per pool where values matter, one column per row in `LazyFlush` (an
  update that races another of a different column is not told apart).
- Time to live of cached values is eviction; clocks are nondeterministic.
- MySQL is InnoDB at REPEATABLE READ; DDL is MySQL 8's. Redis executes a pipeline or a script in one step.
- Ids that MySQL gives to a batch of inserted rows, and the text of statements, are not modelled.
- In `CachedSearch` two lists never share a key: the 32 bits of the hash are not modelled, nor is
  how parameters are printed into it (arguments of another type, repeated variables and
  conditions other than equality give keys that no write matches). A SELECT and its COUNT are one step.
- In `LoadByIDs` references to many, and references of several types, are not told apart; a reference's
  binary form is shared with the local cache (`load_by_ids.go:356`), which is not modelled.
- In `LazyFlush` an error in an insert goroutine is a duplicate; other errors there that a resolver
  accepts (`background_consumer.go:348`) are not modelled. Every property would excuse them, as it does
  a duplicate (`givenUp`).
- In `Fields` every Location but that of the process is `UTC`; structs are one level deep and texts are numbers,
  and a JSON value has one text in Go and one in MySQL; SetField of a pointer to a
  float is left out where it panics.
- In `SchemaAlters` a DROP TABLE comes before all ALTERs (`Rank`), where `schema.go:152` sorts both by the length
  of their SQL. Foreign keys are dropped before either, so the order of these does not matter to MySQL.

## Not modelled

- *Redis Search* (`redis_search.go`, `redis_search_indexer.go`, `entity_redis_search.go`): texts
  of FT commands and queries for a server module whose behaviour is nowhere in the
  source, and an indexer whose result only that module reads.
- *Redis commands and pipelines* (`redis_cache.go`, `redis_pipeline.go`): one wrapper per command,
  with logging; each is part of the actions that use it.
- *LRU of the local cache*: a library; it appears as eviction. *uuid*: one atomic increment.
- *Registry, YAML, validation*: start-up, without interleavings. Its results are constants.
- *`handleLog` and the log and dirty events inside a lazy event*: one INSERT each. That a flush publishes
  them exactly with its commit is in `FlushTransaction`.
- *Query loggers, statistics, tools*: formatting and reporting.

`PROJECT.json` lists each component with its status and each hazard with the properties that
cover it, or why none does.
