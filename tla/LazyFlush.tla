------------------------------ MODULE LazyFlush ------------------------------
(***************************************************************************)
(* Lazy flushes: FlushLazy leaves its statements in an event of the lazy   *)
(* stream (flusher.go), the background consumer executes a batch of events *)
(* with one goroutine per pool for inserts, then one per pool and modulo   *)
(* of the id for the rest, and clears the Redis keys of the rows           *)
(* (background_consumer.go).  The stream delivers an event until it is     *)
(* acknowledged, the oldest first, as EventBroker does for one consumer.   *)
(*                                                                         *)
(* Event n is the n-th flush, and writes the value n; 0 is what a row held *)
(* before.  A pool has one table.                                          *)
(***************************************************************************)
EXTENDS Integers, Sequences, FiniteSets

CONSTANTS
    Rows, Pools,
    PoolOf,      \* PoolOf[r]: the MySQL pool of row r
    IdOf,        \* IdOf[r]: its id
    Modulo,      \* lazyFlushModulo
    Ids,         \* where ids of new rows come from
    HasResolver, \* LazyFlushQueryErrorResolvers are registered, which may accept an error
    Count,       \* events per batch (500)
    MaxFlushes,  \* bound: flushes
    MaxRows,     \* bound: rows of one flush
    MaxLoads,    \* bound: loads between their SELECT and their SET
    MaxFaults    \* bound: statements that fail, processes that die

ASSUME RowsAssumption == PoolOf \in [Rows -> Pools] /\ IdOf \in [Rows -> Nat]
ASSUME SizesAssumption == Modulo \in Nat \ {0} /\ Count \in Nat \ {0}
ASSUME KindAssumption == Ids \in {"auto", "explicit", "uuid"} /\ HasResolver \in BOOLEAN

VARIABLES
    events,    \* events[n]: what flush n does to each of its rows
    acked,     \* acknowledged events
    db,        \* the value of each row
    redis,     \* its key in Redis
    loads,     \* loads of a row that have its value and are to SET it
    phase,     \* where Digest's handler is: "idle", "inserts", "groups"
    batch,     \* the events it was given
    left,      \* left[p]: insert events of pool p's goroutine, not yet done
    at,        \* at[p]: its place in the first of them
    ran,       \* ran[p]: rows of that event whose statement was run
    run,       \* run[g]: the place of group g's goroutine
    todo,      \* todo[g]: its events not yet acknowledged and cleared
    lazyError, \* a goroutine of a group panicked
    faults,    \* counter of the bound above
    want,      \* history: the value the program last gave each row
    executed,  \* history: <<n, r>>, the statements that took effect
    givenUp,   \* history: <<n, r>>, statements a resolver let go
    uncleared, \* history: rows whose event was acknowledged but never cleared
    overtaken, \* history: rows whose key a load SET to an old value after a DEL
    poisoned,  \* history: an event failed that will fail each time it is delivered
    reborn     \* history: a row was inserted again after its deletion

streamVars  == <<events, acked>>
insertVars  == <<left, at, ran>>
groupVars   == <<run, todo, lazyError>>
loadVars    == <<loads, overtaken>>
historyVars == <<want, executed, givenUp, uncleared, poisoned, reborn>>
vars == <<streamVars, db, redis, loadVars, phase, batch, insertVars, groupVars,
          faults, historyVars>>

NoRow == -1  \* no such row; in Redis the nil value
Miss  == -2  \* no such key in Redis

Groups == Pools \X (0 .. Modulo - 1)

\* MUTANT: the newest events first.
NewestN(S, n) == {i \in S : Cardinality({j \in S : j > i}) < n}

\* The lowest n members of S; the lowest, as a set.
FirstN(S, n) == {i \in S : Cardinality({j \in S : j < i}) < n}
Least(S) == {i \in S : \A j \in S : i <= j}

-----------------------------------------------------------------------------
(* What an event holds.                                                    *)

RowsOf(n) == DOMAIN events[n]
Inserted(n) == {r \in RowsOf(n) : events[n][r] = "I"}

\* The last statement added decides "o": deletes come after inserts, inserts
\* after updates.
IsInsert(n) == Inserted(n) # {} /\ \A r \in RowsOf(n) : events[n][r] # "D"

\* The pools the first statement of an insert event can be of.
FirstPools(n) ==
    {PoolOf[r] : r \in IF Inserted(n) = RowsOf(n) THEN Inserted(n)
                                                  ELSE RowsOf(n) \ Inserted(n)}

\* The group a statement goes to: an insert has the id 0.
GroupOf(n, r) ==
    <<PoolOf[r], IF events[n][r] = "I" THEN 0 ELSE IdOf[r] % Modulo>>

RowsIn(n, g) == {r \in RowsOf(n) : GroupOf(n, r) = g}

\* MUTANT: the keys of inserted rows only.
KeysInserted(n) == Inserted(n)

\* The keys in "cr": an inserted row's key is SET by the flush if it has a uuid.
Keys(n) == IF Ids = "uuid" THEN RowsOf(n) \ Inserted(n) ELSE RowsOf(n)

\* The effect of event n's statements on the rows S; an insert of a row that exists
\* is a duplicate.
Effect(n, S, d) ==
    [r \in Rows |->
        IF r \notin S THEN d[r]
        ELSE CASE events[n][r] = "I" -> n
               [] events[n][r] = "U" -> IF d[r] = NoRow THEN NoRow ELSE n
               [] events[n][r] = "D" -> NoRow]

Duplicate(n, S, d) == \E r \in S \cap Inserted(n) : d[r] # NoRow /\ Ids # "auto"

-----------------------------------------------------------------------------
Init ==
    /\ events = << >> /\ acked = {}
    /\ db \in [Rows -> {NoRow, 0}]
    /\ redis = [r \in Rows |-> Miss] /\ loads = {}
    /\ phase = "idle" /\ batch = {}
    /\ left = [p \in Pools |-> {}]
    /\ at = [p \in Pools |-> "query"]
    /\ ran = [p \in Pools |-> {}]
    /\ run = [g \in Groups |-> "done"]
    /\ todo = [g \in Groups |-> {}]
    /\ lazyError = FALSE
    /\ faults = 0
    /\ want = db /\ executed = {} /\ givenUp = {} /\ uncleared = {} /\ overtaken = {}
    /\ poisoned = FALSE /\ reborn = FALSE

(* The keys of the rows S are deleted: loads that have read one of them     *)
(* will SET it after all.                                                  *)
Passes(S) ==
    /\ loads' = {[l EXCEPT !.passed = @ \/ l.row \in S] : l \in loads}
    /\ overtaken' = overtaken \ S

\* MUTANT: an event that does not reach the stream.
FlushLazyLost(changes) ==
    LET n == Len(events) + 1 IN
    /\ n <= MaxFlushes
    /\ \A r \in DOMAIN changes : changes[r] = "U" /\ want[r] # NoRow
    /\ redis' = [r \in Rows |-> IF r \in DOMAIN changes THEN Miss ELSE redis[r]]
    /\ Passes(DOMAIN changes)
    /\ want' = [r \in Rows |-> IF r \in DOMAIN changes THEN n ELSE want[r]]
    /\ UNCHANGED <<streamVars, db, phase, batch, insertVars, groupVars, faults,
                   executed, givenUp, uncleared, poisoned, reborn>>

(* FlushLazy: the event is added to the stream and the keys are deleted or *)
(* set in one pipeline.  A row is updated or deleted if the program can    *)
(* load it.                                                                *)
FlushLazy(changes) ==
    LET n == Len(events) + 1
        fresh == {r \in DOMAIN changes : changes[r] = "I"}
        deleted == (DOMAIN changes \ fresh)
                   \cup IF Ids = "explicit" THEN fresh ELSE {} IN
    /\ n <= MaxFlushes
    /\ \A r \in fresh : want[r] = NoRow
    /\ \A r \in DOMAIN changes \ fresh :
          want[r] # NoRow /\ (Ids = "uuid" \/ db[r] # NoRow)
    /\ \A r \in fresh : Ids = "explicit" \/ \A i \in 1 .. Len(events) : r \notin RowsOf(i)
    /\ events' = Append(events, changes)
    /\ redis' = [r \in Rows |-> IF r \in deleted THEN Miss
                                ELSE IF r \in fresh /\ Ids = "uuid" THEN n ELSE redis[r]]
    /\ Passes(deleted)
    /\ want' = [r \in Rows |-> IF r \notin DOMAIN changes THEN want[r]
                               ELSE IF changes[r] = "D" THEN NoRow ELSE n]
    /\ uncleared' = uncleared \ deleted
    /\ reborn' = (reborn \/ \E r \in fresh, i \in 1 .. Len(events) : r \in RowsOf(i))
    /\ UNCHANGED <<acked, db, phase, batch, insertVars, groupVars, faults, executed,
                   givenUp, poisoned>>

(* A load whose GET missed, as every key does at first, reads the row and  *)
(* SETs its key later, whatever the key holds by then.                     *)
LoadSelects(r) ==
    /\ Cardinality(loads) < MaxLoads
    /\ loads' = loads \cup {[row |-> r, value |-> db[r], passed |-> FALSE]}
    /\ UNCHANGED <<streamVars, db, redis, overtaken, phase, batch, insertVars,
                   groupVars, faults, historyVars>>

LoadSets(l) ==
    /\ redis' = [redis EXCEPT ![l.row] = l.value]
    /\ loads' = loads \ {l}
    /\ overtaken' = IF l.passed /\ l.value # db[l.row] THEN overtaken \cup {l.row}
                                                      ELSE overtaken \ {l.row}
    /\ UNCHANGED <<streamVars, db, phase, batch, insertVars, groupVars, faults,
                   historyVars>>

\* Keys are evicted, or expire.
Evict(r) ==
    /\ redis[r] # Miss /\ redis' = [redis EXCEPT ![r] = Miss]
    /\ overtaken' = overtaken \ {r}
    /\ UNCHANGED <<streamVars, db, loads, phase, batch, insertVars, groupVars, faults,
                   historyVars>>

-----------------------------------------------------------------------------
(* Digest: a batch of the oldest events not acknowledged.                  *)

\* The goroutines are gone; what was not acknowledged is delivered again.
Restart ==
    /\ phase' = "idle" /\ batch' = {}
    /\ left' = [p \in Pools |-> {}]
    /\ at' = [p \in Pools |-> "query"]
    /\ ran' = [p \in Pools |-> {}]
    /\ run' = [g \in Groups |-> "done"]
    /\ todo' = [g \in Groups |-> {}]
    /\ lazyError' = FALSE

\* The rows of acknowledged events whose keys group g is still to clear.
Unfinished(g) ==
    IF run[g] \in {"ack", "clear"} THEN UNION {RowsOf(n) : n \in todo[g] \cap acked}
                                   ELSE {}

\* The process dies.
Die ==
    /\ Restart
    /\ uncleared' = uncleared \cup UNION {Unfinished(g) : g \in Groups}

Crash ==
    /\ phase # "idle" /\ faults < MaxFaults /\ faults' = faults + 1
    /\ Die
    /\ UNCHANGED <<streamVars, db, redis, loadVars, want, executed, givenUp, poisoned,
                   reborn>>

Take ==
    LET new == FirstN(1 .. Len(events) \ acked, Count) IN
    /\ phase = "idle" /\ new # {}
    /\ batch' = new
    /\ \E first \in [{n \in new : IsInsert(n)} -> Pools] :
          /\ \A n \in DOMAIN first : first[n] \in FirstPools(n)
          /\ left' = [p \in Pools |-> {n \in DOMAIN first : first[n] = p}]
    /\ phase' = "inserts"
    /\ UNCHANGED <<streamVars, db, redis, loadVars, at, ran, groupVars, faults,
                   historyVars>>

-----------------------------------------------------------------------------
(* The goroutine of the insert events of pool p: handleLazy on each.       *)

\* The rows of the next statement of event n: updates one by one, then one insert
\* per table.
NextStatements(n, S) ==
    IF S \subseteq Inserted(n)
    THEN {{r \in S : PoolOf[r] = q} : q \in {PoolOf[r] : r \in S}}
    ELSE {{r} : r \in S \ Inserted(n)}

\* handleQueries: an error no resolver accepts panics in a goroutine that has not
\* deferred its recover.
Query(p) ==
    \E n \in Least(left[p]) : \E S \in NextStatements(n, RowsOf(n) \ ran[p]) :
    /\ at[p] = "query"
    /\ \/ /\ ~Duplicate(n, S, db)
          /\ db' = Effect(n, S, db)
          /\ executed' = executed \cup ({n} \X S)
          /\ UNCHANGED givenUp
       \/ /\ Duplicate(n, S, db) /\ HasResolver
          /\ givenUp' = givenUp \cup ({n} \X S)
          /\ UNCHANGED <<db, executed>>
    /\ ran' = [ran EXCEPT ![p] = @ \cup S]
    /\ at' = [at EXCEPT ![p] = IF RowsOf(n) \subseteq ran'[p] THEN "clear" ELSE @]
    /\ UNCHANGED <<streamVars, redis, loadVars, phase, batch, left, groupVars, faults,
                   want, uncleared, poisoned, reborn>>

QueryPanics(p) ==
    \E n \in Least(left[p]) : \E S \in NextStatements(n, RowsOf(n) \ ran[p]) :
    /\ at[p] = "query"
    /\ Duplicate(n, S, db)
    /\ poisoned' = TRUE
    /\ Die
    /\ UNCHANGED <<streamVars, db, redis, loadVars, faults, want, executed, givenUp,
                   reborn>>

\* handleCache: keys of rows whose id was not known hold 0 and take their ids from
\* the results, of which there is one per statement.
IdsMissing(n) ==
    Ids = "auto" /\ \E r, s \in Inserted(n) : r # s /\ PoolOf[r] = PoolOf[s]

Clear(p) ==
    \E n \in Least(left[p]) :
    /\ at[p] = "clear" /\ ~IdsMissing(n)
    /\ redis' = [r \in Rows |-> IF r \in Keys(n) THEN Miss ELSE redis[r]]
    /\ Passes(Keys(n))
    /\ uncleared' = uncleared \ Keys(n)
    /\ at' = [at EXCEPT ![p] = "ack"]
    /\ UNCHANGED <<streamVars, db, phase, batch, left, ran, groupVars, faults, want,
                   executed, givenUp, poisoned, reborn>>

ClearPanics(p) ==
    \E n \in Least(left[p]) :
    /\ at[p] = "clear" /\ IdsMissing(n)
    /\ poisoned' = TRUE
    /\ Die
    /\ UNCHANGED <<streamVars, db, redis, loadVars, faults, want, executed, givenUp,
                   reborn>>

\* MUTANT: the goroutine handles its first event again and again.
AckStays(p) ==
    \E n \in Least(left[p]) :
    /\ at[p] = "ack"
    /\ acked' = acked \cup {n}
    /\ at' = [at EXCEPT ![p] = "query"]
    /\ ran' = [ran EXCEPT ![p] = {}]
    /\ UNCHANGED <<events, db, redis, loadVars, phase, batch, left, groupVars, faults,
                   historyVars>>

Ack(p) ==
    \E n \in Least(left[p]) :
    /\ at[p] = "ack"
    /\ acked' = acked \cup {n}
    /\ left' = [left EXCEPT ![p] = @ \ {n}]
    /\ at' = [at EXCEPT ![p] = "query"]
    /\ ran' = [ran EXCEPT ![p] = {}]
    /\ UNCHANGED <<events, db, redis, loadVars, phase, batch, groupVars, faults,
                   historyVars>>

\* wg.Wait, then a goroutine for each group of the other events' statements.
InsertsDone ==
    LET others == {n \in batch : ~IsInsert(n)} IN
    /\ phase = "inserts" /\ \A p \in Pools : left[p] = {}
    /\ todo' = [g \in Groups |-> {n \in others : RowsIn(n, g) # {}}]
    /\ run' = [g \in Groups |-> IF todo'[g] = {} THEN "done" ELSE "query"]
    /\ phase' = "groups"
    /\ UNCHANGED <<streamVars, db, redis, loadVars, batch, insertVars, lazyError,
                   faults, historyVars>>

-----------------------------------------------------------------------------
(* The goroutine of group g: the statements of its events in their order,  *)
(* in one transaction.                                                     *)

\* MUTANT: the statements of a group in the reverse order.
OutcomeReversed(g) ==
    LET last == Len(events)
        from[k \in 1 .. last + 1] ==
            IF k = last + 1 THEN [db |-> db, ok |-> TRUE]
            ELSE IF k \notin todo[g] THEN from[k + 1]
            ELSE [db |-> Effect(k, RowsIn(k, g), from[k + 1].db),
                  ok |-> from[k + 1].ok /\ ~Duplicate(k, RowsIn(k, g), from[k + 1].db)]
    IN from[1]

\* The database after the first k events, and whether none was a duplicate.
Outcome(g) ==
    LET upTo[k \in 0 .. Len(events)] ==
            IF k = 0 THEN [db |-> db, ok |-> TRUE]
            ELSE IF k \notin todo[g] THEN upTo[k - 1]
            ELSE [db |-> Effect(k, RowsIn(k, g), upTo[k - 1].db),
                  ok |-> upTo[k - 1].ok /\ ~Duplicate(k, RowsIn(k, g), upTo[k - 1].db)]
    IN upTo[Len(events)]

Statements(g) == UNION {{n} \X RowsIn(n, g) : n \in todo[g]}

Execute(g) ==
    /\ run[g] = "query" /\ Outcome(g).ok
    /\ db' = Outcome(g).db
    /\ executed' = executed \cup Statements(g)
    /\ run' = [run EXCEPT ![g] = "ack"]
    /\ UNCHANGED <<streamVars, redis, loadVars, phase, batch, insertVars, todo,
                   lazyError, faults, want, givenUp, uncleared, poisoned, reborn>>

\* MUTANT: the panic is recovered and not recorded.
PanicUnseen(g) ==
    /\ run' = [run EXCEPT ![g] = "done"]
    /\ todo' = [todo EXCEPT ![g] = {}]
    /\ UNCHANGED <<lazyError, givenUp>>

\* An error no resolver accepts: the goroutine panics.
Panic(g) ==
    /\ lazyError' = TRUE
    /\ run' = [run EXCEPT ![g] = "done"]
    /\ todo' = [todo EXCEPT ![g] = {}]
    /\ UNCHANGED givenUp

\* An error the resolver accepts: the goroutine goes on, its transaction rolled back.
LetGo(g) ==
    /\ HasResolver
    /\ givenUp' = givenUp \cup Statements(g)
    /\ run' = [run EXCEPT ![g] = "ack"]
    /\ UNCHANGED <<todo, lazyError>>

\* A statement is a duplicate ...
Refused(g) ==
    /\ run[g] = "query" /\ ~Outcome(g).ok
    /\ \/ LetGo(g) /\ UNCHANGED poisoned
       \/ Panic(g) /\ poisoned' = TRUE
    /\ UNCHANGED <<streamVars, db, redis, loadVars, phase, batch, insertVars, faults,
                   want, executed, uncleared, reborn>>

\* ... or fails for another reason, and again if that was a deadlock.
Fails(g) ==
    /\ run[g] = "query" /\ Outcome(g).ok
    /\ faults < MaxFaults /\ faults' = faults + 1
    /\ LetGo(g) \/ Panic(g)
    /\ UNCHANGED <<streamVars, db, redis, loadVars, phase, batch, insertVars, want,
                   executed, uncleared, poisoned, reborn>>

\* The goroutine acknowledges each event, whoever else executes a part of it ...
GroupAck(g) ==
    \E n \in Least(todo[g]) :
    /\ run[g] = "ack"
    /\ acked' = acked \cup {n}
    /\ run' = [run EXCEPT ![g] = "clear"]
    /\ UNCHANGED <<events, db, redis, loadVars, phase, batch, insertVars, todo,
                   lazyError, faults, historyVars>>

\* MUTANT: the goroutine returns after its first event.
GroupClearOnce(g) ==
    \E n \in Least(todo[g]) :
    /\ run[g] = "clear"
    /\ redis' = [r \in Rows |-> IF r \in Keys(n) THEN Miss ELSE redis[r]]
    /\ Passes(Keys(n))
    /\ uncleared' = uncleared \ Keys(n)
    /\ run' = [run EXCEPT ![g] = "done"]
    /\ todo' = [todo EXCEPT ![g] = {}]
    /\ UNCHANGED <<streamVars, db, phase, batch, insertVars, lazyError, givenUp,
                   faults, want, executed, poisoned, reborn>>

\* ... and clears its keys.
GroupClear(g) ==
    \E n \in Least(todo[g]) :
    /\ run[g] = "clear" /\ (Ids # "auto" \/ Inserted(n) = {})
    /\ redis' = [r \in Rows |-> IF r \in Keys(n) THEN Miss ELSE redis[r]]
    /\ Passes(Keys(n))
    /\ uncleared' = uncleared \ Keys(n)
    /\ run' = [run EXCEPT ![g] = IF todo[g] = {n} THEN "done" ELSE "ack"]
    /\ todo' = [todo EXCEPT ![g] = @ \ {n}]
    /\ UNCHANGED <<streamVars, db, phase, batch, insertVars, lazyError, givenUp,
                   faults, want, executed, poisoned, reborn>>

\* The id of a row inserted here is not known: the lookup panics.
GroupClearPanics(g) ==
    \E n \in Least(todo[g]) :
    /\ run[g] = "clear" /\ Ids = "auto" /\ Inserted(n) # {}
    /\ uncleared' = uncleared \cup Unfinished(g)
    /\ Panic(g)
    /\ UNCHANGED <<streamVars, db, redis, loadVars, phase, batch, insertVars, faults,
                   want, executed, poisoned, reborn>>

\* MUTANT: the handler returns whatever its goroutines met.
BatchDoneAlways ==
    /\ phase = "groups" /\ \A g \in Groups : run[g] = "done"
    /\ acked' = acked \cup batch
    /\ Restart
    /\ UNCHANGED <<events, db, redis, loadVars, faults, historyVars>>

\* wg.Wait: the handler panics with lazyError, or returns and the broker acknowledges
\* what it was given.
BatchDone ==
    /\ phase = "groups" /\ \A g \in Groups : run[g] = "done"
    /\ acked' = IF lazyError THEN acked ELSE acked \cup batch
    /\ Restart
    /\ UNCHANGED <<events, db, redis, loadVars, faults, historyVars>>

-----------------------------------------------------------------------------
Flushes == UNION {[S -> {"I", "U", "D"}] : S \in {S \in SUBSET Rows :
                                                   Cardinality(S) \in 1 .. MaxRows}}

Consumer ==
    \/ Take \/ InsertsDone \/ BatchDone
    \/ \E p \in Pools : \/ Query(p) \/ QueryPanics(p)
                         \/ Clear(p) \/ ClearPanics(p) \/ Ack(p)
    \/ \E g \in Groups : \/ Execute(g) \/ Refused(g) \/ GroupAck(g)
                          \/ GroupClear(g) \/ GroupClearPanics(g)

Next ==
    \/ \E changes \in Flushes : FlushLazy(changes)
    \/ \E r \in Rows : LoadSelects(r) \/ Evict(r)
    \/ \E l \in loads : LoadSets(l)
    \/ Consumer
    \/ \E g \in Groups : Fails(g)
    \/ Crash

Spec == Init /\ [][Next]_vars

\* Goroutines that can go on do, and a consumer that returned or panicked is called
\* again.
LiveSpec == Spec /\ WF_vars(Consumer)
-----------------------------------------------------------------------------
\* The values each variable may take.
TypeOK ==
    LET Numbers == 1 .. Len(events)
        Written == Numbers \X Rows IN
    /\ events \in Seq(Flushes) /\ acked \subseteq Numbers
    /\ db \in [Rows -> {NoRow} \cup 0 .. Len(events)]
    /\ redis \in [Rows -> {NoRow, Miss} \cup 0 .. Len(events)]
    /\ phase \in {"idle", "inserts", "groups"} /\ batch \subseteq Numbers
    /\ left \in [Pools -> SUBSET Numbers]
    /\ at \in [Pools -> {"query", "clear", "ack"}]
    /\ ran \in [Pools -> SUBSET Rows]
    /\ run \in [Groups -> {"done", "query", "ack", "clear"}]
    /\ todo \in [Groups -> SUBSET Numbers]
    /\ lazyError \in BOOLEAN /\ faults \in Nat
    /\ want \in [Rows -> {NoRow} \cup 0 .. Len(events)]
    /\ executed \subseteq Written /\ givenUp \subseteq Written
    /\ loads \subseteq [row : Rows, value : {NoRow} \cup 0 .. Len(events),
                         passed : BOOLEAN]
    /\ uncleared \subseteq Rows /\ overtaken \subseteq Rows
    /\ poisoned \in BOOLEAN /\ reborn \in BOOLEAN

Mixed(n) == Inserted(n) # {} /\ Inserted(n) # RowsOf(n)

\* The statements of event n run in goroutines of several groups.
Spans(n) == ~IsInsert(n) /\ \E r, s \in RowsOf(n) : GroupOf(n, r) # GroupOf(n, s)

\* A statement failed that no resolver let go: by a fault, or of an event that mixes an
\* insert with others, which fails each time.
Excused == faults > 0 \/ (poisoned /\ \E n \in 1 .. Len(events) : Mixed(n))

\* An event is acknowledged after its statements: what is acknowledged was executed
\* or let go by a resolver, except of an event spread over several groups, which the
\* first of them acknowledges while another is still to run, or has failed.
AckedIsExecuted ==
    \A n \in acked, r \in Rows :
        r \in RowsOf(n) =>
            \/ <<n, r>> \in executed \cup givenUp
            \/ Spans(n) /\ (n \in todo[GroupOf(n, r)] \/ Excused)

\* A value in Redis is the committed one, or an event that is not finished will clear
\* it, or: the process died, or panicked, between the acknowledgement and the
\* clearing; a load that had read an older value SET it after that clearing; a uuid
\* row was SET ahead of its insert; or it is the nil value of a uuid row that was
\* looked for before its insert, which expires.
RedisFollows ==
    \A r \in Rows :
        \/ redis[r] \in {Miss, db[r]}
        \/ \E n \in 1 .. Len(events) :
              r \in RowsOf(n) /\ (n \notin acked \/ \E g \in Groups : n \in todo[g])
        \/ r \in uncleared \/ r \in overtaken
        \/ Ids = "uuid" /\ redis[r] = NoRow
        \/ /\ Ids = "uuid" /\ redis[r] \in 1 .. Len(events)
           /\ r \in Inserted(redis[r]) /\ <<redis[r], r>> \notin executed

\* When all is done every row has the value of its last flush, through redelivery
\* after crashes and panics, as long as inserts travel alone, no row is inserted
\* again after its deletion and no fault met an event spread over groups.
LastFlushWins ==
    /\ acked = 1 .. Len(events) /\ phase = "idle"
    /\ givenUp \subseteq executed /\ ~reborn
    /\ \A n \in acked : ~Mixed(n) /\ (faults = 0 \/ ~Spans(n))
    => db = want

\* Every event is done in the end, unless one fails at each delivery.
EventuallyDone ==
    \A n \in 1 .. MaxFlushes : n <= Len(events) ~> (n \in acked \/ poisoned)

\* background_consumer_test.go:91: an update flushed before and one after an insert
\* leave the later value, whatever is flushed together.
LaterFlushIsSeen ==
    acked = 1 .. Len(events) /\ phase = "idle" /\ faults = 0 /\ ~reborn => db = want
=============================================================================
