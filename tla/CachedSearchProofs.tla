------------------------- MODULE CachedSearchProofs -------------------------
(* Theorems about CachedSearch, for any programs, engines and caches, any  *)
(* rows and any page size.                                                 *)
EXTENDS CachedSearch, FiniteSetTheorems, SequenceTheorems, WellFoundedInduction, TLAPS

(* A list stays as it is when each row stays in it or out of it, and those *)
(* in it keep what the list is sorted by.                                  *)

Same(k, r, s) ==
    /\ Matches(k, r) <=> Matches(k, s)
    /\ Matches(k, r) /\ Queries[k.query].order # <<>> => r.Age = s.Age

LEMMA SameRow == ASSUME NEW k, NEW r PROVE Same(k, r, r)
  BY DEF Same

LEMMA SameThrough ==
  ASSUME NEW k, NEW r, NEW s, NEW t, Same(k, r, s), Same(k, s, t)
  PROVE  Same(k, r, t)
  BY DEF Same

LEMMA SameList ==
  ASSUME NEW k, NEW T, NEW U, \A i \in Ids : Same(k, T[i], U[i])
  PROVE  ListOf(k, T) = ListOf(k, U)
  <1>1. FoundIn(k, T) = FoundIn(k, U)
    BY DEF FoundIn, Same
  <1>2. ASSUME NEW i \in FoundIn(k, T), NEW j \in FoundIn(k, T)
        PROVE  Before(k, T, j, i) <=> Before(k, U, j, i)
    <2>1. /\ Queries[k.query].order # <<>> => T[i].Age = U[i].Age
          /\ Queries[k.query].order # <<>> => T[j].Age = U[j].Age
      BY DEF FoundIn, Same
    <2> QED
      BY <2>1 DEF Before
  <1>3. ASSUME NEW i \in FoundIn(k, T)
        PROVE  {j \in FoundIn(k, T) : Before(k, T, j, i)} = {j \in FoundIn(k, U) : Before(k, U, j, i)}
    BY <1>1, <1>2
  <1>4. RankIn(k, T) = RankIn(k, U)
    BY <1>1, <1>3 DEF RankIn
  <1> QED
    BY <1>1, <1>4 DEF ListOf

-----------------------------------------------------------------------------
(* The keys that a write deletes are those of every list that it changes.  *)

LEMMA QueriesOnly ==
  ASSUME NEW i \in DOMAIN Queries
  PROVE  /\ Queries[i].where \in Seq({"Name", "Age"})
         /\ Queries[i].order = <<>> \/ "Age" \in Range(Queries[i].order)
  <1>1. i \in {"All", "List", "One"}
    BY DEF Queries
  <1>2. /\ Queries["All"].where = <<>> /\ Queries["All"].order = <<>>
        /\ Queries["List"].where = <<"Name">> /\ Queries["List"].order = <<"Age">>
        /\ Queries["One"].where = <<"Name", "Age">> /\ Queries["One"].order = <<>>
    BY DEF Queries
  <1>3. /\ <<>> \in Seq({"Name", "Age"})
        /\ <<"Name">> \in Seq({"Name", "Age"})
        /\ <<"Name", "Age">> \in Seq({"Name", "Age"})
    OBVIOUS
  <1>4. "Age" \in Range(<<"Age">>)
    <2>1. <<"Age">>[1] = "Age" /\ 1 \in DOMAIN <<"Age">>
      OBVIOUS
    <2> QED
      BY <2>1 DEF Range
  <1> QED
    BY <1>1, <1>2, <1>3, <1>4

LEMMA KeysShape ==
  ASSUME NEW k \in Keys, setup.queries \subseteq DOMAIN Queries
  PROVE  /\ k.query \in setup.queries /\ k.query \in DOMAIN Queries
         /\ k = [query |-> k.query, parameters |-> k.parameters]
  BY DEF Keys, KeysOf

\* The parameters of a key are those of the row with the columns that are written,
\* or those of the row as the entity had it.
LEMMA KeyForInserted ==
  ASSUME NEW i \in DOMAIN Queries, NEW r \in Row
  PROVE  KeyFor(i, r, r, FALSE) = [query |-> i, parameters |-> ParametersOf(Queries[i], r)]
  BY DEF KeyFor, QueryFields, ParametersOf

LEMMA KeyForUpdated ==
  ASSUME NEW i \in DOMAIN Queries, NEW old \in Row, NEW new \in Row
  PROVE  KeyFor(i, BindOf(old, new), old, FALSE) = [query |-> i, parameters |-> ParametersOf(Queries[i], new)]
  <1> DEFINE w == Queries[i].where
  <1>1. \A j \in 1 .. Len(w) : w[j] \in Columns
    BY QueriesOnly DEF Columns
  <1>2. ASSUME NEW j \in 1 .. Len(w)
        PROVE  (IF w[j] \in DOMAIN BindOf(old, new) /\ ~FALSE THEN BindOf(old, new)[w[j]] ELSE old[w[j]]) = new[w[j]]
    BY <1>1, <1>2 DEF BindOf
  <1> QED
    BY <1>2 DEF KeyFor, QueryFields, ParametersOf

LEMMA KeyForOld ==
  ASSUME NEW i \in DOMAIN Queries, NEW bind, NEW current
  PROVE  KeyFor(i, bind, current, TRUE) = [query |-> i, parameters |-> ParametersOf(Queries[i], current)]
  BY DEF KeyFor, QueryFields, ParametersOf

LEMMA MatchesItsKey ==
  ASSUME NEW k \in Keys, setup.queries \subseteq DOMAIN Queries, NEW r, Matches(k, r)
  PROVE  k = [query |-> k.query, parameters |-> ParametersOf(Queries[k.query], r)]
  BY KeysShape DEF Matches

LEMMA RowFields ==
  ASSUME NEW r \in Row
  PROVE  /\ DOMAIN r = Columns /\ IsRow(r)
         /\ r = [Name |-> r.Name, Age |-> r.Age, FakeDelete |-> r.FakeDelete]
  BY NoneAssumption DEF Row, Columns, IsRow

\* INSERT: the row comes into the lists of its values.
LEMMA InsertKeysCover ==
  ASSUME NEW k \in Keys, setup.queries \subseteq DOMAIN Queries, NEW r \in Row, k \notin InsertKeys(r)
  PROVE  Same(k, Unused, r)
  <1>0. k.query \in setup.queries /\ k.query \in DOMAIN Queries
    BY KeysShape
  <1>1. ASSUME Matches(k, r) PROVE FALSE
    <2>1. KeyFor(k.query, r, r, FALSE) = [query |-> k.query, parameters |-> ParametersOf(Queries[k.query], r)]
      BY <1>0, KeyForInserted
    <2>2. KeyFor(k.query, r, r, FALSE) = k
      BY <1>1, <2>1, MatchesItsKey
    <2> QED
      BY <1>0, <2>2 DEF InsertKeys, getCacheQueriesKeys
  <1>2. ~Matches(k, Unused)
    BY DEF Matches, IsRow
  <1> QED
    BY <1>1, <1>2 DEF Same

\* DELETE: the row leaves the lists of the values that the entity had.
LEMMA DeleteKeysCover ==
  ASSUME NEW k \in Keys, setup.queries \subseteq DOMAIN Queries, NEW r \in Row, k \notin DeleteKeys(r)
  PROVE  Same(k, r, Gone)
  <1>0. k.query \in setup.queries /\ k.query \in DOMAIN Queries
    BY KeysShape
  <1>1. ASSUME Matches(k, r) PROVE FALSE
    <2>1. KeyFor(k.query, <<>>, r, TRUE) = [query |-> k.query, parameters |-> ParametersOf(Queries[k.query], r)]
      BY <1>0, KeyForOld
    <2>2. KeyFor(k.query, <<>>, r, TRUE) = k
      BY <1>1, <2>1, MatchesItsKey
    <2> QED
      BY <1>0, <2>2 DEF DeleteKeys, getCacheQueriesKeys
  <1>2. ~Matches(k, Gone)
    BY DEF Matches, IsRow
  <1> QED
    BY <1>1, <1>2 DEF Same

\* UPDATE: the row leaves lists, comes into lists, or moves within one.
LEMMA UpdateKeysCover ==
  ASSUME NEW k \in Keys, setup.queries \subseteq DOMAIN Queries,
         NEW old \in Row, NEW new \in Row, ~old.FakeDelete, new.FakeDelete => setup.fake,
         k \notin UpdateKeys(old, new)
  PROVE  Same(k, old, new)
  <1> DEFINE q == Queries[k.query]
             bind == BindOf(old, new)
             touched == \/ setup.fake /\ "FakeDelete" \in DOMAIN bind
                        \/ TrackedFields(q) \cap DOMAIN bind # {}
  <1>1. k.query \in setup.queries /\ k.query \in DOMAIN Queries
    BY KeysShape
  <1>2. DOMAIN bind = {f \in Columns : old[f] # new[f]} /\ \A f \in DOMAIN bind : bind[f] = new[f]
    BY DEF BindOf
  <1>3. CASE touched
    <2>1. /\ KeyFor(k.query, bind, old, TRUE) \in UpdateKeys(old, new)
          /\ KeyFor(k.query, bind, old, FALSE) \in UpdateKeys(old, new)
      BY <1>1, <1>3 DEF UpdateKeys, getCacheQueriesKeys
    <2>2. KeyFor(k.query, bind, old, TRUE) = [query |-> k.query, parameters |-> ParametersOf(q, old)]
      BY <1>1, KeyForOld
    <2>3. KeyFor(k.query, bind, old, FALSE) = [query |-> k.query, parameters |-> ParametersOf(q, new)]
      BY <1>1, KeyForUpdated
    <2>4. ~Matches(k, old)
      BY <2>1, <2>2, MatchesItsKey
    <2>5. ~Matches(k, new)
      BY <2>1, <2>3, MatchesItsKey
    <2> QED
      BY <2>4, <2>5 DEF Same
  <1>4. CASE ~touched
    <2>1. \A f \in Range(q.where) \cup Range(q.order) : f \in Columns => old[f] = new[f]
      <3>1. Range(q.where) \cup Range(q.order) \subseteq TrackedFields(q)
        BY DEF TrackedFields
      <3> QED
        BY <1>2, <1>4, <3>1
    <2>2. ~new.FakeDelete
      BY <1>2, <1>4 DEF Columns
    <2>3. ParametersOf(q, old) = ParametersOf(q, new)
      <3>1. \A j \in 1 .. Len(q.where) : q.where[j] \in Range(q.where) /\ q.where[j] \in Columns
        <4>1. q.where \in Seq({"Name", "Age"})
          BY <1>1, QueriesOnly
        <4>2. \A j \in 1 .. Len(q.where) : j \in DOMAIN q.where /\ q.where[j] \in {"Name", "Age"}
          BY <4>1
        <4> QED
          BY <4>2 DEF Range, Columns
      <3> QED
        BY <2>1, <3>1 DEF ParametersOf
    <2>4. q.order # <<>> => old.Age = new.Age
      BY <1>1, <2>1, QueriesOnly DEF Columns
    <2> QED
      BY <2>2, <2>3, <2>4, RowFields DEF Same, Matches
  <1> QED
    BY <1>3, <1>4

-----------------------------------------------------------------------------
(* The inductive invariant.  Beside the two properties it says what a      *)
(* search brings to a cache, and what an open transaction will have to     *)
(* delete there.                                                           *)

RowOrNone == Row \cup {Unused, Gone}
TxType == [open : BOOLEAN, rows : UNION {[S -> RowOrNone] : S \in SUBSET Ids},
           dels : SUBSET Keys, stale : BOOLEAN]
Event == {x \in [id : Ids, old : Row, new : Row] :
            ~x.old.FakeDelete /\ (x.new.FakeDelete => setup.fake)}
Events == Seq(Event)

Types ==
    /\ setup \in Setups
    /\ rows \in [Ids -> RowOrNone]
    /\ tx \in [Engines -> TxType]
    /\ DOMAIN run = Engines /\ run = [e \in Engines |-> run[e]]
    /\ events \in Events

IsPage(v) ==
    /\ v = [total |-> v.total, ids |-> v.ids, of |-> v.of, first |-> v.first,
            size |-> v.size, raced |-> v.raced]
    /\ v.raced \in BOOLEAN

\* What the two properties allow.
Fresh(k, v, T) == v.raced \/ v.of = ListOf(k, T)
RedisExcused(k) == k \in lost \/ \E e \in Engines : k \in RedisToDo(e)
LocalExcused(c, k) ==
    <<c, k>> \in unseen \/ \E e \in Engines : LocalOf(e) = c /\ k \in LocalToDo(e)

RedisOK ==
    /\ setup.redis \/ redis = {}
    /\ \A x \in redis : /\ x.key \in Keys /\ IsPage(x.value)
                        /\ Fresh(x.key, x.value, rows) \/ RedisExcused(x.key)
LocalOK ==
    \A x \in local : /\ x.cache \in Caches /\ x.key \in Keys
                     /\ Fresh(x.key, x.value, rows) \/ LocalExcused(x.cache, x.key)

\* A search that is to fill a cache knows the list, or has been overtaken, or the list
\* is still to be deleted there.
Fills(at) == at \in {"keep", "store"}
Filling(e) ==
    /\ run[e] = [at |-> run[e].at, key |-> run[e].key, pager |-> run[e].pager,
                 missing |-> run[e].missing, found |-> run[e].found, raced |-> run[e].raced]
    /\ run[e].raced \in BOOLEAN
    /\ run[e].key \in Keys
    /\ \A p \in run[e].missing :
         /\ IsPage(run[e].found[p])
         /\ setup.redis => \/ run[e].raced \/ Fresh(run[e].key, run[e].found[p], rows)
                           \/ RedisExcused(run[e].key)
    /\ HasLocal(e) =>
         /\ IsPage(run[e].found[1])
         /\ \/ run[e].raced \/ Fresh(run[e].key, run[e].found[1], rows)
            \/ LocalExcused(LocalOf(e), run[e].key)

RunOK(e) ==
    /\ run[e].at \in {"idle", "select", "store", "keep", "answered", "loaded", "local", "redis"}
    /\ e \notin setup.engines => run[e].at = "idle"
    /\ run[e].at = "select" => run[e].key \in Keys /\ (HasLocal(e) => 1 \in run[e].missing)
    /\ run[e].at = "loaded" => run[e].id \in Ids /\ run[e].row \in Row /\ ~run[e].row.FakeDelete
    /\ run[e].at \in {"local", "redis"} =>
         run[e].keys \subseteq Keys /\ run[e] = Clears(run[e].keys, run[e].at, run[e].then)
    /\ run[e].at = "keep" => HasLocal(e)
    /\ run[e].at = "store" => setup.redis
    /\ Fills(run[e].at) => Filling(e)

\* What e will still add to the DELs that follow the COMMIT.
Pending(e) == IF run[e].at = "local" THEN run[e].keys ELSE {}
TxOK(e) ==
    /\ ~tx[e].open => tx[e] = Closed
    /\ tx[e].open => run[e].at # "redis" /\ (run[e].at = "local" => run[e].then = "none")
    /\ \A f \in Engines \ {e} : DOMAIN tx[e].rows \cap DOMAIN tx[f].rows = {}
    /\ ~tx[e].stale =>
         \A i \in DOMAIN tx[e].rows, k \in Keys :
           k \in tx[e].dels \cup Pending(e) \/ Same(k, rows[i], tx[e].rows[i])

Inv ==
    /\ Types /\ RedisOK /\ LocalOK
    /\ \A e \in Engines : RunOK(e) /\ TxOK(e)

LEMMA SetupOK ==
  ASSUME setup \in Setups
  PROVE  /\ setup.queries \subseteq DOMAIN Queries /\ setup.engines \subseteq Engines
         /\ setup.redis \in BOOLEAN /\ setup.fake \in BOOLEAN
         /\ setup.values \subseteq Row /\ \A r \in setup.values : ~r.FakeDelete
         /\ setup.rows \in [Ids -> Row \cup {Unused}]
         /\ \A e \in Engines : LocalOf(e) \in Caches \cup {None}
         /\ \A e \in setup.engines : setup.redis \/ HasLocal(e)
  BY SetupsAssumption DEF SetupType, LocalOf, HasLocal

LEMMA InvInit == Init => Inv
  <1> SUFFICES ASSUME Init PROVE Inv
    OBVIOUS
  <1>1. /\ run = [e \in Engines |-> Idle] /\ tx = [e \in Engines |-> Closed]
        /\ \A e \in Engines : run[e] = Idle /\ run[e].at = "idle" /\ tx[e] = Closed
    BY DEF Init, Idle
  <1>2. Closed \in TxType /\ DOMAIN Closed.rows = {}
    <2>1. <<>> \in [{} -> RowOrNone] /\ DOMAIN <<>> = {}
      OBVIOUS
    <2>2. <<>> \in UNION {[S -> RowOrNone] : S \in SUBSET Ids}
      BY <2>1
    <2> QED
      BY <2>1, <2>2 DEF Closed, TxType
  <1>3. Types
    <2>1. rows \in [Ids -> RowOrNone]
      BY SetupOK DEF Init, RowOrNone
    <2> QED
      BY <1>1, <1>2, <2>1 DEF Init, Types, Events
  <1>4. RedisOK /\ LocalOK
    BY DEF Init, RedisOK, LocalOK
  <1>5. ASSUME NEW e \in Engines PROVE RunOK(e) /\ TxOK(e)
    BY <1>1, <1>2 DEF RunOK, TxOK, Fills
  <1> QED
    BY <1>3, <1>4, <1>5 DEF Inv

-----------------------------------------------------------------------------
(* What a step may do.  One that deletes the lists D, or the pairs D of    *)
(* caches and lists, keeps the excuses of all others, and gives one to     *)
(* every list that it changes.                                             *)

RedisMoves(D) ==
    setup.redis =>
      \A k \in Keys : /\ RedisExcused(k) /\ k \notin D => RedisExcused(k)'
                      /\ ListOf(k, rows') # ListOf(k, rows) => RedisExcused(k)'
LocalMoves(D) ==
    \A c \in Caches, k \in Keys :
      /\ LocalExcused(c, k) /\ <<c, k>> \notin D => LocalExcused(c, k)'
      /\ ListOf(k, rows') # ListOf(k, rows) => LocalExcused(c, k)'

\* Of the other engines it disturbs only the searches for lists that it deletes.
RunMoves(f, D, E) ==
    \/ /\ run'[f] = run[f]
       /\ Fills(run[f].at) => (setup.redis => run[f].key \notin D) /\ <<LocalOf(f), run[f].key>> \notin E
    \/ Fills(run[f].at) /\ run'[f] = [run[f] EXCEPT !.raced = TRUE]

LEMMA RedisStep ==
  ASSUME Inv, setup' = setup, NEW D, RedisMoves(D), setup.redis \/ redis' = redis,
         \A x \in redis' : \/ x \in redis /\ x.key \notin D
                           \/ /\ x.key \in Keys /\ IsPage(x.value)
                              /\ Fresh(x.key, x.value, rows') \/ RedisExcused(x.key)'
  PROVE  RedisOK'
  <1>1. Keys' = Keys
    BY DEF Keys, KeysOf
  <1>2. CASE setup.redis
    <2>1. ASSUME NEW x \in redis'
          PROVE  /\ x.key \in Keys /\ IsPage(x.value)
                 /\ Fresh(x.key, x.value, rows') \/ RedisExcused(x.key)'
      <3>1. CASE x \in redis /\ x.key \notin D
        <4>1. x.key \in Keys /\ IsPage(x.value) /\ (Fresh(x.key, x.value, rows) \/ RedisExcused(x.key))
          BY <3>1 DEF Inv, RedisOK
        <4>2. Fresh(x.key, x.value, rows) => Fresh(x.key, x.value, rows') \/ RedisExcused(x.key)'
          BY <1>2, <4>1 DEF RedisMoves, Fresh
        <4>3. RedisExcused(x.key) => RedisExcused(x.key)'
          BY <1>2, <3>1, <4>1 DEF RedisMoves
        <4> QED
          BY <4>1, <4>2, <4>3
      <3> QED
        BY <2>1, <3>1
    <2> QED
      BY <1>1, <1>2, <2>1 DEF RedisOK, IsPage, Fresh
  <1>3. CASE ~setup.redis
    BY <1>1, <1>3 DEF Inv, RedisOK
  <1> QED
    BY <1>2, <1>3

LEMMA LocalStep ==
  ASSUME Inv, setup' = setup, NEW D, LocalMoves(D),
         \A x \in local' : \/ x \in local /\ <<x.cache, x.key>> \notin D
                           \/ /\ x.cache \in Caches /\ x.key \in Keys
                              /\ Fresh(x.key, x.value, rows') \/ LocalExcused(x.cache, x.key)'
  PROVE  LocalOK'
  <1>1. Keys' = Keys
    BY DEF Keys, KeysOf
  <1>2. ASSUME NEW x \in local'
        PROVE  /\ x.cache \in Caches /\ x.key \in Keys
               /\ Fresh(x.key, x.value, rows') \/ LocalExcused(x.cache, x.key)'
    <2>1. CASE x \in local /\ <<x.cache, x.key>> \notin D
      <3>1. /\ x.cache \in Caches /\ x.key \in Keys
            /\ Fresh(x.key, x.value, rows) \/ LocalExcused(x.cache, x.key)
        BY <2>1 DEF Inv, LocalOK
      <3>2. Fresh(x.key, x.value, rows) => Fresh(x.key, x.value, rows') \/ LocalExcused(x.cache, x.key)'
        BY <3>1 DEF LocalMoves, Fresh
      <3>3. LocalExcused(x.cache, x.key) => LocalExcused(x.cache, x.key)'
        BY <2>1, <3>1 DEF LocalMoves
      <3> QED
        BY <3>1, <3>2, <3>3
    <2> QED
      BY <1>2, <2>1
  <1> QED
    BY <1>1, <1>2 DEF LocalOK, Fresh

LEMMA FillingStep ==
  ASSUME Inv, setup' = setup, NEW D, NEW E, RedisMoves(D), LocalMoves(E),
         NEW f \in Engines, Fills(run[f].at), RunMoves(f, D, E)
  PROVE  Filling(f)'
  <1>1. Keys' = Keys
    BY DEF Keys, KeysOf
  <1>2. Filling(f) /\ f \in setup.engines
    BY DEF Inv, RunOK, Fills
  <1>3. HasLocal(f)' = HasLocal(f) /\ LocalOf(f)' = LocalOf(f) /\ (HasLocal(f) => LocalOf(f) \in Caches)
    BY SetupOK DEF HasLocal, LocalOf, Inv, Types
  <1>4. CASE run'[f] = [run[f] EXCEPT !.raced = TRUE]
    <2>1. run'[f] = [at |-> run[f].at, key |-> run[f].key, pager |-> run[f].pager,
                     missing |-> run[f].missing, found |-> run[f].found, raced |-> TRUE]
      BY <1>2, <1>4 DEF Filling
    <2> QED
      BY <1>1, <1>2, <1>3, <2>1 DEF Filling, IsPage
  <1>5. CASE /\ run'[f] = run[f]
             /\ setup.redis => run[f].key \notin D
             /\ <<LocalOf(f), run[f].key>> \notin E
    <2> DEFINE k == run[f].key
    <2>1. k \in Keys
      BY <1>2 DEF Filling
    <2>2. ASSUME NEW p \in run[f].missing, setup.redis
          PROVE  run[f].raced \/ Fresh(k, run[f].found[p], rows') \/ RedisExcused(k)'
      BY <1>2, <1>5, <2>1, <2>2 DEF Filling, RedisMoves, Fresh
    <2>3. ASSUME HasLocal(f)
          PROVE  run[f].raced \/ Fresh(k, run[f].found[1], rows') \/ LocalExcused(LocalOf(f), k)'
      BY <1>2, <1>3, <1>5, <2>1, <2>3 DEF Filling, LocalMoves, Fresh
    <2> QED
      BY <1>1, <1>2, <1>3, <1>5, <2>2, <2>3 DEF Filling, IsPage, Fresh, RedisExcused, LocalExcused
  <1> QED
    BY <1>4, <1>5 DEF RunMoves

LEMMA RunStep ==
  ASSUME Inv, setup' = setup, NEW D, NEW E, RedisMoves(D), LocalMoves(E),
         NEW f \in Engines, RunMoves(f, D, E)
  PROVE  RunOK(f)'
  <1>1. Keys' = Keys
    BY DEF Keys, KeysOf
  <1>2. RunOK(f) /\ (HasLocal(f)' = HasLocal(f)) /\ (Fills(run[f].at) => Filling(f) /\ Filling(f)')
    BY FillingStep DEF Inv, RunOK, HasLocal, LocalOf
  <1>3. run'[f].at = run[f].at /\ (~Fills(run[f].at) => run'[f] = run[f])
    <2>1. CASE Fills(run[f].at) /\ run'[f] = [run[f] EXCEPT !.raced = TRUE]
      BY <1>2, <2>1 DEF Filling
    <2> QED
      BY <2>1 DEF RunMoves
  <1> QED
    BY <1>1, <1>2, <1>3 DEF RunOK, Clears, Fills

\* The transaction of an engine whose rows nobody else can write.
LEMMA TxStep ==
  ASSUME Inv, setup' = setup, NEW f \in Engines, tx'[f] = tx[f],
         \A i \in DOMAIN tx[f].rows : rows'[i] = rows[i],
         run'[f].at = run[f].at, run[f].at = "local" => run'[f] = run[f],
         \A g \in Engines \ {f} : DOMAIN tx[f].rows \cap DOMAIN tx'[g].rows = {}
  PROVE  TxOK(f)'
  <1>1. Keys' = Keys
    BY DEF Keys, KeysOf
  <1>2. TxOK(f)
    BY DEF Inv
  <1>3. Pending(f)' = Pending(f)
    BY DEF Pending
  <1>4. ~tx[f].stale => \A i \in DOMAIN tx[f].rows, k \in Keys :
                          k \in tx[f].dels \cup Pending(f)' \/ Same(k, rows'[i], tx[f].rows[i])
    BY <1>2, <1>3 DEF TxOK
  <1> QED
    BY <1>1, <1>2, <1>4 DEF TxOK, Same, Matches

LEMMA StepKeepsInv ==
  ASSUME Inv, setup' = setup, Types', NEW e \in Engines, NEW D, NEW E,
         RedisMoves(D), LocalMoves(E), setup.redis \/ redis' = redis,
         \A x \in redis' : \/ x \in redis /\ x.key \notin D
                           \/ /\ x.key \in Keys /\ IsPage(x.value)
                              /\ Fresh(x.key, x.value, rows') \/ RedisExcused(x.key)',
         \A x \in local' : \/ x \in local /\ <<x.cache, x.key>> \notin E
                           \/ /\ x.cache \in Caches /\ x.key \in Keys
                              /\ Fresh(x.key, x.value, rows') \/ LocalExcused(x.cache, x.key)',
         \A f \in Engines \ {e} : RunMoves(f, D, E),
         RunOK(e)', \A f \in Engines : TxOK(f)'
  PROVE  Inv'
  <1>1. RedisOK' /\ LocalOK'
    BY RedisStep, LocalStep
  <1>2. \A f \in Engines : RunOK(f)'
    BY RunStep
  <1> QED
    BY <1>1, <1>2 DEF Inv

LEMMA RunMovesShape ==
  ASSUME Inv, NEW f \in Engines, NEW D, NEW E, RunMoves(f, D, E)
  PROVE  run'[f].at = run[f].at /\ (~Fills(run[f].at) => run'[f] = run[f])
  <1>1. Fills(run[f].at) => Filling(f)
    BY DEF Inv, RunOK
  <1> QED
    BY <1>1 DEF RunMoves, Filling

\* What the other engines are still to delete stays.
LEMMA OthersToDo ==
  ASSUME Inv, NEW f \in Engines, NEW D, NEW E, RunMoves(f, D, E), tx'[f].open = tx[f].open
  PROVE  RedisToDo(f)' = RedisToDo(f) /\ LocalToDo(f)' = LocalToDo(f)
  BY RunMovesShape DEF RedisToDo, LocalToDo, Fills

\* A step of e that changes no row and no cache entry but adds some.
LEMMA QuietMoves ==
  ASSUME Inv, setup' = setup, rows' = rows, lost' = lost, unseen' = unseen, NEW e \in Engines,
         \A f \in Engines \ {e} : RunMoves(f, {}, {}) /\ tx'[f].open = tx[f].open,
         RedisToDo(e) \subseteq RedisToDo(e)', LocalToDo(e) \subseteq LocalToDo(e)'
  PROVE  RedisMoves({}) /\ LocalMoves({})
  <1>1. \A f \in Engines : RedisToDo(f) \subseteq RedisToDo(f)' /\ LocalToDo(f) \subseteq LocalToDo(f)'
    BY OthersToDo
  <1>2. \A f \in Engines : LocalOf(f)' = LocalOf(f)
    BY DEF LocalOf
  <1>3. \A k : RedisExcused(k) => RedisExcused(k)'
    BY <1>1 DEF RedisExcused
  <1>4. \A c, k : LocalExcused(c, k) => LocalExcused(c, k)'
    BY <1>1, <1>2 DEF LocalExcused
  <1> QED
    BY <1>3, <1>4 DEF RedisMoves, LocalMoves

\* A step of a search, or of a program between its flushes.
LEMMA QuietStep ==
  ASSUME Inv, setup' = setup, rows' = rows, lost' = lost, unseen' = unseen, events' = events,
         tx' = tx, NEW e \in Engines, NEW r, run' = [run EXCEPT ![e] = r],
         run[e].at \notin {"local", "redis"}, r.at \notin {"local", "redis"}, RunOK(e)',
         setup.redis \/ redis' = redis,
         \A x \in redis' : \/ x \in redis
                           \/ /\ x.key \in Keys /\ IsPage(x.value)
                              /\ Fresh(x.key, x.value, rows) \/ RedisExcused(x.key),
         \A x \in local' : \/ x \in local
                           \/ /\ x.cache \in Caches /\ x.key \in Keys
                              /\ Fresh(x.key, x.value, rows) \/ LocalExcused(x.cache, x.key)
  PROVE  Inv'
  <1>1. run'[e] = r /\ \A f \in Engines \ {e} : run'[f] = run[f]
    BY DEF Inv, Types
  <1>2. Types'
    <2>1. Keys' = Keys /\ TxType' = TxType /\ Events' = Events
      BY DEF Keys, KeysOf, TxType, Events, Event
    <2>2. DOMAIN run' = Engines /\ run' = [f \in Engines |-> run'[f]]
      BY DEF Inv, Types
    <2> QED
      BY <2>1, <2>2 DEF Inv, Types
  <1>3. \A f \in Engines \ {e} : RunMoves(f, {}, {})
    BY <1>1 DEF RunMoves
  <1>4. RedisToDo(e) = {} /\ LocalToDo(e) = {}
    BY DEF RedisToDo, LocalToDo
  <1>5. RedisMoves({}) /\ LocalMoves({})
    BY <1>3, <1>4, QuietMoves
  <1>6. ASSUME NEW f \in Engines PROVE TxOK(f)'
    <2>1. (run'[f].at = run[f].at /\ (run[f].at = "local" => run'[f] = run[f])) \/ f = e
      BY <1>1
    <2>2. CASE f # e
      BY <1>1, <2>2, TxStep DEF Inv, TxOK
    <2>3. CASE f = e
      <3>1. Keys' = Keys
        BY DEF Keys, KeysOf
      <3>2. Pending(e) = {} /\ Pending(e)' = {}
        BY <1>1 DEF Pending
      <3>3. TxOK(e)
        BY DEF Inv
      <3> QED
        BY <2>3, <3>1, <3>2, <3>3 DEF TxOK, Same, Matches
    <2> QED
      BY <2>2, <2>3
  <1>7. \A x \in redis' : \/ x \in redis /\ x.key \notin {}
                          \/ /\ x.key \in Keys /\ IsPage(x.value)
                             /\ Fresh(x.key, x.value, rows') \/ RedisExcused(x.key)'
    <2>1. \A k : RedisExcused(k) => RedisExcused(k)'
      <3>1. \A f \in Engines : RedisToDo(f) \subseteq RedisToDo(f)'
        BY <1>3, <1>4, OthersToDo
      <3> QED
        BY <3>1 DEF RedisExcused
    <2> QED
      BY <2>1
  <1>8. \A x \in local' : \/ x \in local /\ <<x.cache, x.key>> \notin {}
                          \/ /\ x.cache \in Caches /\ x.key \in Keys
                             /\ Fresh(x.key, x.value, rows') \/ LocalExcused(x.cache, x.key)'
    <2>1. \A c, k : LocalExcused(c, k) => LocalExcused(c, k)'
      <3>1. \A f \in Engines : LocalToDo(f) \subseteq LocalToDo(f)' /\ LocalOf(f)' = LocalOf(f)
        BY <1>3, <1>4, OthersToDo DEF LocalOf
      <3> QED
        BY <3>1 DEF LocalExcused
    <2> QED
      BY <2>1
  <1> QED
    BY <1>2, <1>3, <1>5, <1>6, <1>7, <1>8, StepKeepsInv

-----------------------------------------------------------------------------
(* Searches.                                                               *)

LEMMA AnsweredRun ==
  ASSUME Inv, NEW e \in Engines, NEW k, NEW r, NEW found, NEW totals, Answered(e, k, r, found, totals)
  PROVE  \E x : run' = [run EXCEPT ![e] = x] /\ x.at = "answered"
  <1>1. PICK total \in totals :
          run' = [run EXCEPT ![e] =
                    [at |-> "answered", key |-> k, pager |-> r, found |-> found,
                     answer |-> IF IsOne(k) THEN [total |-> Len(found[1].ids), ids |-> found[1].ids, panics |-> FALSE]
                                ELSE Answer(r, PageSize(e), found, total)]]
    BY DEF Answered
  <1> DEFINE x == [at |-> "answered", key |-> k, pager |-> r, found |-> found,
                   answer |-> IF IsOne(k) THEN [total |-> Len(found[1].ids), ids |-> found[1].ids, panics |-> FALSE]
                              ELSE Answer(r, PageSize(e), found, total)]
  <1>2. run' = [run EXCEPT ![e] = x]
    BY <1>1
  <1>3. x.at = "answered"
    OBVIOUS
  <1> HIDE DEF x
  <1> QED
    BY <1>2, <1>3

LEMMA AnsweredOK ==
  ASSUME Inv, NEW e \in setup.engines, NEW x, setup' = setup, run' = [run EXCEPT ![e] = x],
         x.at \in {"answered", "idle"}
  PROVE  RunOK(e)'
  <1>1. run'[e] = x
    BY SetupOK DEF Inv, Types
  <1> QED
    BY <1>1 DEF RunOK, Fills

LEMMA SearchKeysOK == Inv => SearchKeys \subseteq Keys
  <1> SUFFICES ASSUME Inv PROVE SearchKeys \subseteq Keys
    OBVIOUS
  <1>1. setup.values \cup (Range(setup.rows) \ {Unused}) \subseteq Row
    BY SetupOK DEF Inv, Types, Range
  <1> QED
    BY <1>1 DEF SearchKeys, Keys, KeysOf

LEMMA OvertakenOK ==
  ASSUME NEW v, IsPage(v), NEW r \in BOOLEAN
  PROVE  /\ IsPage(Overtaken(v, r)) /\ Overtaken(v, r).of = v.of
         /\ Overtaken(v, r).raced = (v.raced \/ r)
  <1>1. Overtaken(v, r) = [total |-> v.total, ids |-> v.ids, of |-> v.of, first |-> v.first,
                           size |-> v.size, raced |-> v.raced \/ r]
    BY DEF Overtaken, IsPage
  <1>2. (v.raced \/ r) \in BOOLEAN
    OBVIOUS
  <1> QED
    BY <1>1, <1>2 DEF IsPage

LEMMA LateOK ==
  ASSUME NEW k, NEW v, IsPage(v)
  PROVE  IsPage(Late(k, v)) /\ Fresh(k, Late(k, v), rows)
  <1> DEFINE r == v.of # ListOf(k, rows)
  <1>1. r \in BOOLEAN
    OBVIOUS
  <1>2. IsPage(Overtaken(v, r)) /\ Overtaken(v, r).of = v.of /\ Overtaken(v, r).raced = (v.raced \/ r)
    BY <1>1, OvertakenOK
  <1>3. Fresh(k, Overtaken(v, r), rows)
    BY <1>2 DEF Fresh
  <1> QED
    BY <1>2, <1>3 DEF Late

LEMMA FoundInRedisOK ==
  ASSUME Inv, NEW k, NEW pages
  PROVE  /\ DOMAIN FoundInRedis(k, pages) \subseteq pages
         /\ \A p \in DOMAIN FoundInRedis(k, pages) : IsPage(FoundInRedis(k, pages)[p])
  BY DEF FoundInRedis, Inv, RedisOK

LEMMA SearchStep == ASSUME Inv, NEW e \in setup.engines, Search(e) PROVE Inv'
  <1>1. e \in Engines /\ run[e].at = "idle"
    BY SetupOK DEF Search, Inv, Types
  <1>2. PICK k \in SearchKeys, r \in setup.pagers \cup {Single} :
          LET pages == PagesFor(e, k, r)
              found == FoundInRedis(k, pages)
          IN  \/ Hit(e, k, r)
              \/ DOMAIN found = pages /\ RedisHit(e, k, r, found)
              \/ DOMAIN found # pages /\ Misses(e, k, r, pages, found)
    BY DEF Search
  <1> DEFINE pages == PagesFor(e, k, r)
             found == FoundInRedis(k, pages)
  <1>3. k \in Keys
    BY SearchKeysOK
  <1>4. setup' = setup /\ rows' = rows /\ lost' = lost /\ unseen' = unseen /\ events' = events
        /\ tx' = tx /\ redis' = redis /\ local' = local
    BY DEF Search, cacheVars
  <1>5. Keys' = Keys /\ (HasLocal(e)' = HasLocal(e))
    BY <1>4 DEF Keys, KeysOf, HasLocal, LocalOf
  <1>6. HasLocal(e) => 1 \in pages
    BY DEF PagesFor
  <1>7. DOMAIN found \subseteq pages /\ \A p \in DOMAIN found : IsPage(found[p])
    BY FoundInRedisOK
  <1> HIDE DEF pages, found
  <1>8. ASSUME NEW x, run' = [run EXCEPT ![e] = x], x.at = "answered" PROVE Inv'
    BY <1>1, <1>4, <1>8, AnsweredOK, QuietStep
  <1>9. CASE Hit(e, k, r)
    BY <1>1, <1>8, <1>9, AnsweredRun DEF Hit
  <1>10. CASE DOMAIN found = pages /\ RedisHit(e, k, r, found)
    <2>1. CASE ~(HasLocal(e) /\ ~IsOne(k))
      BY <1>1, <1>8, <1>10, <2>1, AnsweredRun DEF RedisHit
    <2>2. CASE HasLocal(e) /\ ~IsOne(k)
      <3> DEFINE x == [at |-> "keep", key |-> k, pager |-> r, missing |-> {},
                       found |-> [p \in DOMAIN found |-> Late(k, found[p])], raced |-> FALSE]
      <3>1. run' = [run EXCEPT ![e] = x]
        BY <1>10, <2>2 DEF RedisHit
      <3>2. x.found[1] = Late(k, found[1]) /\ IsPage(found[1])
        BY <1>6, <1>7, <1>10, <2>2
      <3>3. IsPage(x.found[1]) /\ Fresh(k, x.found[1], rows)
        BY <3>2, LateOK
      <3>4. /\ x = [at |-> x.at, key |-> x.key, pager |-> x.pager, missing |-> x.missing,
                    found |-> x.found, raced |-> x.raced]
            /\ x.at = "keep" /\ x.key = k /\ x.missing = {} /\ x.raced = FALSE
        OBVIOUS
      <3> HIDE DEF x
      <3>5. run'[e] = x
        BY <1>1, <3>1 DEF Inv, Types
      <3>6. Filling(e)'
        BY <1>3, <1>4, <1>5, <3>3, <3>4, <3>5 DEF Filling, Fresh, IsPage
      <3>7. RunOK(e)'
        BY <1>4, <1>5, <2>2, <3>4, <3>5, <3>6 DEF RunOK, Fills
      <3> QED
        BY <1>1, <1>4, <3>1, <3>4, <3>7, QuietStep
    <2> QED
      BY <2>1, <2>2
  <1>11. CASE DOMAIN found # pages /\ Misses(e, k, r, pages, found)
    <2> DEFINE x == [at |-> "select", key |-> k, pager |-> r,
                     missing |-> pages \ DOMAIN found, found |-> found]
    <2>1. run' = [run EXCEPT ![e] = x]
      BY <1>11 DEF Misses
    <2>2. HasLocal(e) => 1 \in x.missing
      <3>1. HasLocal(e) => pages = {1}
        BY DEF PagesFor, pages
      <3> QED
        BY <1>7, <1>11, <3>1
    <2>3. x.at = "select" /\ x.key = k
      OBVIOUS
    <2> HIDE DEF x
    <2>4. run'[e] = x
      BY <1>1, <2>1 DEF Inv, Types
    <2>5. RunOK(e)'
      BY <1>3, <1>4, <1>5, <2>2, <2>3, <2>4 DEF RunOK, Fills
    <2> QED
      BY <1>1, <1>4, <2>1, <2>3, <2>5, QuietStep
  <1> QED
    BY <1>2, <1>9, <1>10, <1>11 DEF pages, found

LEMMA PageOK ==
  ASSUME NEW p, NEW missing, NEW size, NEW ids, NEW raced \in BOOLEAN
  PROVE  /\ IsPage(Page(p, missing, size, ids, raced))
         /\ Page(p, missing, size, ids, raced).of = ids
         /\ raced => Page(p, missing, size, ids, raced).raced
  BY DEF Page, IsPage

LEMMA SelectStep == ASSUME Inv, NEW e \in setup.engines, Select(e) PROVE Inv'
  <1> DEFINE k == run[e].key
             ids == ListOf(k, View(e))
             size == IF IsOne(k) THEN 1 ELSE PageSize(e)
             missing == run[e].missing
             filled == [p \in missing \cup DOMAIN run[e].found |->
                          IF p \in missing THEN Page(p, missing, size, ids, ids # ListOf(k, rows))
                          ELSE run[e].found[p]]
             x == [at |-> "answered", key |-> k, pager |-> run[e].pager, found |-> filled,
                   answer |-> [total |-> Len(ids), ids |-> <<>>, panics |-> TRUE]]
             y == [at |-> IF HasLocal(e) /\ (IsOne(k) \/ ~setup.redis) THEN "keep" ELSE "store",
                   key |-> k, pager |-> run[e].pager, missing |-> missing,
                   found |-> filled, raced |-> FALSE]
  <1>1. e \in Engines /\ run[e].at = "select"
    BY SetupOK DEF Select, Inv, Types
  <1>2. setup' = setup /\ rows' = rows /\ lost' = lost /\ unseen' = unseen /\ events' = events
        /\ tx' = tx /\ redis' = redis /\ local' = local
    BY DEF Select, cacheVars
  <1>3. Keys' = Keys /\ (HasLocal(e)' = HasLocal(e))
    BY <1>2 DEF Keys, KeysOf, HasLocal, LocalOf
  <1>4. k \in Keys /\ (HasLocal(e) => 1 \in missing)
    BY <1>1 DEF Inv, RunOK
  <1>5. run' = [run EXCEPT ![e] = x] \/ run' = [run EXCEPT ![e] = y]
    BY DEF Select
  <1>6. CASE run' = [run EXCEPT ![e] = x]
    <2>1. x.at = "answered"
      OBVIOUS
    <2> HIDE DEF x
    <2> QED
      BY <1>1, <1>2, <1>6, <2>1, AnsweredOK, QuietStep
  <1>7. CASE run' = [run EXCEPT ![e] = y]
    <2>1. ASSUME NEW p \in missing PROVE IsPage(filled[p]) /\ Fresh(k, filled[p], rows)
      <3> DEFINE raced == ids # ListOf(k, rows)
      <3>1. filled[p] = Page(p, missing, size, ids, raced) /\ raced \in BOOLEAN
        BY <2>1
      <3>2. raced <=> ids # ListOf(k, rows)
        OBVIOUS
      <3> HIDE DEF filled, ids, size, missing, k, raced
      <3>3. IsPage(filled[p]) /\ filled[p].of = ids /\ (raced => filled[p].raced)
        BY <3>1, PageOK
      <3>4. Fresh(k, filled[p], rows)
        BY <3>2, <3>3 DEF Fresh
      <3> QED
        BY <3>3, <3>4
    <2>2. /\ y = [at |-> y.at, key |-> y.key, pager |-> y.pager, missing |-> y.missing,
                  found |-> y.found, raced |-> y.raced]
          /\ y.key = k /\ y.missing = missing /\ y.found = filled /\ y.raced = FALSE
          /\ y.at = IF HasLocal(e) /\ (IsOne(k) \/ ~setup.redis) THEN "keep" ELSE "store"
      OBVIOUS
    <2> HIDE DEF y, filled, missing, k
    <2>3. run'[e] = y
      BY <1>1, <1>7 DEF Inv, Types
    <2>4. Filling(e)'
      BY <1>2, <1>3, <1>4, <2>1, <2>2, <2>3 DEF Filling, Fresh, IsPage
    <2>5. setup.redis \/ HasLocal(e)
      BY SetupOK DEF Inv, Types
    <2>6. RunOK(e)'
      BY <1>2, <1>3, <2>2, <2>3, <2>4, <2>5 DEF RunOK, Fills
    <2>7. y.at \notin {"local", "redis"}
      BY <2>2
    <2> QED
      BY <1>1, <1>2, <1>7, <2>6, <2>7, QuietStep
  <1> QED
    BY <1>5, <1>6, <1>7

\* What is left of a search when one of the caches is filled.
LEMMA DoneRun ==
  ASSUME Inv, NEW e \in setup.engines, Fills(run[e].at), setup' = setup, rows' = rows,
         lost' = lost, unseen' = unseen, tx' = tx,
         NEW next \in {"keep", "store", "answered"}, Done(e, next),
         next = "keep" => HasLocal(e), next = "store" => setup.redis
  PROVE  /\ \E x : run' = [run EXCEPT ![e] = x] /\ x.at \notin {"local", "redis"}
         /\ RunOK(e)'
  <1>1. e \in Engines /\ Filling(e)
    BY SetupOK DEF Inv, Types, RunOK
  <1>2. CASE next = "answered"
    <2>1. PICK x : run' = [run EXCEPT ![e] = x] /\ x.at = "answered"
      BY <1>1, <1>2, AnsweredRun DEF Done
    <2> QED
      BY <2>1, AnsweredOK
  <1>3. CASE next # "answered"
    <2> DEFINE x == [run[e] EXCEPT !.at = next]
    <2>1. run' = [run EXCEPT ![e] = x]
      BY <1>3 DEF Done
    <2>2. /\ x = [at |-> next, key |-> run[e].key, pager |-> run[e].pager,
                  missing |-> run[e].missing, found |-> run[e].found, raced |-> run[e].raced]
      BY <1>1 DEF Filling
    <2>3. x.at = next /\ x.key = run[e].key /\ x.missing = run[e].missing /\ x.found = run[e].found
          /\ x.raced = run[e].raced
      BY <2>2
    <2>4. x = [at |-> x.at, key |-> x.key, pager |-> x.pager, missing |-> x.missing,
               found |-> x.found, raced |-> x.raced]
      BY <2>2
    <2> HIDE DEF x
    <2>5. run'[e] = x /\ \A f \in Engines \ {e} : run'[f] = run[f]
      BY <1>1, <2>1 DEF Inv, Types
    <2>6. Keys' = Keys /\ (HasLocal(e)' = HasLocal(e)) /\ LocalOf(e)' = LocalOf(e)
      BY DEF Keys, KeysOf, HasLocal, LocalOf
    <2>7. \A f \in Engines : RedisToDo(f) \subseteq RedisToDo(f)' /\ LocalToDo(f) \subseteq LocalToDo(f)'
                             /\ LocalOf(f)' = LocalOf(f)
      BY <1>1, <2>5 DEF RedisToDo, LocalToDo, LocalOf, Fills
    <2>8. \A q, c : (RedisExcused(q) => RedisExcused(q)') /\ (LocalExcused(c, q) => LocalExcused(c, q)')
      BY <2>7 DEF RedisExcused, LocalExcused
    <2>9. Filling(e)'
      BY <1>1, <2>3, <2>4, <2>5, <2>6, <2>8 DEF Filling, Fresh, IsPage
    <2>10. RunOK(e)'
      BY <1>3, <2>3, <2>5, <2>6, <2>9 DEF RunOK, Fills
    <2> QED
      BY <1>3, <2>1, <2>3, <2>10
  <1> QED
    BY <1>2, <1>3

\* What a search brings is what the properties allow.
LEMMA OvertakenFresh ==
  ASSUME NEW k, NEW v, IsPage(v), NEW r \in BOOLEAN, NEW T
  PROVE  /\ IsPage(Overtaken(v, r))
         /\ r \/ Fresh(k, v, T) => Fresh(k, Overtaken(v, r), T)
  <1>1. IsPage(Overtaken(v, r)) /\ Overtaken(v, r).of = v.of /\ Overtaken(v, r).raced = (v.raced \/ r)
    BY OvertakenOK
  <1>2. v.raced \/ r => Overtaken(v, r).raced
    BY <1>1
  <1> QED
    BY <1>1, <1>2 DEF Fresh

LEMMA StoreStep == ASSUME Inv, NEW e \in setup.engines, Store(e) PROVE Inv'
  <1> DEFINE k == run[e].key
             new == {[key |-> k, page |-> p, value |-> Overtaken(run[e].found[p], run[e].raced)]
                       : p \in run[e].missing}
             next == IF HasLocal(e) /\ ~IsOne(k) THEN "keep" ELSE "answered"
  <1>1. e \in Engines /\ run[e].at = "store" /\ Filling(e) /\ setup.redis
    BY SetupOK DEF Store, Inv, Types, RunOK, Fills
  <1>2. setup' = setup /\ rows' = rows /\ lost' = lost /\ unseen' = unseen /\ events' = events
        /\ tx' = tx /\ local' = local
    BY DEF Store, cacheVars
  <1>3. redis' = {x \in redis : ~(x.key = k /\ x.page \in run[e].missing)} \cup new
    BY DEF Store
  <1>4. Done(e, next) /\ next \in {"keep", "store", "answered"} /\ (next = "keep" => HasLocal(e))
    BY DEF Store
  <1>5. \A x \in redis' : \/ x \in redis
                          \/ /\ x.key \in Keys /\ IsPage(x.value)
                             /\ Fresh(x.key, x.value, rows) \/ RedisExcused(x.key)
    <2>1. ASSUME NEW p \in run[e].missing
          PROVE  LET v == Overtaken(run[e].found[p], run[e].raced)
                 IN  IsPage(v) /\ (Fresh(k, v, rows) \/ RedisExcused(k))
      BY <1>1, OvertakenFresh DEF Filling
    <2>2. k \in Keys
      BY <1>1 DEF Filling
    <2> QED
      BY <1>3, <2>1, <2>2
  <1> HIDE DEF next
  <1>6. PICK x : run' = [run EXCEPT ![e] = x] /\ x.at \notin {"local", "redis"}
    BY <1>1, <1>2, <1>4, DoneRun DEF Fills
  <1>7. RunOK(e)'
    BY <1>1, <1>2, <1>4, DoneRun DEF Fills
  <1> HIDE DEF new, k
  <1> QED
    BY <1>1, <1>2, <1>5, <1>6, <1>7, QuietStep

LEMMA KeepStep == ASSUME Inv, NEW e \in setup.engines, Keep(e) PROVE Inv'
  <1> DEFINE k == run[e].key
             new == [cache |-> LocalOf(e), key |-> k,
                     value |-> Overtaken(run[e].found[1], run[e].raced)]
             next == IF IsOne(k) /\ setup.redis THEN "store" ELSE "answered"
  <1>1. e \in Engines /\ run[e].at = "keep" /\ Filling(e) /\ HasLocal(e) /\ LocalOf(e) \in Caches
    BY SetupOK DEF Keep, Inv, Types, RunOK, Fills, HasLocal
  <1>2. setup' = setup /\ rows' = rows /\ lost' = lost /\ unseen' = unseen /\ events' = events
        /\ tx' = tx /\ redis' = redis
    BY DEF Keep, cacheVars
  <1>3. local' = {x \in local : ~(x.cache = LocalOf(e) /\ x.key = k)} \cup {new}
    BY DEF Keep
  <1>4. Done(e, next) /\ next \in {"keep", "store", "answered"} /\ next # "keep"
        /\ (next = "store" => setup.redis)
    BY DEF Keep
  <1>5. \A x \in local' : \/ x \in local
                          \/ /\ x.cache \in Caches /\ x.key \in Keys
                             /\ Fresh(x.key, x.value, rows) \/ LocalExcused(x.cache, x.key)
    <2>1. Fresh(k, new.value, rows) \/ LocalExcused(LocalOf(e), k)
      BY <1>1, OvertakenFresh DEF Filling
    <2>2. k \in Keys
      BY <1>1 DEF Filling
    <2> QED
      BY <1>1, <1>3, <2>1, <2>2
  <1> HIDE DEF next
  <1>6. PICK x : run' = [run EXCEPT ![e] = x] /\ x.at \notin {"local", "redis"}
    BY <1>1, <1>2, <1>4, DoneRun DEF Fills
  <1>7. RunOK(e)'
    BY <1>1, <1>2, <1>4, DoneRun DEF Fills
  <1> HIDE DEF new, k
  <1> QED
    BY <1>1, <1>2, <1>5, <1>6, <1>7, QuietStep

LEMMA ReturnStep == ASSUME Inv, NEW e \in setup.engines, Return(e) PROVE Inv'
  <1>1. e \in Engines /\ run[e].at = "answered"
    BY SetupOK DEF Return, Inv, Types
  <1>2. setup' = setup /\ rows' = rows /\ lost' = lost /\ unseen' = unseen /\ events' = events
        /\ tx' = tx /\ redis' = redis /\ local' = local /\ run' = [run EXCEPT ![e] = Idle]
    BY DEF Return, cacheVars
  <1>3. Idle.at = "idle"
    BY DEF Idle
  <1> QED
    BY <1>1, <1>2, <1>3, AnsweredOK, QuietStep

\* Nothing happens, but that the LRU of a local cache drops an entry.
LEMMA UnchangedStep ==
  ASSUME Inv, setup' = setup, rows' = rows, lost' = lost, unseen' = unseen, events' = events,
         tx' = tx, redis' = redis, run' = run, local' \subseteq local
  PROVE  Inv'
  <1>0. PICK e \in setup.engines : TRUE
    BY SetupsAssumption DEF Inv, Types
  <1>1. /\ setup' = setup /\ rows' = rows /\ lost' = lost /\ unseen' = unseen /\ events' = events
        /\ tx' = tx /\ redis' = redis /\ run' = run /\ local' \subseteq local /\ e \in Engines
    BY SetupOK DEF Inv, Types
  <1>2. Types'
    <2>1. Keys' = Keys /\ TxType' = TxType /\ Events' = Events
      BY <1>1 DEF Keys, KeysOf, TxType, Events, Event
    <2> QED
      BY <1>1, <2>1 DEF Inv, Types
  <1>3. \A f \in Engines : RunMoves(f, {}, {})
    BY <1>1 DEF RunMoves
  <1>4. \A f \in Engines : RedisToDo(f)' = RedisToDo(f) /\ LocalToDo(f)' = LocalToDo(f)
    BY <1>1 DEF RedisToDo, LocalToDo
  <1>5. RedisMoves({}) /\ LocalMoves({})
    BY <1>1, <1>3, <1>4, QuietMoves
  <1>6. \A f \in Engines : TxOK(f)'
    BY <1>1, TxStep DEF Inv, TxOK
  <1>7. RunOK(e)'
    BY <1>1, <1>3, <1>5, RunStep
  <1> QED
    BY <1>1, <1>2, <1>3, <1>5, <1>6, <1>7, StepKeepsInv

-----------------------------------------------------------------------------
(* Flushes and transactions.                                               *)

LEMMA ViewOK ==
  ASSUME Inv, NEW e \in Engines
  PROVE  /\ View(e) \in [Ids -> RowOrNone]
         /\ tx[e].rows \in [DOMAIN tx[e].rows -> RowOrNone] /\ DOMAIN tx[e].rows \subseteq Ids
  <1>1. tx[e] \in TxType
    BY DEF Inv, Types
  <1>2. tx[e].rows \in UNION {[S -> RowOrNone] : S \in SUBSET Ids}
    BY <1>1 DEF TxType
  <1>3. PICK S \in SUBSET Ids : tx[e].rows \in [S -> RowOrNone]
    BY <1>2
  <1> QED
    BY <1>3 DEF View, Inv, Types

LEMMA LoadStep == ASSUME Inv, NEW e \in setup.engines, Load(e) PROVE Inv'
  <1>1. e \in Engines /\ run[e].at = "idle"
    BY SetupOK DEF Load, Inv, Types
  <1>2. setup' = setup /\ rows' = rows /\ lost' = lost /\ unseen' = unseen /\ events' = events
        /\ tx' = tx /\ redis' = redis /\ local' = local
    BY DEF Load, cacheVars
  <1>3. PICK i \in Ids : /\ IsRow(View(e)[i]) /\ ~View(e)[i].FakeDelete
                         /\ run' = [run EXCEPT ![e] = [at |-> "loaded", id |-> i, row |-> View(e)[i]]]
    BY DEF Load
  <1>4. View(e)[i] \in Row
    BY <1>1, <1>3, ViewOK DEF IsRow, RowOrNone
  <1> DEFINE x == [at |-> "loaded", id |-> i, row |-> View(e)[i]]
  <1>5. run'[e] = x /\ x.at = "loaded" /\ x.id = i /\ x.row = View(e)[i]
    BY <1>1, <1>3 DEF Inv, Types
  <1>6. RunOK(e)'
    <2> HIDE DEF x
    <2> QED
      BY <1>2, <1>3, <1>4, <1>5 DEF RunOK, Fills
  <1> HIDE DEF x
  <1>7. run' = [run EXCEPT ![e] = x]
    BY <1>3 DEF x
  <1> QED
    BY <1>1, <1>2, <1>5, <1>6, <1>7, QuietStep

LEMMA TypesStep ==
  ASSUME Inv, setup' = setup, rows' \in [Ids -> RowOrNone], tx' \in [Engines -> TxType],
         DOMAIN run' = Engines, run' = [f \in Engines |-> run'[f]], events' \in Events
  PROVE  Types'
  <1>1. Keys' = Keys /\ TxType' = TxType /\ Events' = Events
    BY DEF Keys, KeysOf, TxType, Events, Event
  <1> QED
    BY <1>1 DEF Inv, Types

LEMMA ClosedOK == Closed \in TxType /\ DOMAIN Closed.rows = {} /\ ~Closed.open
  <1>1. <<>> \in [{} -> RowOrNone] /\ DOMAIN <<>> = {}
    OBVIOUS
  <1>2. <<>> \in UNION {[S -> RowOrNone] : S \in SUBSET Ids}
    BY <1>1
  <1> QED
    BY <1>1, <1>2 DEF Closed, TxType

\* BEGIN and ROLLBACK: what the transaction wrote is nobody's.
LEMMA EmptyTxStep ==
  ASSUME Inv, NEW e \in setup.engines, run[e].at = "idle",
         setup' = setup, rows' = rows, lost' = lost, unseen' = unseen, events' = events,
         redis' = redis, local' = local, run' = run,
         NEW t \in TxType, tx' = [tx EXCEPT ![e] = t], DOMAIN t.rows = {}, ~t.open => t = Closed
  PROVE  Inv'
  <1>1. e \in Engines
    BY SetupOK DEF Inv, Types
  <1>2. tx'[e] = t /\ \A f \in Engines \ {e} : tx'[f] = tx[f]
    BY <1>1 DEF Inv, Types
  <1>3. Types'
    <2>1. tx' \in [Engines -> TxType]
      BY <1>1 DEF Inv, Types
    <2> QED
      BY <2>1, TypesStep DEF Inv, Types
  <1>4. \A f \in Engines : RunMoves(f, {}, {})
    BY DEF RunMoves
  <1>5. RedisToDo(e) = {} /\ LocalToDo(e) = {}
    BY DEF RedisToDo, LocalToDo
  <1>6. RedisMoves({}) /\ LocalMoves({})
    BY <1>1, <1>2, <1>4, <1>5, QuietMoves
  <1>7. ASSUME NEW f \in Engines, f # e PROVE TxOK(f)'
    <2>1. \A g \in Engines \ {f} : DOMAIN tx[f].rows \cap DOMAIN tx'[g].rows = {}
      BY <1>2 DEF Inv, TxOK
    <2> QED
      BY <1>2, <1>7, <2>1, TxStep
  <1>8. TxOK(e)'
    BY <1>2 DEF TxOK, Closed
  <1>9. RunOK(e)'
    BY <1>1, <1>4, <1>6, RunStep
  <1> QED
    BY <1>1, <1>3, <1>4, <1>6, <1>7, <1>8, <1>9, StepKeepsInv

LEMMA BeginStep == ASSUME Inv, NEW e \in setup.engines, Begin(e) PROVE Inv'
  <1> DEFINE t == [Closed EXCEPT !.open = TRUE]
  <1>1. e \in Engines /\ run[e].at = "idle" /\ ~tx[e].open
    BY SetupOK DEF Begin, Inv, Types
  <1>2. tx[e] = Closed
    BY <1>1 DEF Inv, TxOK
  <1>3. t.open /\ t.rows = Closed.rows /\ t \in TxType
    BY ClosedOK DEF TxType
  <1>4. tx' = [tx EXCEPT ![e] = t]
    BY <1>2 DEF Begin
  <1> HIDE DEF t
  <1> QED
    BY <1>1, <1>3, <1>4, ClosedOK, EmptyTxStep DEF Begin, cacheVars

LEMMA RollbackStep == ASSUME Inv, NEW e \in setup.engines, Rollback(e) PROVE Inv'
  BY ClosedOK, EmptyTxStep DEF Rollback, cacheVars

\* What is known of a statement: row i becomes r, and unless the entity is stale the
\* keys are those of every list that this changes.
Covers(e, i, r, keys, stale) ==
    /\ i \in Ids /\ r \in RowOrNone /\ keys \subseteq Keys /\ stale \in BOOLEAN
    /\ ~stale => \A k \in Keys \ keys : Same(k, View(e)[i], r)

\* A statement outside a transaction.
LEMMA ExecuteOutside ==
  ASSUME Inv, NEW e \in Engines, ~tx[e].open, NEW i, NEW r, NEW keys, NEW stale,
         Covers(e, i, r, keys, stale), Execute(e, i, r, keys, stale)
  PROVE  /\ rows' \in [Ids -> RowOrNone] /\ tx' = tx
         /\ \A f \in Engines : \A j \in DOMAIN tx[f].rows : rows'[j] = rows[j]
         /\ lost \subseteq lost' /\ unseen \subseteq unseen'
         /\ \A k \in Keys : ListOf(k, rows') # ListOf(k, rows) =>
              \/ k \in keys
              \/ k \in lost' /\ <<LocalOf(e), k>> \in unseen'
         /\ \A k \in Keys, c \in Caches \ {LocalOf(e)} :
              ListOf(k, rows') # ListOf(k, rows) => <<c, k>> \in unseen'
  <1> DEFINE T == [rows EXCEPT ![i] = r]
             missed == IF stale THEN Changed(rows, T) \ keys ELSE {}
  <1>1. /\ rows' = T /\ tx' = tx /\ lost' = lost \cup missed
        /\ unseen' = unseen \cup (({LocalOf(e)} \X missed) \cup ((Caches \ {LocalOf(e)}) \X Changed(rows, T)))
        /\ \A f \in Engines \ {e} : i \notin DOMAIN tx[f].rows
    BY DEF Execute, Allows
  <1>2. T \in [Ids -> RowOrNone] /\ \A j \in Ids : T[j] = IF j = i THEN r ELSE rows[j]
    BY DEF Covers, Inv, Types
  <1>3. DOMAIN tx[e].rows = {}
    BY ClosedOK DEF Inv, TxOK
  <1>4. View(e)[i] = rows[i]
    BY <1>3 DEF View, Covers
  <1>5. ASSUME NEW k \in Keys, ListOf(k, T) # ListOf(k, rows), k \notin keys PROVE stale
    <2> SUFFICES ASSUME ~stale PROVE FALSE
      OBVIOUS
    <2>1. Same(k, rows[i], r)
      BY <1>4, <1>5 DEF Covers
    <2>2. \A j \in Ids : Same(k, rows[j], T[j])
      BY <1>2, <2>1, SameRow
    <2> QED
      BY <1>5, <2>2, SameList
  <1>6. \A k \in Keys : ListOf(k, T) # ListOf(k, rows) => k \in Changed(rows, T)
    BY DEF Changed
  <1>7. ASSUME NEW f \in Engines, NEW j \in DOMAIN tx[f].rows PROVE T[j] = rows[j]
    <2>1. j \in Ids /\ j # i
      BY <1>1, <1>3, <1>7, ViewOK
    <2> QED
      BY <1>2, <2>1
  <1> HIDE DEF T
  <1> QED
    BY <1>1, <1>2, <1>5, <1>6, <1>7

LEMMA ClearsShape ==
  ASSUME NEW keys, NEW at, NEW then
  PROVE  /\ Clears(keys, at, then).keys = keys /\ Clears(keys, at, then).at = at
         /\ Clears(keys, at, then).then = then
  BY DEF Clears

\* Whoever is about to delete keys is in order.
LEMMA ClearsOK ==
  ASSUME Inv, NEW e \in setup.engines, setup' = setup, NEW g, DOMAIN g = Engines,
         NEW keys \in SUBSET Keys, NEW at \in {"local", "redis"}, NEW then,
         run' = [g EXCEPT ![e] = Clears(keys, at, then)]
  PROVE  RunOK(e)' /\ run'[e] = Clears(keys, at, then)
  <1>1. Keys' = Keys /\ e \in Engines
    BY SetupOK DEF Keys, KeysOf, Inv, Types
  <1>2. run'[e] = Clears(keys, at, then)
    BY <1>1
  <1> QED
    BY <1>1, <1>2, ClearsShape DEF RunOK, Fills

Clearing(e, keys, at, then) == run' = [run EXCEPT ![e] = Clears(keys, at, then)]

LEMMA WriteOutside ==
  ASSUME Inv, NEW e \in setup.engines, ~tx[e].open, run[e].at \in {"idle", "loaded"},
         NEW i, NEW r, NEW keys, NEW stale, Covers(e, i, r, keys, stale), Execute(e, i, r, keys, stale),
         setup' = setup, redis' = redis, local' = local, events' \in Events,
         NEW at \in {"local", "redis"}, NEW then \in {"none", "local", "redis"},
         Clearing(e, keys, at, then),
         at = "local" /\ setup.redis => then = "redis", at = "redis" => then = "local"
  PROVE  Inv'
  <1>0. e \in Engines
    BY SetupOK DEF Inv, Types
  <1>1. /\ rows' \in [Ids -> RowOrNone] /\ tx' = tx
        /\ \A f \in Engines : \A j \in DOMAIN tx[f].rows : rows'[j] = rows[j]
        /\ lost \subseteq lost' /\ unseen \subseteq unseen'
        /\ \A k \in Keys : ListOf(k, rows') # ListOf(k, rows) =>
             k \in keys \/ (k \in lost' /\ <<LocalOf(e), k>> \in unseen')
        /\ \A k \in Keys, c \in Caches \ {LocalOf(e)} :
             ListOf(k, rows') # ListOf(k, rows) => <<c, k>> \in unseen'
    BY <1>0, ExecuteOutside
  <1>2. DOMAIN run = Engines /\ keys \in SUBSET Keys /\ at \in {"local", "redis"}
    BY DEF Inv, Types, Covers
  <1>3. RunOK(e)' /\ run'[e] = Clears(keys, at, then)
    <2>1. run'[e] = Clears(keys, at, then)
      BY <1>0, <1>2 DEF Clearing
    <2>2. Keys' = Keys
      BY DEF Keys, KeysOf
    <2> QED
      BY <1>2, <2>1, <2>2, ClearsShape DEF RunOK, Fills
  <1>4. \A f \in Engines \ {e} : run'[f] = run[f] /\ RunMoves(f, {}, {})
    BY <1>0, <1>2 DEF RunMoves, Clearing
  <1>5. (setup.redis => RedisToDo(e)' = keys) /\ LocalToDo(e)' = keys
    BY <1>1, <1>3, ClearsShape DEF RedisToDo, LocalToDo
  <1>6. \A f \in Engines : /\ LocalToDo(f) \subseteq LocalToDo(f)'
                           /\ RedisToDo(f) \subseteq RedisToDo(f)' /\ LocalOf(f)' = LocalOf(f)
    <2>1. RedisToDo(e) = {} /\ LocalToDo(e) = {}
      BY DEF RedisToDo, LocalToDo
    <2> QED
      BY <1>1, <1>4, <2>1, OthersToDo DEF LocalOf
  <1>7. RedisMoves({})
    <2>1. \A k : RedisExcused(k) => RedisExcused(k)'
      BY <1>1, <1>6 DEF RedisExcused
    <2>2. ASSUME setup.redis, NEW k \in Keys, ListOf(k, rows') # ListOf(k, rows) PROVE RedisExcused(k)'
      BY <1>0, <1>1, <1>5, <2>2 DEF RedisExcused
    <2> QED
      BY <2>1, <2>2 DEF RedisMoves
  <1>8. LocalMoves({})
    <2>1. \A c, k : LocalExcused(c, k) => LocalExcused(c, k)'
      BY <1>1, <1>6 DEF LocalExcused
    <2>2. ASSUME NEW c \in Caches, NEW k \in Keys, ListOf(k, rows') # ListOf(k, rows)
          PROVE  LocalExcused(c, k)'
      BY <1>0, <1>1, <1>5, <1>6, <2>2 DEF LocalExcused
    <2> QED
      BY <2>1, <2>2 DEF LocalMoves
  <1>9. ASSUME NEW f \in Engines PROVE TxOK(f)'
    <2>1. CASE f # e
      BY <1>1, <1>4, <2>1, TxStep DEF Inv, TxOK
    <2>2. CASE f = e
      BY <1>0, <1>1, <2>2, ClosedOK DEF Inv, TxOK
    <2> QED
      BY <2>1, <2>2
  <1>10. Types'
    <2>1. DOMAIN run' = Engines /\ run' = [f \in Engines |-> run'[f]]
      BY <1>2 DEF Inv, Types, Clearing
    <2>2. tx' \in [Engines -> TxType]
      BY <1>1 DEF Inv, Types
    <2> QED
      BY <1>1, <2>1, <2>2, TypesStep
  <1> QED
    BY <1>0, <1>3, <1>4, <1>7, <1>8, <1>9, <1>10, StepKeepsInv

\* A statement in the transaction that is open.
LEMMA WriteInside ==
  ASSUME Inv, NEW e \in setup.engines, tx[e].open, run[e].at \in {"idle", "loaded"},
         NEW i, NEW r, NEW keys, NEW stale, Covers(e, i, r, keys, stale), Execute(e, i, r, keys, stale),
         setup' = setup, redis' = redis, local' = local, events' = events,
         run' = [run EXCEPT ![e] = Clears(keys, "local", "none")]
  PROVE  Inv'
  <1>0. e \in Engines
    BY SetupOK DEF Inv, Types
  <1> DEFINE W == Put(tx[e].rows, i, r)
             t == [tx[e] EXCEPT !.rows = W, !.stale = @ \/ stale]
  <1>1. /\ rows' = rows /\ lost' = lost /\ unseen' = unseen
        /\ tx' = [tx EXCEPT ![e].rows = Put(@, i, r), ![e].stale = @ \/ stale]
        /\ \A f \in Engines \ {e} : i \notin DOMAIN tx[f].rows
    BY DEF Execute, Allows
  <1>2. DOMAIN run = Engines /\ keys \in SUBSET Keys /\ i \in Ids /\ r \in RowOrNone /\ stale \in BOOLEAN
    BY DEF Inv, Types, Covers
  <1>3. RunOK(e)' /\ run'[e] = Clears(keys, "local", "none")
    BY <1>2, ClearsOK
  <1>4. \A f \in Engines \ {e} : run'[f] = run[f] /\ RunMoves(f, {}, {})
    BY <1>0, <1>2 DEF RunMoves
  <1>5. tx[e] \in TxType /\ tx \in [Engines -> TxType]
    BY <1>0 DEF Inv, Types
  <1>6. /\ W \in [DOMAIN tx[e].rows \cup {i} -> RowOrNone]
        /\ \A j \in DOMAIN W : W[j] = IF j = i THEN r ELSE tx[e].rows[j]
        /\ DOMAIN W = DOMAIN tx[e].rows \cup {i} /\ DOMAIN W \subseteq Ids
    <2>1. tx[e].rows \in [DOMAIN tx[e].rows -> RowOrNone] /\ DOMAIN tx[e].rows \subseteq Ids
      BY <1>0, ViewOK
    <2> QED
      BY <1>2, <2>1 DEF Put
  <1>7. W \in UNION {[S -> RowOrNone] : S \in SUBSET Ids}
    <2>1. DOMAIN tx[e].rows \cup {i} \in SUBSET Ids
      BY <1>6
    <2> HIDE DEF W
    <2> QED
      BY <1>6, <2>1
  <1>8. /\ tx' = [tx EXCEPT ![e] = t]
        /\ t \in TxType /\ t.rows = W /\ t.open /\ t.dels = tx[e].dels
        /\ (tx[e].stale \/ stale => t.stale)
    <2> HIDE DEF W
    <2>1. (tx[e].stale \/ stale) \in BOOLEAN
      OBVIOUS
    <2>2. t \in TxType /\ t.rows = W /\ t.open /\ t.dels = tx[e].dels /\ (tx[e].stale \/ stale => t.stale)
      BY <1>5, <1>7, <2>1 DEF TxType
    <2>3. tx' = [tx EXCEPT ![e] = t]
      BY <1>0, <1>1, <1>5 DEF W
    <2> QED
      BY <2>2, <2>3
  <1> HIDE DEF t
  <1>9. tx'[e] = t /\ \A f \in Engines \ {e} : tx'[f] = tx[f]
    BY <1>0, <1>5, <1>8
  <1>10. RedisToDo(e) = {} /\ LocalToDo(e) = {}
    BY DEF RedisToDo, LocalToDo
  <1>11. RedisMoves({}) /\ LocalMoves({})
    BY <1>0, <1>1, <1>4, <1>9, <1>10, QuietMoves
  <1>12. ASSUME NEW f \in Engines, f # e PROVE TxOK(f)'
    <2>1. \A g \in Engines \ {f} : DOMAIN tx[f].rows \cap DOMAIN tx'[g].rows = {}
      <3>1. \A g \in Engines \ {f} : DOMAIN tx[f].rows \cap DOMAIN tx[g].rows = {}
        BY <1>12 DEF Inv, TxOK
      <3> QED
        <4>1. DOMAIN tx[f].rows \cap DOMAIN tx'[e].rows = {}
          <5>1. tx'[e].rows = W /\ DOMAIN W = DOMAIN tx[e].rows \cup {i}
            BY <1>6, <1>8, <1>9
          <5>2. i \notin DOMAIN tx[f].rows /\ DOMAIN tx[f].rows \cap DOMAIN tx[e].rows = {}
            BY <1>0, <1>1, <1>12, <3>1
          <5> HIDE DEF W
          <5> QED
            BY <5>1, <5>2
        <4> QED
          BY <1>9, <3>1, <4>1
    <2> QED
      BY <1>1, <1>4, <1>9, <1>12, <2>1, TxStep
  <1>13. TxOK(e)'
    <2> HIDE DEF W
    <2>1. \A f \in Engines \ {e} : DOMAIN W \cap DOMAIN tx[f].rows = {}
      BY <1>0, <1>1, <1>6 DEF Inv, TxOK
    <2>2. Pending(e) = {} /\ Pending(e)' = keys
      BY <1>3, ClearsShape DEF Pending
    <2>3. ASSUME ~t.stale, NEW j \in DOMAIN W, NEW k \in Keys, k \notin t.dels \cup keys
          PROVE  Same(k, rows[j], W[j])
      <3>1. ~tx[e].stale /\ ~stale
        BY <1>8, <2>3
      <3>2. j \in DOMAIN tx[e].rows => Same(k, rows[j], tx[e].rows[j])
        BY <1>0, <1>8, <2>2, <2>3, <3>1 DEF Inv, TxOK
      <3>3. CASE j # i
        BY <1>6, <2>3, <3>2, <3>3
      <3>4. CASE j = i
        <4>1. Same(k, View(e)[i], r)
          BY <2>3, <3>1 DEF Covers
        <4>2. View(e)[i] = IF i \in DOMAIN tx[e].rows THEN tx[e].rows[i] ELSE rows[i]
          BY <1>2 DEF View
        <4>3. Same(k, rows[i], View(e)[i])
          BY <3>2, <3>4, <4>2, SameRow
        <4>4. Same(k, rows[i], r)
          BY <4>1, <4>3, SameThrough
        <4> QED
          BY <1>6, <2>3, <3>4, <4>4
      <3> QED
        BY <3>3, <3>4
    <2>4. Keys' = Keys
      BY DEF Keys, KeysOf
    <2>5. ~t.stale => \A j \in DOMAIN W, k \in Keys :
                        k \in t.dels \cup Pending(e)' \/ Same(k, rows'[j], W[j])
      BY <1>1, <2>2, <2>3
    <2>6. run'[e].at = "local" /\ run'[e].then = "none"
      BY <1>3, ClearsShape
    <2> QED
      BY <1>8, <1>9, <2>1, <2>4, <2>5, <2>6 DEF TxOK, Same, Matches
  <1>14. Types'
    <2>1. DOMAIN run' = Engines /\ run' = [f \in Engines |-> run'[f]]
      BY <1>2
    <2>2. tx' \in [Engines -> TxType]
      BY <1>0, <1>5, <1>8
    <2>3. Events' = Events
      BY DEF Events, Event
    <2> QED
      BY <1>1, <2>1, <2>2, <2>3, TypesStep DEF Inv, Types
  <1> QED
    BY <1>0, <1>4, <1>11, <1>12, <1>13, <1>14, <1>3, StepKeepsInv

LEMMA FlushStep ==
  ASSUME Inv, NEW e \in setup.engines, run[e].at \in {"idle", "loaded"},
         NEW i, NEW r, NEW keys, NEW stale, Covers(e, i, r, keys, stale), Flush(e, i, r, keys, stale),
         setup' = setup, redis' = redis, local' = local, events' = events
  PROVE  Inv'
  <1> DEFINE then == IF tx[e].open \/ ~setup.redis THEN "none" ELSE "redis"
  <1>1. Execute(e, i, r, keys, stale) /\ run' = [run EXCEPT ![e] = Clears(keys, "local", then)]
    BY DEF Flush
  <1>2. CASE tx[e].open
    <2>1. then = "none"
      BY <1>2
    <2> HIDE DEF then
    <2> QED
      BY <1>1, <1>2, <2>1, WriteInside
  <1>3. CASE ~tx[e].open
    <2>1. (setup.redis => then = "redis") /\ then \in {"none", "local", "redis"}
      BY <1>3
    <2>2. events' \in Events
      BY DEF Inv, Types
    <2> HIDE DEF then
    <2>3. Clearing(e, keys, "local", then)
      BY <1>1 DEF Clearing
    <2> QED
      BY <1>1, <1>3, <2>1, <2>2, <2>3, WriteOutside
  <1> QED
    BY <1>2, <1>3

\* The keys that a flush deletes are keys of lists.
LEMMA FlushKeys ==
  ASSUME setup.queries \subseteq DOMAIN Queries, NEW old \in Row, NEW new \in Row
  PROVE  InsertKeys(new) \subseteq Keys /\ UpdateKeys(old, new) \subseteq Keys /\ DeleteKeys(old) \subseteq Keys
  <1>1. \A i \in setup.queries, r \in Row : [query |-> i, parameters |-> ParametersOf(Queries[i], r)] \in Keys
    BY DEF Keys, KeysOf
  <1>2. ASSUME NEW k \in InsertKeys(new) PROVE k \in Keys
    <2>1. PICK i \in setup.queries : k = KeyFor(i, new, new, FALSE)
      BY <1>2 DEF InsertKeys, getCacheQueriesKeys
    <2> QED
      BY <1>1, <2>1, KeyForInserted
  <1>3. ASSUME NEW k \in UpdateKeys(old, new) PROVE k \in Keys
    <2>1. PICK i \in setup.queries : \/ k = KeyFor(i, BindOf(old, new), old, TRUE)
                                     \/ k = KeyFor(i, BindOf(old, new), old, FALSE)
      BY <1>3 DEF UpdateKeys, getCacheQueriesKeys
    <2>2. CASE k = KeyFor(i, BindOf(old, new), old, TRUE)
      BY <1>1, <2>1, <2>2, KeyForOld
    <2>3. CASE k = KeyFor(i, BindOf(old, new), old, FALSE)
      BY <1>1, <2>1, <2>3, KeyForUpdated
    <2> QED
      BY <2>1, <2>2, <2>3
  <1>4. ASSUME NEW k \in DeleteKeys(old) PROVE k \in Keys
    <2>1. PICK i \in setup.queries : k = KeyFor(i, <<>>, old, TRUE)
      BY <1>4 DEF DeleteKeys, getCacheQueriesKeys
    <2> QED
      BY <1>1, <2>1, KeyForOld
  <1> QED
    BY <1>2, <1>3, <1>4

LEMMA UpdatedRow ==
  ASSUME NEW old \in Row, NEW r \in Row, NEW now \in RowOrNone
  PROVE  /\ Updated(old, r, now) \in RowOrNone
         /\ now = old => Updated(old, r, now) = r
  <1>1. CASE ~IsRow(now)
    BY <1>1, RowFields DEF Updated, IsRow
  <1>2. CASE IsRow(now)
    <2> DEFINE u == [f \in Columns |-> IF old[f] # r[f] THEN r[f] ELSE now[f]]
    <2>1. now \in Row /\ Updated(old, r, now) = u
      BY <1>2 DEF IsRow, RowOrNone, Updated
    <2>2. u \in Row
      BY <2>1 DEF Row, Columns
    <2>3. now = old => u = r
      <3>1. now = old => u = [f \in Columns |-> r[f]]
        OBVIOUS
      <3>2. r = [f \in Columns |-> r[f]]
        BY RowFields DEF Row, Columns
      <3> QED
        BY <3>1, <3>2
    <2> QED
      BY <2>1, <2>2, <2>3 DEF RowOrNone
  <1> QED
    BY <1>1, <1>2

\* The UPDATE of an entity that took its row to be old.
LEMMA UpdateCovers ==
  ASSUME Inv, NEW e \in Engines, NEW i \in Ids, NEW old \in Row, NEW r \in Row,
         ~old.FakeDelete, r.FakeDelete => setup.fake
  PROVE  Covers(e, i, Updated(old, r, View(e)[i]), UpdateKeys(old, r), View(e)[i] # old)
  <1>1. setup.queries \subseteq DOMAIN Queries
    BY SetupOK DEF Inv, Types
  <1>2. View(e)[i] \in RowOrNone
    BY ViewOK
  <1>3. (View(e)[i] # old) \in BOOLEAN
    OBVIOUS
  <1>4. Updated(old, r, View(e)[i]) \in RowOrNone /\ (View(e)[i] = old => Updated(old, r, View(e)[i]) = r)
    BY <1>2, UpdatedRow
  <1>5. \A k \in Keys \ UpdateKeys(old, r) : Same(k, old, r)
    BY <1>1, UpdateKeysCover
  <1>6. UpdateKeys(old, r) \subseteq Keys
    BY <1>1, FlushKeys
  <1> QED
    BY <1>3, <1>4, <1>5, <1>6 DEF Covers

LEMMA FlushInsertStep == ASSUME Inv, NEW e \in setup.engines, FlushInsert(e) PROVE Inv'
  <1>1. e \in Engines /\ run[e].at = "idle" /\ setup.queries \subseteq DOMAIN Queries
    BY SetupOK DEF FlushInsert, Inv, Types
  <1>2. setup' = setup /\ redis' = redis /\ local' = local /\ events' = events
    BY DEF FlushInsert, cacheVars
  <1>3. PICK r \in setup.values, i \in {i \in Ids : \A f \in Engines : View(f)[i] = Unused} :
          Flush(e, i, r, InsertKeys(r), FALSE)
    BY DEF FlushInsert
  <1>4. r \in Row
    BY SetupOK DEF Inv, Types
  <1>5. InsertKeys(r) \subseteq Keys
    BY <1>1, <1>4, FlushKeys
  <1>6. \A k \in Keys \ InsertKeys(r) : Same(k, Unused, r)
    BY <1>1, <1>4, InsertKeysCover
  <1>7. Covers(e, i, r, InsertKeys(r), FALSE)
    BY <1>1, <1>3, <1>4, <1>5, <1>6 DEF Covers, RowOrNone
  <1> QED
    BY <1>1, <1>2, <1>3, <1>7, FlushStep

LEMMA FlushUpdateStep == ASSUME Inv, NEW e \in setup.engines, FlushUpdate(e) PROVE Inv'
  <1> DEFINE old == run[e].row
             i == run[e].id
  <1>1. e \in Engines /\ run[e].at = "loaded" /\ old \in Row /\ i \in Ids /\ ~old.FakeDelete
    BY SetupOK DEF FlushUpdate, Inv, Types, RunOK
  <1>2. setup' = setup /\ redis' = redis /\ local' = local /\ events' = events
    BY DEF FlushUpdate, cacheVars
  <1>3. PICK r \in NewRows(old) : Flush(e, i, Updated(old, r, View(e)[i]), UpdateKeys(old, r), View(e)[i] # old)
    BY DEF FlushUpdate
  <1> HIDE DEF old, i
  <1>4. r \in Row /\ (r.FakeDelete => setup.fake)
    <2>1. [old EXCEPT !.FakeDelete = TRUE] \in Row
      BY <1>1 DEF Row
    <2> QED
      BY <2>1, SetupOK DEF NewRows, Inv, Types
  <1> DEFINE stale == View(e)[i] # old
  <1>5. Covers(e, i, Updated(old, r, View(e)[i]), UpdateKeys(old, r), stale)
    BY <1>1, <1>4, UpdateCovers
  <1>6. Flush(e, i, Updated(old, r, View(e)[i]), UpdateKeys(old, r), stale)
    BY <1>3
  <1> HIDE DEF stale
  <1> QED
    BY <1>1, <1>2, <1>5, <1>6, FlushStep

LEMMA FlushDeleteStep == ASSUME Inv, NEW e \in setup.engines, FlushDelete(e) PROVE Inv'
  <1> DEFINE old == run[e].row
             i == run[e].id
             stale == View(e)[i] # old
  <1>1. /\ e \in Engines /\ run[e].at = "loaded" /\ old \in Row /\ i \in Ids
        /\ setup.queries \subseteq DOMAIN Queries
    BY SetupOK DEF FlushDelete, Inv, Types, RunOK
  <1>2. setup' = setup /\ redis' = redis /\ local' = local /\ events' = events
    BY DEF FlushDelete, cacheVars
  <1>3. Flush(e, i, Gone, DeleteKeys(old), stale)
    BY DEF FlushDelete
  <1>4. stale \in BOOLEAN /\ (~stale => View(e)[i] = old)
    OBVIOUS
  <1> HIDE DEF old, i, stale
  <1>5. DeleteKeys(old) \subseteq Keys /\ \A k \in Keys \ DeleteKeys(old) : Same(k, old, Gone)
    BY <1>1, FlushKeys, DeleteKeysCover
  <1>6. Covers(e, i, Gone, DeleteKeys(old), stale)
    BY <1>1, <1>4, <1>5 DEF Covers, RowOrNone
  <1> QED
    BY <1>1, <1>2, <1>3, <1>6, FlushStep

-----------------------------------------------------------------------------
(* Deletions.                                                              *)

\* A deletion of lists overtakes the searches for them.
LEMMA RaceMoves ==
  ASSUME Inv, NEW e \in Engines, NEW keys, NEW S, NEW x, run' = [Race(keys, S) EXCEPT ![e] = x]
  PROVE  /\ DOMAIN run' = Engines /\ run' = [f \in Engines |-> run'[f]] /\ run'[e] = x
         /\ \A f \in Engines \ {e} :
              \/ run'[f] = run[f] /\ (Fills(run[f].at) /\ f \in S => run[f].key \notin keys)
              \/ Fills(run[f].at) /\ run'[f] = [run[f] EXCEPT !.raced = TRUE]
  <1>1. Race(keys, S) = [f \in Engines |-> Race(keys, S)[f]] /\ DOMAIN Race(keys, S) = Engines
    BY DEF Race
  <1>2. ASSUME NEW f \in Engines \ {e}
        PROVE  \/ run'[f] = run[f] /\ (Fills(run[f].at) /\ f \in S => run[f].key \notin keys)
               \/ Fills(run[f].at) /\ run'[f] = [run[f] EXCEPT !.raced = TRUE]
    <2>1. run'[f] = Race(keys, S)[f]
      BY <1>1
    <2> QED
      BY <2>1 DEF Race, Fills
  <1> QED
    BY <1>1, <1>2

LEMMA TxUnchanged ==
  ASSUME Inv, setup' = setup, rows' = rows, tx' = tx, NEW f \in Engines, run'[f].at = run[f].at,
         run[f].at = "local" => run'[f] = run[f]
  PROVE  TxOK(f)'
  <1>1. \A g \in Engines \ {f} : DOMAIN tx[f].rows \cap DOMAIN tx'[g].rows = {}
    BY DEF Inv, TxOK
  <1> QED
    BY <1>1, TxStep

LEMMA DelRedisStep == ASSUME Inv, NEW e \in setup.engines, DelRedis(e) PROVE Inv'
  <1> DEFINE keys == run[e].keys
             x == IF run[e].then = "local" THEN Clears(keys, "local", "none") ELSE Idle
  <1>0. e \in Engines /\ run[e].at = "redis" /\ ~tx[e].open /\ keys \subseteq Keys
    BY SetupOK DEF DelRedis, Inv, Types, RunOK, TxOK
  <1>1. /\ setup' = setup /\ rows' = rows /\ lost' = lost \ keys /\ unseen' = unseen /\ events' = events
        /\ tx' = tx /\ local' = local /\ redis' = {y \in redis : y.key \notin keys}
        /\ run' = [Race(keys, Engines) EXCEPT ![e] = x]
    BY DEF DelRedis
  <1>2. /\ x.at = "local" => x = Clears(keys, "local", "none") /\ x.keys = keys /\ x.then = "none"
        /\ run[e].then = "local" => x.at = "local"
        /\ x.at \in {"local", "idle"}
    BY ClearsShape DEF Idle
  <1> HIDE DEF keys, x
  <1>3. /\ DOMAIN run' = Engines /\ run' = [f \in Engines |-> run'[f]] /\ run'[e] = x
        /\ \A f \in Engines \ {e} : RunMoves(f, keys, {})
    BY <1>0, <1>1, RaceMoves DEF RunMoves
  <1>4. \A f \in Engines \ {e} : RedisToDo(f)' = RedisToDo(f) /\ LocalToDo(f)' = LocalToDo(f)
    BY <1>1, <1>3, OthersToDo
  <1>5. RedisToDo(e) \subseteq keys /\ LocalToDo(e) \subseteq LocalToDo(e)'
    BY <1>0, <1>1, <1>2, <1>3 DEF RedisToDo, LocalToDo, keys
  <1>6. \A f \in Engines : LocalOf(f)' = LocalOf(f)
    BY <1>1 DEF LocalOf
  <1>7. RedisMoves(keys)
    <2>1. \A k : RedisExcused(k) /\ k \notin keys => RedisExcused(k)'
      BY <1>1, <1>4, <1>5 DEF RedisExcused
    <2> QED
      BY <1>1, <2>1 DEF RedisMoves
  <1>8. LocalMoves({})
    <2>1. \A c, k : LocalExcused(c, k) => LocalExcused(c, k)'
      BY <1>1, <1>4, <1>5, <1>6 DEF LocalExcused
    <2> QED
      BY <1>1, <2>1 DEF LocalMoves
  <1>9. Types'
    <2>1. Events' = Events /\ tx' \in [Engines -> TxType]
      BY <1>1 DEF Events, Event, Inv, Types
    <2> QED
      BY <1>1, <1>3, <2>1, TypesStep DEF Inv, Types
  <1>10. ASSUME NEW f \in Engines PROVE TxOK(f)'
    <2>1. CASE f # e
      BY <1>1, <1>3, <2>1, TxUnchanged, RunMovesShape DEF Fills
    <2>2. CASE f = e
      BY <1>0, <1>1, <2>2, ClosedOK DEF Inv, TxOK
    <2> QED
      BY <2>1, <2>2
  <1>11. RunOK(e)'
    <2>1. Keys' = Keys
      BY <1>1 DEF Keys, KeysOf
    <2> QED
      BY <1>0, <1>1, <1>2, <1>3, <2>1 DEF RunOK, Fills
  <1>12. \A y \in redis' : y \in redis /\ y.key \notin keys
    BY <1>1
  <1>13. setup.redis \/ redis' = redis
    BY <1>1 DEF Inv, RedisOK
  <1> QED
    BY <1>0, <1>1, <1>3, <1>7, <1>8, <1>9, <1>10, <1>11, <1>12, <1>13, StepKeepsInv

LEMMA FlushLazyStep == ASSUME Inv, NEW e \in setup.engines, FlushLazy(e) PROVE Inv'
  <1>0. e \in Engines /\ run[e].at = "loaded" /\ ~tx[e].open
    BY SetupOK DEF FlushLazy, Inv, Types
  <1>1. PICK r \in NewRows(run[e].row) :
          LET keys == UpdateKeys(run[e].row, r)
          IN  /\ events' = Append(events, [id |-> run[e].id, old |-> run[e].row, new |-> r])
              /\ redis' = {x \in redis : x.key \notin keys}
              /\ lost' = lost \ keys
              /\ run' = [Race(keys, Engines) EXCEPT ![e] = Idle]
    BY DEF FlushLazy
  <1> DEFINE keys == UpdateKeys(run[e].row, r)
             event == [id |-> run[e].id, old |-> run[e].row, new |-> r]
  <1>2. /\ setup' = setup /\ rows' = rows /\ unseen' = unseen /\ tx' = tx /\ local' = local
        /\ events' = Append(events, event) /\ redis' = {x \in redis : x.key \notin keys}
        /\ lost' = lost \ keys /\ run' = [Race(keys, Engines) EXCEPT ![e] = Idle]
    BY <1>1 DEF FlushLazy
  <1>3. event \in Event
    <2>1. run[e].id \in Ids /\ run[e].row \in Row /\ ~run[e].row.FakeDelete
      BY <1>0 DEF Inv, RunOK
    <2>2. r \in Row /\ (r.FakeDelete => setup.fake)
      <3>1. [run[e].row EXCEPT !.FakeDelete = TRUE] \in Row
        BY <2>1 DEF Row
      <3> QED
        BY <3>1, SetupOK DEF NewRows, Inv, Types
    <2> QED
      BY <2>1, <2>2 DEF Event
  <1>4. events' \in Events /\ Events' = Events
    <2> HIDE DEF event
    <2> QED
      BY <1>2, <1>3 DEF Inv, Types, Events, Event
  <1> HIDE DEF keys, event
  <1>5. Idle.at = "idle"
    BY DEF Idle
  <1>6. /\ DOMAIN run' = Engines /\ run' = [f \in Engines |-> run'[f]] /\ run'[e] = Idle
        /\ \A f \in Engines \ {e} : RunMoves(f, keys, {})
    BY <1>0, <1>2, RaceMoves DEF RunMoves
  <1>7. \A f \in Engines \ {e} : RedisToDo(f)' = RedisToDo(f) /\ LocalToDo(f)' = LocalToDo(f)
    BY <1>2, <1>6, OthersToDo
  <1>8. RedisToDo(e) = {} /\ LocalToDo(e) = {}
    BY <1>0 DEF RedisToDo, LocalToDo
  <1>9. \A f \in Engines : LocalOf(f)' = LocalOf(f)
    BY <1>2 DEF LocalOf
  <1>10. RedisMoves(keys)
    <2>1. \A k : RedisExcused(k) /\ k \notin keys => RedisExcused(k)'
      BY <1>2, <1>7, <1>8 DEF RedisExcused
    <2> QED
      BY <1>2, <2>1 DEF RedisMoves
  <1>11. LocalMoves({})
    <2>1. \A c, k : LocalExcused(c, k) => LocalExcused(c, k)'
      BY <1>2, <1>7, <1>8, <1>9 DEF LocalExcused
    <2> QED
      BY <1>2, <2>1 DEF LocalMoves
  <1>12. Types'
    <2>1. tx' \in [Engines -> TxType]
      BY <1>2 DEF Inv, Types
    <2> QED
      BY <1>2, <1>4, <1>6, <2>1, TypesStep DEF Inv, Types
  <1>13. ASSUME NEW f \in Engines PROVE TxOK(f)'
    <2>1. CASE f # e
      BY <1>2, <1>6, <2>1, TxUnchanged, RunMovesShape DEF Fills
    <2>2. CASE f = e
      BY <1>0, <1>2, <2>2, ClosedOK DEF Inv, TxOK
    <2> QED
      BY <2>1, <2>2
  <1>14. RunOK(e)'
    BY <1>2, <1>5, <1>6 DEF RunOK, Fills
  <1>15. \A y \in redis' : y \in redis /\ y.key \notin keys
    BY <1>2
  <1>16. setup.redis \/ redis' = redis
    BY <1>2 DEF Inv, RedisOK
  <1> QED
    BY <1>0, <1>2, <1>6, <1>10, <1>11, <1>12, <1>13, <1>14, <1>15, <1>16, StepKeepsInv

LEMMA HandleLazyStep == ASSUME Inv, NEW e \in setup.engines, HandleLazy(e) PROVE Inv'
  <1> DEFINE x == Head(events)
             now == rows[x.id]
             keys == UpdateKeys(x.old, x.new)
             stale == now # x.old
             at == IF setup.redis THEN "redis" ELSE "local"
             then == IF setup.redis THEN "local" ELSE "none"
  <1>0. e \in Engines /\ run[e].at = "idle" /\ ~tx[e].open /\ events # <<>>
    BY SetupOK DEF HandleLazy, Inv, Types
  <1>1. x \in Event /\ Tail(events) \in Events
    BY <1>0 DEF Inv, Types, Events
  <1>2. /\ x.id \in Ids /\ x.old \in Row /\ x.new \in Row
        /\ ~x.old.FakeDelete /\ (x.new.FakeDelete => setup.fake)
    BY <1>1 DEF Event
  <1>3. View(e)[x.id] = now
    BY <1>0, <1>2, ClosedOK DEF View, Inv, TxOK
  <1>4. /\ setup' = setup /\ redis' = redis /\ local' = local /\ events' \in Events
        /\ Execute(e, x.id, Updated(x.old, x.new, now), keys, stale)
    BY <1>1 DEF HandleLazy, cacheVars
  <1>5. Clearing(e, keys, at, then)
    BY DEF HandleLazy, Clearing
  <1>6. /\ at \in {"local", "redis"} /\ then \in {"none", "local", "redis"}
        /\ (at = "local" /\ setup.redis => then = "redis") /\ (at = "redis" => then = "local")
    OBVIOUS
  <1>7. Covers(e, x.id, Updated(x.old, x.new, now), keys, stale)
    <2>1. Covers(e, x.id, Updated(x.old, x.new, View(e)[x.id]), keys, View(e)[x.id] # x.old)
      <3> HIDE DEF x
      <3> QED
        BY <1>0, <1>2, UpdateCovers
    <2> QED
      BY <1>3, <2>1
  <1> HIDE DEF x, now, keys, stale, at, then
  <1> QED
    BY <1>0, <1>4, <1>5, <1>6, <1>7, WriteOutside

LEMMA RemoveLocalStep == ASSUME Inv, NEW e \in setup.engines, RemoveLocal(e) PROVE Inv'
  <1> DEFINE keys == run[e].keys
             c == LocalOf(e)
             E == {c} \X keys
             S == {f \in Engines : LocalOf(f) = c}
             x == IF run[e].then = "redis" THEN Clears(keys, "redis", "none") ELSE Idle
             t == [tx[e] EXCEPT !.dels = IF tx[e].open THEN @ \cup keys ELSE @]
  <1>0. e \in Engines /\ run[e].at = "local" /\ keys \subseteq Keys
    BY SetupOK DEF RemoveLocal, Inv, Types, RunOK
  <1>1. /\ setup' = setup /\ rows' = rows /\ lost' = lost /\ unseen' = unseen \ E /\ events' = events
        /\ tx' = [tx EXCEPT ![e].dels = IF tx[e].open THEN @ \cup keys ELSE @]
        /\ redis' = redis /\ local' = {y \in local : ~(y.cache = c /\ y.key \in keys)}
        /\ run' = [Race(keys, S) EXCEPT ![e] = x]
    BY DEF RemoveLocal
  <1>2. /\ x.at = "redis" => x = Clears(keys, "redis", "none") /\ x.keys = keys
        /\ run[e].then = "redis" <=> x.at = "redis"
        /\ x.at \in {"redis", "idle"}
    BY ClearsShape DEF Idle
  <1>3. tx[e] \in TxType /\ tx \in [Engines -> TxType] /\ TxOK(e)
    BY <1>0 DEF Inv, Types
  <1>4. /\ t \in TxType /\ t.open = tx[e].open /\ t.rows = tx[e].rows /\ t.stale = tx[e].stale
        /\ t.dels = IF tx[e].open THEN tx[e].dels \cup keys ELSE tx[e].dels
        /\ ~tx[e].open => t = tx[e]
    BY <1>0, <1>3 DEF TxType
  <1>5. tx'[e] = t /\ (\A f \in Engines \ {e} : tx'[f] = tx[f]) /\ tx' \in [Engines -> TxType]
    BY <1>0, <1>1, <1>3, <1>4
  <1> HIDE DEF keys, x, t
  <1>6. /\ DOMAIN run' = Engines /\ run' = [f \in Engines |-> run'[f]] /\ run'[e] = x
        /\ \A f \in Engines \ {e} :
             \/ run'[f] = run[f] /\ (Fills(run[f].at) /\ f \in S => run[f].key \notin keys)
             \/ Fills(run[f].at) /\ run'[f] = [run[f] EXCEPT !.raced = TRUE]
    <2> HIDE DEF S
    <2> QED
      BY <1>0, <1>1, RaceMoves
  <1>7. \A f \in Engines \ {e} : RunMoves(f, {}, E)
    BY <1>6 DEF RunMoves
  <1>8. \A f \in Engines \ {e} : RedisToDo(f)' = RedisToDo(f) /\ LocalToDo(f)' = LocalToDo(f)
    <2> HIDE DEF E
    <2> QED
      BY <1>5, <1>7, OthersToDo
  <1>9. RedisToDo(e)' = RedisToDo(e) /\ LocalToDo(e) \subseteq keys
    BY <1>0, <1>2, <1>6 DEF RedisToDo, LocalToDo, keys
  <1>10. \A f \in Engines : LocalOf(f)' = LocalOf(f)
    BY <1>1 DEF LocalOf
  <1>11. RedisMoves({})
    <2>1. \A k : RedisExcused(k) => RedisExcused(k)'
      BY <1>1, <1>8, <1>9 DEF RedisExcused
    <2> QED
      BY <1>1, <2>1 DEF RedisMoves
  <1>12. LocalMoves(E)
    <2>1. ASSUME NEW d, NEW k, LocalExcused(d, k), <<d, k>> \notin E PROVE LocalExcused(d, k)'
      <3>1. CASE <<d, k>> \in unseen
        BY <1>1, <2>1, <3>1 DEF LocalExcused
      <3>2. CASE \E f \in Engines : LocalOf(f) = d /\ k \in LocalToDo(f)
        <4>1. PICK f \in Engines : LocalOf(f) = d /\ k \in LocalToDo(f)
          BY <3>2
        <4>2. f # e
          BY <1>9, <2>1, <4>1
        <4> QED
          BY <1>8, <1>10, <4>1, <4>2 DEF LocalExcused
      <3> QED
        BY <2>1, <3>1, <3>2 DEF LocalExcused
    <2> QED
      BY <1>1, <2>1 DEF LocalMoves
  <1>13. Types'
    <2>1. Events' = Events
      BY <1>1 DEF Events, Event
    <2> QED
      BY <1>1, <1>5, <1>6, <2>1, TypesStep DEF Inv, Types
  <1>14. Keys' = Keys
    BY <1>1 DEF Keys, KeysOf
  <1>15. ASSUME NEW f \in Engines PROVE TxOK(f)'
    <2>1. CASE f # e
      <3>1. \A g \in Engines \ {f} : DOMAIN tx[f].rows \cap DOMAIN tx'[g].rows = {}
        BY <1>4, <1>5 DEF Inv, TxOK
      <3>2. run'[f].at = run[f].at /\ (run[f].at = "local" => run'[f] = run[f])
        BY <1>7, <2>1, RunMovesShape DEF Fills
      <3> QED
        BY <1>1, <1>5, <2>1, <3>1, <3>2, TxStep
    <2>2. CASE f = e
      <3>1. CASE tx[e].open
        <4>1. x.at = "idle"
          BY <1>0, <1>2, <1>3, <3>1 DEF TxOK
        <4>2. Pending(e) = keys /\ Pending(e)' = {}
          BY <1>0, <1>6, <4>1 DEF Pending, keys
        <4>3. t.dels = tx[e].dels \cup keys
          BY <1>4, <3>1
        <4>4. \A g \in Engines \ {e} : DOMAIN t.rows \cap DOMAIN tx'[g].rows = {}
          BY <1>3, <1>4, <1>5 DEF TxOK
        <4>5. ~t.stale => \A i \in DOMAIN t.rows, k \in Keys :
                            k \in t.dels \cup Pending(e)' \/ Same(k, rows[i], t.rows[i])
          BY <1>3, <1>4, <4>2, <4>3 DEF TxOK
        <4>6. t.open
          BY <1>4, <3>1
        <4>7. ~tx'[e].stale => \A i \in DOMAIN tx'[e].rows, k \in Keys' :
                                 k \in tx'[e].dels \cup Pending(e)' \/ Same(k, rows'[i], tx'[e].rows[i])
          BY <1>1, <1>5, <1>14, <4>5
        <4>8. run'[e].at = "idle" /\ tx'[e].open /\ setup' = setup
          BY <1>1, <1>5, <1>6, <4>1, <4>6
        <4> QED
          BY <1>5, <2>2, <4>4, <4>7, <4>8 DEF TxOK
      <3>2. CASE ~tx[e].open
        BY <1>0, <1>3, <1>4, <1>5, <2>2, <3>2, ClosedOK DEF TxOK
      <3> QED
        BY <3>1, <3>2
    <2> QED
      BY <2>1, <2>2
  <1>16. RunOK(e)'
    BY <1>0, <1>1, <1>2, <1>6, <1>14, ClearsShape DEF RunOK, Fills
  <1>17. \A y \in local' : y \in local /\ <<y.cache, y.key>> \notin E
    BY <1>1
  <1> HIDE DEF E
  <1> QED
    BY <1>0, <1>1, <1>7, <1>11, <1>12, <1>13, <1>15, <1>16, <1>17, StepKeepsInv

LEMMA CommitStep == ASSUME Inv, NEW e \in setup.engines, Commit(e) PROVE Inv'
  <1> DEFINE T == View(e)
             dels == tx[e].dels
             missed == IF tx[e].stale THEN Changed(rows, T) \ dels ELSE {}
             x == IF setup.redis THEN Clears(dels, "redis", "none") ELSE Idle
  <1>0. e \in Engines /\ run[e].at = "idle" /\ tx[e].open
    BY SetupOK DEF Commit, Inv, Types
  <1>1. /\ setup' = setup /\ rows' = T /\ lost' = lost \cup missed
        /\ unseen' = unseen \cup (({LocalOf(e)} \X (dels \cup missed))
                                  \cup ((Caches \ {LocalOf(e)}) \X Changed(rows, T)))
        /\ events' = events /\ tx' = [tx EXCEPT ![e] = Closed] /\ redis' = redis /\ local' = local
        /\ run' = [run EXCEPT ![e] = x]
    BY DEF Commit, cacheVars
  <1>2. /\ tx[e] \in TxType /\ tx \in [Engines -> TxType] /\ TxOK(e) /\ dels \subseteq Keys
        /\ DOMAIN run = Engines
    BY <1>0 DEF Inv, Types, TxType
  <1>3. tx'[e] = Closed /\ (\A f \in Engines \ {e} : tx'[f] = tx[f]) /\ tx' \in [Engines -> TxType]
    BY <1>0, <1>1, <1>2, ClosedOK
  <1>4. T \in [Ids -> RowOrNone] /\ DOMAIN tx[e].rows \subseteq Ids
        /\ \A i \in Ids : T[i] = IF i \in DOMAIN tx[e].rows THEN tx[e].rows[i] ELSE rows[i]
    BY <1>0, ViewOK DEF View
  <1>5. Pending(e) = {}
    BY <1>0 DEF Pending
  \* The keys of the transaction are those of every list that it changed.
  <1>6. ASSUME NEW k \in Keys, ListOf(k, T) # ListOf(k, rows), k \notin dels PROVE tx[e].stale
    <2> SUFFICES ASSUME ~tx[e].stale PROVE FALSE
      OBVIOUS
    <2>1. \A i \in DOMAIN tx[e].rows : Same(k, rows[i], tx[e].rows[i])
      BY <1>2, <1>5, <1>6 DEF TxOK
    <2>2. \A i \in Ids : Same(k, rows[i], T[i])
      BY <1>4, <2>1, SameRow
    <2> QED
      BY <1>6, <2>2, SameList
  <1>7. \A k \in Keys : ListOf(k, T) # ListOf(k, rows) => k \in Changed(rows, T)
    BY DEF Changed
  <1>8. \A k \in Keys : ListOf(k, T) # ListOf(k, rows) => k \in dels \/ k \in missed
    BY <1>6, <1>7
  <1>9. setup.redis => x = Clears(dels, "redis", "none") /\ x.keys = dels /\ x.at = "redis"
    BY ClearsShape
  <1>10. ~setup.redis => x.at = "idle"
    BY DEF Idle
  <1> HIDE DEF T, dels, missed, x
  <1>11. run'[e] = x /\ \A f \in Engines \ {e} : run'[f] = run[f] /\ RunMoves(f, {}, {})
    BY <1>0, <1>1, <1>2 DEF RunMoves
  <1>12. \A f \in Engines \ {e} : RedisToDo(f)' = RedisToDo(f) /\ LocalToDo(f)' = LocalToDo(f)
    BY <1>3, <1>11, OthersToDo
  <1>13. RedisToDo(e) = {} /\ LocalToDo(e) = {} /\ (setup.redis => RedisToDo(e)' = dels)
    BY <1>0, <1>9, <1>11 DEF RedisToDo, LocalToDo
  <1>14. \A f \in Engines : LocalOf(f)' = LocalOf(f)
    BY <1>1 DEF LocalOf
  <1>15. RedisMoves({})
    <2>1. \A k : RedisExcused(k) => RedisExcused(k)'
      BY <1>1, <1>12, <1>13 DEF RedisExcused
    <2>2. ASSUME setup.redis, NEW k \in Keys, ListOf(k, T) # ListOf(k, rows) PROVE RedisExcused(k)'
      BY <1>0, <1>1, <1>8, <1>13, <2>2 DEF RedisExcused
    <2> QED
      BY <1>1, <2>1, <2>2 DEF RedisMoves
  <1>16. LocalMoves({})
    <2>1. \A c, k : LocalExcused(c, k) => LocalExcused(c, k)'
      BY <1>1, <1>12, <1>13, <1>14 DEF LocalExcused
    <2>2. ASSUME NEW c \in Caches, NEW k \in Keys, ListOf(k, T) # ListOf(k, rows)
          PROVE  <<c, k>> \in unseen'
      <3>1. CASE c = LocalOf(e)
        BY <1>1, <1>8, <2>2, <3>1
      <3>2. CASE c # LocalOf(e)
        BY <1>1, <1>7, <2>2, <3>2
      <3> QED
        BY <3>1, <3>2
    <2>3. ASSUME NEW c \in Caches, NEW k \in Keys, ListOf(k, T) # ListOf(k, rows)
          PROVE  LocalExcused(c, k)'
      BY <2>2, <2>3 DEF LocalExcused
    <2> QED
      BY <1>1, <2>1, <2>3 DEF LocalMoves
  <1>17. Types'
    <2>1. Events' = Events
      BY <1>1 DEF Events, Event
    <2>2. DOMAIN run' = Engines /\ run' = [f \in Engines |-> run'[f]]
      BY <1>1, <1>2 DEF Inv, Types
    <2> QED
      BY <1>1, <1>3, <1>4, <2>1, <2>2, TypesStep DEF Inv, Types
  <1>18. ASSUME NEW f \in Engines PROVE TxOK(f)'
    <2>1. CASE f # e
      <3>1. DOMAIN tx[f].rows \cap DOMAIN tx[e].rows = {} /\ DOMAIN tx[f].rows \subseteq Ids
        BY <1>0, <2>1, ViewOK DEF Inv, TxOK
      <3>2. \A i \in DOMAIN tx[f].rows : rows'[i] = rows[i]
        BY <1>1, <1>4, <3>1
      <3>3. \A g \in Engines \ {f} : DOMAIN tx[f].rows \cap DOMAIN tx'[g].rows = {}
        BY <1>3, ClosedOK DEF Inv, TxOK
      <3> QED
        BY <1>1, <1>3, <1>11, <2>1, <3>2, <3>3, TxStep
    <2>2. CASE f = e
      BY <1>3, <2>2, ClosedOK DEF TxOK
    <2> QED
      BY <2>1, <2>2
  <1>19. RunOK(e)'
    <2>1. Keys' = Keys
      BY <1>1 DEF Keys, KeysOf
    <2>2. CASE setup.redis
      BY <1>1, <1>2, <1>9, <1>11, <2>1, <2>2, ClearsShape DEF RunOK, Fills
    <2>3. CASE ~setup.redis
      BY <1>1, <1>10, <1>11, <2>3 DEF RunOK, Fills
    <2> QED
      BY <2>2, <2>3
  <1> QED
    BY <1>0, <1>1, <1>11, <1>15, <1>16, <1>17, <1>18, <1>19, StepKeepsInv

LEMMA CrashStep == ASSUME Inv, NEW e \in setup.engines, Crash(e) PROVE Inv'
  <1> DEFINE c == LocalOf(e)
             E == ({c} \cap Caches) \X Keys
  <1>0. e \in Engines
    BY SetupOK DEF Inv, Types
  <1>1. /\ setup' = setup /\ rows' = rows /\ lost' = lost \cup RedisToDo(e)
        /\ unseen' = {y \in unseen : y[1] # c} /\ events' = events
        /\ tx' = [tx EXCEPT ![e] = Closed] /\ redis' = redis
        /\ local' = {y \in local : y.cache # c} /\ run' = [run EXCEPT ![e] = Idle]
        /\ HasLocal(e) => \A f \in setup.engines \ {e} : LocalOf(f) # c
    BY DEF Crash
  <1>2. tx \in [Engines -> TxType] /\ DOMAIN run = Engines
    BY DEF Inv, Types
  <1>3. tx'[e] = Closed /\ (\A f \in Engines \ {e} : tx'[f] = tx[f]) /\ tx' \in [Engines -> TxType]
    BY <1>0, <1>1, <1>2, ClosedOK
  <1>4. run'[e] = Idle /\ Idle.at = "idle" /\ \A f \in Engines \ {e} : run'[f] = run[f]
    BY <1>0, <1>1, <1>2 DEF Idle
  <1>5. c \in Caches \cup {None} /\ (HasLocal(e) <=> c \in Caches)
    BY <1>0, SetupOK, NoneAssumption DEF Inv, Types, HasLocal
  <1>6. ASSUME NEW f \in Engines, f # e PROVE RunMoves(f, {}, E)
    <2>1. Fills(run[f].at) => f \in setup.engines
      BY DEF Inv, RunOK, Fills
    <2>2. Fills(run[f].at) => LocalOf(f) \notin {c} \cap Caches
      BY <1>1, <1>5, <1>6, <2>1
    <2> QED
      BY <1>4, <1>6, <2>2 DEF RunMoves
  <1>7. ASSUME NEW f \in Engines, f # e
        PROVE  RedisToDo(f)' = RedisToDo(f) /\ LocalToDo(f)' = LocalToDo(f)
    BY <1>3, <1>4, <1>7 DEF RedisToDo, LocalToDo
  <1>8. \A f \in Engines : LocalOf(f)' = LocalOf(f)
    BY <1>1 DEF LocalOf
  <1>9. RedisMoves({})
    <2>1. \A k : RedisExcused(k) => RedisExcused(k)'
      BY <1>1, <1>7 DEF RedisExcused
    <2> QED
      BY <1>1, <2>1 DEF RedisMoves
  <1>10. LocalMoves(E)
    <2>1. ASSUME NEW d \in Caches, NEW k \in Keys, LocalExcused(d, k), <<d, k>> \notin E
          PROVE  LocalExcused(d, k)'
      <3>1. d # c
        BY <2>1
      <3>2. CASE <<d, k>> \in unseen
        BY <1>1, <3>1, <3>2 DEF LocalExcused
      <3>3. CASE \E f \in Engines : LocalOf(f) = d /\ k \in LocalToDo(f)
        <4>1. PICK f \in Engines : LocalOf(f) = d /\ k \in LocalToDo(f)
          BY <3>3
        <4>2. f # e
          BY <3>1, <4>1
        <4> QED
          BY <1>7, <1>8, <4>1, <4>2 DEF LocalExcused
      <3> QED
        BY <2>1, <3>2, <3>3 DEF LocalExcused
    <2> QED
      BY <1>1, <2>1 DEF LocalMoves
  <1>11. Types'
    <2>1. Events' = Events
      BY <1>1 DEF Events, Event
    <2>2. DOMAIN run' = Engines /\ run' = [f \in Engines |-> run'[f]]
      BY <1>1, <1>2 DEF Inv, Types
    <2> QED
      BY <1>1, <1>3, <2>1, <2>2, TypesStep DEF Inv, Types
  <1>12. ASSUME NEW f \in Engines PROVE TxOK(f)'
    <2>1. CASE f # e
      <3>1. \A g \in Engines \ {f} : DOMAIN tx[f].rows \cap DOMAIN tx'[g].rows = {}
        BY <1>3, ClosedOK DEF Inv, TxOK
      <3> QED
        BY <1>1, <1>3, <1>4, <2>1, <3>1, TxStep
    <2>2. CASE f = e
      BY <1>3, <2>2, ClosedOK DEF TxOK
    <2> QED
      BY <2>1, <2>2
  <1>13. RunOK(e)'
    BY <1>1, <1>4 DEF RunOK, Fills
  <1>14. \A y \in local' : y \in local /\ <<y.cache, y.key>> \notin E
    BY <1>1
  <1> HIDE DEF E
  <1> QED
    BY <1>0, <1>1, <1>6, <1>9, <1>10, <1>11, <1>12, <1>13, <1>14, StepKeepsInv

-----------------------------------------------------------------------------

LEMMA InvStep == Inv /\ [Next]_vars => Inv'
  <1> SUFFICES ASSUME Inv, [Next]_vars PROVE Inv'
    OBVIOUS
  <1>1. CASE UNCHANGED vars
    BY <1>1, UnchangedStep DEF vars, cacheVars, countVars
  <1>2. ASSUME NEW e \in setup.engines, Return(e) PROVE Inv'
    BY <1>2, ReturnStep
  <1>3. CASE Evict
    BY <1>3, UnchangedStep DEF Evict
  <1>4. ASSUME NEW e \in setup.engines,
               \/ Search(e) \/ Select(e) \/ Store(e) \/ Keep(e)
               \/ Load(e) \/ FlushInsert(e) \/ FlushUpdate(e) \/ FlushDelete(e)
               \/ FlushLazy(e) \/ HandleLazy(e) \/ RemoveLocal(e) \/ DelRedis(e)
               \/ Begin(e) \/ Commit(e) \/ Rollback(e)
               \/ Crash(e)
        PROVE  Inv'
    BY <1>4, SearchStep, SelectStep, StoreStep, KeepStep, LoadStep, FlushInsertStep, FlushUpdateStep,
       FlushDeleteStep, FlushLazyStep, HandleLazyStep, RemoveLocalStep, DelRedisStep, BeginStep,
       CommitStep, RollbackStep, CrashStep
  <1> QED
    BY <1>1, <1>2, <1>3, <1>4 DEF Next, Step

\* The keys that a flush deletes are those of every list that it changes, the list
\* that a row leaves, the one that it comes into and the one that it moves in:
\* getCacheQueriesKeys with the entity's old values and with those that it binds.
THEOREM KeysCoverChanges ==
  ASSUME setup \in Setups, NEW T \in [Ids -> RowOrNone], NEW i \in Ids, NEW k \in Keys
  PROVE  /\ \A r \in Row :
              T[i] = Unused /\ k \notin InsertKeys(r) => ListOf(k, [T EXCEPT ![i] = r]) = ListOf(k, T)
         /\ \A r \in Row :
              /\ T[i] \in Row /\ ~T[i].FakeDelete /\ (r.FakeDelete => setup.fake)
              /\ k \notin UpdateKeys(T[i], r)
              => ListOf(k, [T EXCEPT ![i] = r]) = ListOf(k, T)
         /\ T[i] \in Row /\ k \notin DeleteKeys(T[i]) => ListOf(k, [T EXCEPT ![i] = Gone]) = ListOf(k, T)
  <1>1. setup.queries \subseteq DOMAIN Queries
    BY SetupOK
  <1>2. ASSUME NEW r, Same(k, T[i], r) PROVE ListOf(k, [T EXCEPT ![i] = r]) = ListOf(k, T)
    <2> DEFINE U == [T EXCEPT ![i] = r]
    <2>1. \A j \in Ids : Same(k, T[j], U[j])
      BY <1>2, SameRow
    <2> HIDE DEF U
    <2>2. ListOf(k, T) = ListOf(k, U)
      BY <2>1, SameList
    <2> QED
      BY <2>2 DEF U
  <1>3. ASSUME NEW r \in Row, T[i] = Unused, k \notin InsertKeys(r) PROVE Same(k, T[i], r)
    BY <1>1, <1>3, InsertKeysCover
  <1>4. ASSUME NEW r \in Row, T[i] \in Row, ~T[i].FakeDelete, r.FakeDelete => setup.fake,
               k \notin UpdateKeys(T[i], r)
        PROVE  Same(k, T[i], r)
    BY <1>1, <1>4, UpdateKeysCover
  <1>5. ASSUME T[i] \in Row, k \notin DeleteKeys(T[i]) PROVE Same(k, T[i], Gone)
    BY <1>1, <1>5, DeleteKeysCover
  <1> QED
    BY <1>2, <1>3, <1>4, <1>5

LEMMA InvImplies == Inv => RedisListsExplained /\ LocalListsExplained
  <1> SUFFICES ASSUME Inv PROVE RedisListsExplained /\ LocalListsExplained
    OBVIOUS
  <1>1. RedisListsExplained
    BY DEF Inv, RedisOK, Fresh, RedisExcused, RedisListsExplained
  <1>2. LocalListsExplained
    BY DEF Inv, LocalOK, Fresh, LocalExcused, LocalListsExplained
  <1> QED
    BY <1>1, <1>2

LEMMA SpecInv == Spec => []Inv
  BY InvInit, InvStep, PTL DEF Spec

\* A page in Redis (cached_search.go: HSET of the pages that were missing) is of the
\* list that MySQL has, but for the cases that RedisListsExplained names.
THEOREM RedisListsAreExplained == Spec => []RedisListsExplained
  BY SpecInv, InvImplies, PTL

\* A list in a local cache is the one that MySQL has, but for the cases that
\* LocalListsExplained names.
THEOREM LocalListsAreExplained == Spec => []LocalListsExplained
  BY SpecInv, InvImplies, PTL

-----------------------------------------------------------------------------
(* A list is a sequence of ids: a row's rank is its own, and no rank is    *)
(* left out.                                                               *)

\* Induction over numbers, as the least number that is not in a set.
LEMMA Least ==
  ASSUME NEW T \in SUBSET Nat, T # {}
  PROVE  \E n \in T : \A m \in T : n <= m
  <1> DEFINE R == {ss \in Nat \X Nat : ss[1] < ss[2]}
  <1>1. IsWellFoundedOn(R, Nat)
    BY NatLessThanWellFounded DEF OpToRel
  <1> HIDE DEF R
  <1>2. PICK n \in T : \A m \in T : ~(<<m, n>> \in R)
    BY <1>1, WFMin
  <1>3. \A m \in T : ~(m < n)
    BY <1>2 DEF R
  <1> QED
    BY <1>3

LEMMA BeforeIsOrder ==
  ASSUME NEW k, NEW T, T \in [Ids -> RowOrNone]
  PROVE  /\ \A i \in FoundIn(k, T) : ~Before(k, T, i, i)
         /\ \A i, j \in FoundIn(k, T) : i # j => Before(k, T, i, j) \/ Before(k, T, j, i)
         /\ \A i, j, n \in FoundIn(k, T) : Before(k, T, i, j) /\ Before(k, T, j, n) => Before(k, T, i, n)
  <1>1. \A i \in FoundIn(k, T) : i \in Nat /\ T[i].Age \in Nat
    BY IdsAssumption DEF FoundIn, Matches, IsRow, RowOrNone, Row
  <1> QED
    BY <1>1 DEF Before

LEMMA ListIs ==
  ASSUME NEW k, NEW T, T \in [Ids -> RowOrNone]
  PROVE  /\ ListOf(k, T) \in Seq(Ids)
         /\ Len(ListOf(k, T)) = Cardinality(FoundIn(k, T))
  <1> DEFINE X == FoundIn(k, T)
             rank == RankIn(k, T)
             B(i) == {j \in X : Before(k, T, j, i)}
             N == Cardinality(X)
  <1>1. X \subseteq Ids /\ IsFiniteSet(X) /\ N \in Nat
    <2>1. X \in SUBSET Ids
      BY DEF FoundIn
    <2> QED
      BY <2>1, IdsAssumption, FS_Subset, FS_CardinalityType
  <1>2. rank = [i \in X |-> Cardinality(B(i)) + 1]
    BY DEF RankIn
  <1>3. /\ \A i \in X : ~Before(k, T, i, i)
        /\ \A i, j \in X : i # j => Before(k, T, i, j) \/ Before(k, T, j, i)
        /\ \A i, j, n \in X : Before(k, T, i, j) /\ Before(k, T, j, n) => Before(k, T, i, n)
    BY BeforeIsOrder
  <1>4. ListOf(k, T) = [n \in 1 .. N |-> CHOOSE i \in X : rank[i] = n]
    BY DEF ListOf, Sorted
  <1> HIDE DEF X, rank
  <1>5. ASSUME NEW i \in X PROVE B(i) \in SUBSET X /\ IsFiniteSet(B(i)) /\ Cardinality(B(i)) \in 0 .. N - 1
    <2>1. B(i) \in SUBSET X /\ B(i) # X
      BY <1>3, <1>5
    <2> HIDE DEF B
    <2>2. IsFiniteSet(B(i)) /\ Cardinality(B(i)) <= N /\ (N = Cardinality(B(i)) => X = B(i))
      BY <1>1, <2>1, FS_Subset
    <2>3. Cardinality(B(i)) \in Nat
      BY <2>2, FS_CardinalityType
    <2> QED
      BY <1>1, <2>1, <2>2, <2>3
  <1>6. ASSUME NEW i \in X, NEW j \in X, Before(k, T, i, j) PROVE Cardinality(B(i)) < Cardinality(B(j))
    <2>1. B(i) \in SUBSET B(j) /\ B(i) # B(j)
      BY <1>3, <1>6
    <2> HIDE DEF B
    <2>2. /\ IsFiniteSet(B(j)) /\ Cardinality(B(i)) \in Nat /\ Cardinality(B(j)) \in Nat
      BY <1>1, <1>5
    <2>3. Cardinality(B(i)) <= Cardinality(B(j)) /\ (Cardinality(B(j)) = Cardinality(B(i)) => B(j) = B(i))
      BY <2>1, <2>2, FS_Subset
    <2> QED
      BY <2>1, <2>2, <2>3
  <1>7. rank \in [X -> 1 .. N] /\ \A i, j \in X : i # j => rank[i] # rank[j]
    <2> HIDE DEF B
    <2>1. \A i \in X : rank[i] = Cardinality(B(i)) + 1 /\ rank[i] \in 1 .. N
      BY <1>1, <1>2, <1>5
    <2>2. ASSUME NEW i \in X, NEW j \in X, i # j PROVE rank[i] # rank[j]
      <3>1. Cardinality(B(i)) < Cardinality(B(j)) \/ Cardinality(B(j)) < Cardinality(B(i))
        BY <1>3, <1>6, <2>2
      <3> QED
        BY <1>5, <2>1, <3>1
    <2> QED
      BY <1>2, <2>1, <2>2
  <1>8. rank \in Surjection(X, 1 .. N)
    <2>1. rank \in Injection(X, 1 .. N)
      BY <1>7 DEF Injection, IsInjective
    <2>2. IsFiniteSet(1 .. N) /\ Cardinality(1 .. N) = N
      BY <1>1, FS_Interval
    <2> QED
      BY <2>1, <2>2, FS_Injection
  <1>9. \A n \in 1 .. N : \E i \in X : rank[i] = n
    BY <1>8 DEF Surjection
  <1> DEFINE l == [n \in 1 .. N |-> CHOOSE i \in X : rank[i] = n]
  <1>10. \A n \in 1 .. N : l[n] \in Ids
    BY <1>1, <1>9
  <1>11. l \in [1 .. N -> Ids]
    BY <1>10
  <1> HIDE DEF l
  <1>12. l \in Seq(Ids) /\ Len(l) = N
    BY <1>1, <1>11
  <1> QED
    BY <1>4, <1>12 DEF l, X

-----------------------------------------------------------------------------
(* The pages of a list.                                                    *)

LEMMA DivOf ==
  ASSUME NEW a \in Nat, NEW s \in Nat \ {0}
  PROVE  /\ a \div s \in Nat /\ (a \div s) * s \in Nat
         /\ (a \div s) * s <= a /\ a < (a \div s) * s + s
         /\ a % s = a - (a \div s) * s
  OBVIOUS

LEMMA Times ==
  ASSUME NEW m \in Nat, NEW n \in Nat, NEW s \in Nat \ {0}
  PROVE  /\ m * s \in Nat /\ n * s \in Nat /\ (m + 1) * s = m * s + s
         /\ m <= n => m * s <= n * s
         /\ m * s < n * s => m < n
  OBVIOUS

LEMMA PartIs ==
  ASSUME NEW S, NEW l \in Seq(S), NEW m \in Nat \ {0}, NEW n \in Nat, n <= Len(l)
  PROVE  /\ SubSeq(l, m, n) \in Seq(S)
         /\ Len(SubSeq(l, m, n)) = IF m <= n THEN n - m + 1 ELSE 0
         /\ \A i \in 1 .. Len(SubSeq(l, m, n)) : SubSeq(l, m, n)[i] = l[m + i - 1]
  OBVIOUS

LEMMA NoPart ==
  ASSUME NEW l, NEW m \in Nat, NEW n \in Int, n < m
  PROVE  SubSeq(l, m, n) = <<>>
  OBVIOUS

LEMMA PartsJoin ==
  ASSUME NEW S, NEW l \in Seq(S), NEW m \in Nat \ {0}, NEW c \in Nat, NEW n \in Nat,
         m <= c + 1, c <= n, n <= Len(l)
  PROVE  SubSeq(l, m, c) \o SubSeq(l, c + 1, n) = SubSeq(l, m, n)
  <1>1. m \in 1 .. Len(l) + 1 /\ c \in m - 1 .. Len(l) /\ n \in c .. Len(l)
    OBVIOUS
  <1> QED
    BY <1>1, ConcatAdjacentSubSeq

LEMMA PartOfPart ==
  ASSUME NEW S, NEW l \in Seq(S), NEW m \in Nat \ {0}, NEW n \in Nat, n <= Len(l),
         NEW a \in Nat \ {0}, NEW b \in Nat, b <= Len(SubSeq(l, m, n))
  PROVE  SubSeq(SubSeq(l, m, n), a, b) = SubSeq(l, m + a - 1, m + b - 1)
  <1> DEFINE d == SubSeq(l, m, n)
             x == SubSeq(d, a, b)
             y == SubSeq(l, m + a - 1, m + b - 1)
  <1>1. d \in Seq(S) /\ (Len(d) = IF m <= n THEN n - m + 1 ELSE 0) /\ \A i \in 1 .. Len(d) : d[i] = l[m + i - 1]
    BY PartIs
  <1> HIDE DEF d
  <1>2. x \in Seq(S) /\ (Len(x) = IF a <= b THEN b - a + 1 ELSE 0) /\ \A i \in 1 .. Len(x) : x[i] = d[a + i - 1]
    BY <1>1, PartIs DEF d
  <1>3. CASE b < a
    BY <1>3, NoPart DEF d
  <1>4. CASE a <= b
    <2>1. m + a - 1 \in Nat \ {0} /\ m + b - 1 \in Nat /\ m + b - 1 <= Len(l)
      BY <1>1, <1>4 DEF d
    <2>2. y \in Seq(S) /\ Len(y) = b - a + 1 /\ \A i \in 1 .. Len(y) : y[i] = l[(m + a - 1) + i - 1]
      <3> DEFINE M == m + a - 1
                 K == m + b - 1
      <3> HIDE DEF M, K
      <3>1. M \in Nat \ {0} /\ K \in Nat /\ K <= Len(l)
        BY <2>1 DEF M, K
      <3>2. /\ SubSeq(l, M, K) \in Seq(S) /\ (Len(SubSeq(l, M, K)) = IF M <= K THEN K - M + 1 ELSE 0)
            /\ \A i \in 1 .. Len(SubSeq(l, M, K)) : SubSeq(l, M, K)[i] = l[M + i - 1]
        BY <3>1, PartIs
      <3>3. M <= K /\ K - M + 1 = b - a + 1
        BY <1>4 DEF M, K
      <3> QED
        BY <3>2, <3>3 DEF M, K
    <2> HIDE DEF x, y
    <2>3. ASSUME NEW i \in 1 .. Len(x) PROVE x[i] = y[i]
      <3>1. a + i - 1 \in 1 .. Len(d) /\ i \in 1 .. Len(y) /\ m + (a + i - 1) - 1 = (m + a - 1) + i - 1
        BY <1>1, <1>2, <1>4, <2>2, <2>3 DEF d
      <3> QED
        BY <1>1, <1>2, <2>2, <2>3, <3>1
    <2>4. x = y
      BY <1>2, <1>4, <2>2, <2>3
    <2> QED
      BY <2>4 DEF x, y, d
  <1> QED
    BY <1>3, <1>4

\* The part of a list that pages lo to hi of s ids have.
Piece(ids, lo, hi, s) == SubSeq(ids, (lo - 1) * s + 1, SmallerOf(hi * s, Len(ids)))

LEMMA IntervalIs ==
  ASSUME NEW lo \in Nat, NEW hi \in Nat, lo <= hi
  PROVE  LeastOf(lo .. hi) = lo /\ Cardinality(lo .. hi) = hi - lo + 1
  <1>1. lo \in lo .. hi /\ \A n \in lo .. hi : lo <= n
    OBVIOUS
  <1>2. \A m \in lo .. hi : (\A n \in lo .. hi : m <= n) => m = lo
    OBVIOUS
  <1>3. LeastOf(lo .. hi) = lo
    BY <1>1, <1>2 DEF LeastOf
  <1> QED
    BY <1>3, FS_Interval

LEMMA EndsOf ==
  ASSUME NEW M \in SUBSET (Nat \ {0}), M # {}, NEW h \in Nat, \A m \in M : m <= h
  PROVE  /\ LeastOf(M) \in M /\ MostOf(M) \in M
         /\ \A m \in M : LeastOf(M) <= m /\ m <= MostOf(M)
  <1>1. \E n \in M : \A m \in M : n <= m
    BY Least
  <1>2. \E n \in M : \A m \in M : m <= n
    <2> DEFINE T == {h - m : m \in M}
    <2>1. T \in SUBSET Nat /\ T # {}
      <3>1. \A m \in M : h - m \in Nat
        OBVIOUS
      <3> QED
        BY <3>1
    <2> HIDE DEF T
    <2>2. PICK t \in T : \A u \in T : t <= u
      BY <2>1, Least
    <2>3. PICK n \in M : t = h - n
      BY DEF T
    <2>4. ASSUME NEW m \in M PROVE m <= n
      <3>1. h - m \in T
        BY <2>4 DEF T
      <3>2. h - n <= h - m
        BY <2>2, <2>3, <3>1
      <3> QED
        BY <2>3, <2>4, <3>2
    <2> QED
      BY <2>4
  <1> QED
    BY <1>1, <1>2 DEF LeastOf, MostOf

\* The pages of a pager: the first holds its start, the last its end.
LEMMA PagesOf ==
  ASSUME NEW r, r.page \in Nat \ {0}, r.size \in Nat \ {0}, NEW s \in Nat \ {0}
  PROVE  /\ Start(r) \in Nat
         /\ \E lo, hi \in Nat \ {0} :
              /\ CachePages(r, s) = lo .. hi /\ lo <= hi /\ lo = (Start(r) \div s) + 1
              /\ (lo - 1) * s \in Nat /\ (lo - 1) * s <= Start(r) /\ Start(r) < (lo - 1) * s + s
              /\ Start(r) % s = Start(r) - (lo - 1) * s
              /\ hi * s \in Nat /\ Start(r) + r.size <= hi * s
              /\ (hi - 1) * s < Start(r) + r.size
  <1> DEFINE a == Start(r)
             b == a + r.size + s - 1
             lo == (a \div s) + 1
             hi == b \div s
  <1>1. a \in Nat
    BY Times DEF Start
  <1> HIDE DEF a
  <1>2. b \in Nat
    BY <1>1
  <1> HIDE DEF b
  <1>3. a \div s \in Nat /\ (a \div s) * s \in Nat /\ (a \div s) * s <= a /\ a < (a \div s) * s + s
        /\ a % s = a - (a \div s) * s
    BY <1>1, DivOf
  <1>4. hi \in Nat /\ hi * s \in Nat /\ hi * s <= b /\ b < hi * s + s
    BY <1>2, DivOf
  <1>5. lo \in Nat \ {0} /\ lo - 1 = a \div s
    BY <1>3
  <1> HIDE DEF lo, hi
  <1>6. a + r.size <= hi * s
    BY <1>1, <1>4 DEF b
  <1>7. hi # 0
    <2>1. 0 * s = 0
      OBVIOUS
    <2> QED
      BY <1>1, <1>6, <2>1
  <1>8. (lo - 1) * s < hi * s
    BY <1>1, <1>3, <1>4, <1>5, <1>6
  <1>9. lo - 1 < hi
    BY <1>4, <1>5, <1>8, Times
  <1>10. (hi - 1) * s < a + r.size
    <2>1. hi - 1 \in Nat /\ ((hi - 1) + 1) * s = (hi - 1) * s + s /\ (hi - 1) + 1 = hi /\ (hi - 1) * s \in Nat
      BY <1>4, <1>7, Times
    <2> QED
      BY <1>1, <1>4, <2>1 DEF b
  <1>11. CachePages(r, s) = lo .. hi
    BY DEF CachePages, lo, hi, a, b
  <1>12. lo <= hi /\ hi \in Nat \ {0}
    BY <1>4, <1>5, <1>7, <1>9
  <1>13. /\ CachePages(r, s) = lo .. hi /\ lo <= hi /\ lo = (a \div s) + 1
         /\ (lo - 1) * s \in Nat /\ (lo - 1) * s <= a /\ a < (lo - 1) * s + s
         /\ a % s = a - (lo - 1) * s
         /\ hi * s \in Nat /\ a + r.size <= hi * s
         /\ (hi - 1) * s < a + r.size
    BY <1>3, <1>4, <1>5, <1>6, <1>10, <1>11, <1>12 DEF lo
  <1> QED
    BY <1>1, <1>5, <1>12, <1>13 DEF a

\* A page is cut out of what was selected as the list has it, when the SELECT began
\* with the first page.
LEMMA PageIsPiece ==
  ASSUME NEW ids \in Seq(Ids), NEW s \in Nat \ {0}, NEW M \in SUBSET (Nat \ {0}),
         NEW h \in Nat, \A m \in M : m <= h, NEW p \in M, NEW raced \in BOOLEAN
  PROVE  /\ Page(p, M, s, ids, raced) \in Value
         /\ LeastOf(M) = 1 => Page(p, M, s, ids, raced).ids = Piece(ids, p, p, s)
                             /\ ~(IsCut(p, M, s, ids) /\ CutStart(p, M, s) > CutEnd(p, M, s, ids))
  <1> DEFINE least == LeastOf(M)
             most == MostOf(M)
             limit == most * s
             offset == (least - 1) * limit
             all == Selected(ids, M, s)
             low == CutStart(p, M, s)
             high == CutEnd(p, M, s, ids)
  <1>1. least \in M /\ most \in M /\ \A m \in M : least <= m /\ m <= most
    BY EndsOf
  <1> HIDE DEF least, most
  <1>2. least \in Nat \ {0} /\ most \in Nat \ {0} /\ p \in Nat \ {0} /\ p - least \in Nat /\ least - 1 \in Nat
    BY <1>1
  <1>3. limit \in Nat \ {0} /\ p * s <= limit /\ p * s \in Nat /\ 1 * s = s
    <2>1. 1 <= most /\ p <= most
      BY <1>1, <1>2
    <2>2. most * s \in Nat /\ 1 * s <= most * s /\ p * s <= most * s /\ p * s \in Nat
      BY <1>2, <2>1, Times
    <2> QED
      BY <2>2
  <1> HIDE DEF limit
  <1>4. offset \in Nat
    BY <1>2, <1>3
  <1>5. all = SubSeq(ids, offset + 1, SmallerOf(offset + limit, Len(ids)))
    BY DEF Selected, offset, limit, least, most
  <1> HIDE DEF offset
  <1>6. SmallerOf(offset + limit, Len(ids)) \in Nat /\ SmallerOf(offset + limit, Len(ids)) <= Len(ids)
    BY <1>3, <1>4 DEF SmallerOf
  <1>7. all \in Seq(Ids)
    <2> DEFINE o == offset + 1
               e == SmallerOf(offset + limit, Len(ids))
    <2>1. o \in Nat \ {0} /\ e \in Nat /\ e <= Len(ids)
      BY <1>4, <1>6
    <2> HIDE DEF o, e
    <2>2. SubSeq(ids, o, e) \in Seq(Ids)
      BY <2>1, PartIs
    <2> QED
      BY <1>5, <2>2 DEF o, e
  <1> HIDE DEF all
  <1>8. low \in Nat /\ low = (p - least) * s
    <2>1. (p - least) * s \in Nat
      BY <1>2
    <2> QED
      BY <2>1 DEF CutStart, least
  <1> HIDE DEF low
  <1>9. high = SmallerOf(SmallerOf(low + s, Len(ids)), Len(all))
    BY DEF CutEnd, low, all
  <1>10. high \in Nat /\ high <= Len(all)
    BY <1>7, <1>8, <1>9 DEF SmallerOf
  <1> HIDE DEF high
  <1>11. SubSeq(all, low + 1, high) \in Seq(Ids)
    <2>1. low + 1 \in Nat \ {0}
      BY <1>8
    <2> QED
      BY <1>7, <1>10, <2>1, PartIs
  <1>12. /\ IsCut(p, M, s, ids) <=> low <= Len(ids) /\ all # <<>>
         /\ Page(p, M, s, ids, raced) =
              [total |-> Len(ids),
               ids |-> IF IsCut(p, M, s, ids) THEN SubSeq(all, low + 1, high) ELSE <<>>,
               of |-> ids, first |-> least, size |-> s, raced |-> raced]
    BY DEF IsCut, Page, low, high, all, least
  <1>13. Page(p, M, s, ids, raced) \in Value
    <2>1. (IF IsCut(p, M, s, ids) THEN SubSeq(all, low + 1, high) ELSE <<>>) \in Seq(Ids)
      BY <1>11, EmptySeq
    <2> QED
      BY <1>2, <1>12, <2>1 DEF Value
  <1>14. ASSUME least = 1
         PROVE  /\ Page(p, M, s, ids, raced).ids = Piece(ids, p, p, s)
                /\ ~(IsCut(p, M, s, ids) /\ low > high)
    <2>1. offset = 0
      BY <1>3, <1>14 DEF offset
    <2>2. /\ all = SubSeq(ids, 1, SmallerOf(limit, Len(ids)))
          /\ Len(all) = SmallerOf(limit, Len(ids))
      <3>1. all = SubSeq(ids, 1, SmallerOf(limit, Len(ids)))
        <4>1. offset + 1 = 1 /\ offset + limit = limit
          BY <1>3, <2>1
        <4> QED
          BY <1>5, <4>1
      <3>2. SmallerOf(limit, Len(ids)) \in Nat /\ SmallerOf(limit, Len(ids)) <= Len(ids)
        BY <1>3 DEF SmallerOf
      <3>3. Len(SubSeq(ids, 1, SmallerOf(limit, Len(ids)))) =
              IF 1 <= SmallerOf(limit, Len(ids)) THEN SmallerOf(limit, Len(ids)) - 1 + 1 ELSE 0
        BY <3>2, PartIs
      <3> QED
        BY <3>1, <3>2, <3>3
    <2>3. low = (p - 1) * s /\ p * s = low + s
      <3>1. p - 1 \in Nat /\ (p - 1) + 1 = p /\ ((p - 1) + 1) * s = (p - 1) * s + s
        BY <1>2, Times
      <3> QED
        BY <1>8, <1>14, <3>1
    <2>4. high = SmallerOf(p * s, Len(ids))
      BY <1>3, <1>8, <1>9, <2>2, <2>3 DEF SmallerOf
    <2>5. Piece(ids, p, p, s) = SubSeq(ids, low + 1, high)
      BY <2>3, <2>4 DEF Piece
    <2>6. SubSeq(all, low + 1, high) = SubSeq(ids, low + 1, high)
      <3> DEFINE n == SmallerOf(limit, Len(ids))
                 u == low + 1
      <3>1. n \in Nat /\ n <= Len(ids) /\ u \in Nat \ {0} /\ 1 \in Nat \ {0}
        BY <1>3, <1>8 DEF SmallerOf
      <3>2. all = SubSeq(ids, 1, n) /\ high <= Len(SubSeq(ids, 1, n))
        BY <1>10, <2>2
      <3> HIDE DEF n, u
      <3>3. SubSeq(SubSeq(ids, 1, n), u, high) = SubSeq(ids, 1 + u - 1, 1 + high - 1)
        BY <1>10, <3>1, <3>2, PartOfPart
      <3>4. 1 + u - 1 = u /\ 1 + high - 1 = high
        BY <1>10, <3>1
      <3> QED
        BY <3>2, <3>3, <3>4 DEF u
    <2>7. ASSUME ~IsCut(p, M, s, ids) PROVE Piece(ids, p, p, s) = <<>>
      <3>1. high < low + 1
        <4>1. CASE low > Len(ids)
          BY <1>3, <1>8, <2>4, <4>1 DEF SmallerOf
        <4>2. CASE all = <<>>
          BY <1>8, <1>10, <4>2
        <4> QED
          BY <1>8, <1>12, <2>7, <4>1, <4>2
      <3> QED
        BY <1>8, <1>10, <2>5, <3>1, NoPart
    <2>8. low <= Len(ids) => low <= high
      BY <1>3, <1>8, <2>3, <2>4 DEF SmallerOf
    <2>9. Page(p, M, s, ids, raced).ids = Piece(ids, p, p, s)
      <3> DEFINE cut == IF IsCut(p, M, s, ids) THEN SubSeq(all, low + 1, high) ELSE <<>>
      <3>1. cut = Piece(ids, p, p, s)
        BY <2>5, <2>6, <2>7
      <3> HIDE DEF cut
      <3>2. Page(p, M, s, ids, raced) = [total |-> Len(ids), ids |-> cut, of |-> ids, first |-> least,
                                         size |-> s, raced |-> raced]
        BY <1>12 DEF cut
      <3> QED
        BY <3>1, <3>2
    <2> QED
      BY <1>8, <1>10, <1>12, <2>8, <2>9
  <1> QED
    BY <1>13, <1>14 DEF least, low, high

LEMMA NoCutPanics ==
  ASSUME NEW ids \in Seq(Ids), NEW s \in Nat \ {0}, NEW M \in SUBSET (Nat \ {0}),
         NEW h \in Nat, \A m \in M : m <= h, LeastOf(M) = 1
  PROVE  ~CutPanics(M, s, ids)
  <1>1. \A p \in M : ~(IsCut(p, M, s, ids) /\ CutStart(p, M, s) > CutEnd(p, M, s, ids))
    BY PageIsPiece
  <1> QED
    BY <1>1 DEF CutPanics

\* What FlattenSeq computes, from what it has computed before.
LEMMA FlattenIs ==
  ASSUME NEW N \in Nat \ {0}, NEW S, NEW seqs \in [1 .. N -> S], NEW w \in [1 .. N -> S],
         w[1] = seqs[1], \A n \in 2 .. N : w[n] = w[n - 1] \o seqs[n]
  PROVE  FlattenSeq(seqs) = w[N]
  <1> DEFINE F(g) == g = [i \in 1 .. N |-> IF i = 1 THEN seqs[i] ELSE g[i - 1] \o seqs[i]]
  <1>0. Len(seqs) = N
    OBVIOUS
  <1>1. F(w)
    <2>1. \A n \in 1 .. N : w[n] = IF n = 1 THEN seqs[n] ELSE w[n - 1] \o seqs[n]
      <3>1. \A n \in 1 .. N : n # 1 => n \in 2 .. N
        OBVIOUS
      <3> QED
        BY <3>1
    <2> QED
      BY <2>1
  <1>2. ASSUME NEW g, F(g) PROVE g = w
    <2> DEFINE T == {n \in 1 .. N : g[n] # w[n]}
    <2>1. ASSUME T # {} PROVE FALSE
      <3>1. T \in SUBSET Nat
        OBVIOUS
      <3> HIDE DEF T
      <3>2. PICK n \in T : \A m \in T : n <= m
        BY <2>1, <3>1, Least
      <3>3. n \in 1 .. N /\ g[n] # w[n]
        BY <3>2 DEF T
      <3>4. n # 1
        BY <1>2, <3>3
      <3>5. n - 1 \in 1 .. N /\ n - 1 \notin T /\ n \in 2 .. N
        BY <3>1, <3>2, <3>3, <3>4
      <3>6. g[n - 1] = w[n - 1]
        BY <3>5 DEF T
      <3>7. g[n] = g[n - 1] \o seqs[n]
        BY <1>2, <3>3, <3>4
      <3> QED
        BY <3>3, <3>5, <3>6, <3>7
    <2>2. \A n \in 1 .. N : g[n] = w[n]
      BY <2>1
    <2> QED
      BY <1>2, <2>2
  <1>3. FlattenSeq(seqs) = (CHOOSE g : F(g))[N]
    BY <1>0 DEF FlattenSeq
  <1> HIDE DEF F
  <1>4. (CHOOSE g : F(g)) = w
    BY <1>1, <1>2
  <1> QED
    BY <1>3, <1>4

LEMMA PieceIs ==
  ASSUME NEW ids \in Seq(Ids), NEW s \in Nat \ {0}, NEW lo \in Nat \ {0}, NEW hi \in Nat \ {0}
  PROVE  Piece(ids, lo, hi, s) \in Seq(Ids)
  <1> DEFINE u == (lo - 1) * s + 1
             n == SmallerOf(hi * s, Len(ids))
  <1>1. lo - 1 \in Nat /\ Len(ids) \in Nat
    OBVIOUS
  <1>2. (lo - 1) * s \in Nat /\ hi * s \in Nat
    BY <1>1, Times
  <1>3. u \in Nat \ {0} /\ n \in Nat /\ n <= Len(ids)
    BY <1>1, <1>2 DEF SmallerOf
  <1> HIDE DEF u, n
  <1>4. SubSeq(ids, u, n) \in Seq(Ids)
    BY <1>3, PartIs
  <1> QED
    BY <1>4 DEF Piece, u, n

LEMMA PiecesJoin ==
  ASSUME NEW ids \in Seq(Ids), NEW s \in Nat \ {0}, NEW lo \in Nat \ {0}, NEW m \in Nat, lo <= m
  PROVE  Piece(ids, lo, m, s) \o Piece(ids, m + 1, m + 1, s) = Piece(ids, lo, m + 1, s)
  <1> DEFINE A == (lo - 1) * s
             C == m * s
             D == (m + 1) * s
             L == Len(ids)
  <1>1. A \in Nat /\ C \in Nat /\ D = C + s /\ A <= C
    <2>1. lo - 1 \in Nat /\ lo - 1 <= m
      OBVIOUS
    <2> QED
      BY <2>1, Times
  <1>2. (m + 1) - 1 = m /\ L \in Nat
    OBVIOUS
  <1>3. /\ Piece(ids, lo, m, s) = SubSeq(ids, A + 1, SmallerOf(C, L))
        /\ Piece(ids, m + 1, m + 1, s) = SubSeq(ids, C + 1, SmallerOf(D, L))
        /\ Piece(ids, lo, m + 1, s) = SubSeq(ids, A + 1, SmallerOf(D, L))
    BY <1>2 DEF Piece
  <1> HIDE DEF A, C, D
  <1>4. CASE C <= L
    <2> DEFINE n == SmallerOf(D, L)
               u == A + 1
    <2>1. n \in Nat /\ n <= L /\ C <= n /\ u \in Nat \ {0} /\ u <= C + 1 /\ SmallerOf(C, L) = C
      BY <1>1, <1>2, <1>4 DEF SmallerOf
    <2> HIDE DEF n, u
    <2>2. SubSeq(ids, u, C) \o SubSeq(ids, C + 1, n) = SubSeq(ids, u, n)
      BY <1>1, <2>1, PartsJoin
    <2> QED
      BY <1>3, <2>1, <2>2 DEF n, u
  <1>5. CASE C > L
    <2>1. SmallerOf(C, L) = L /\ SmallerOf(D, L) = L /\ L < C + 1 /\ A + 1 \in Nat \ {0} /\ C + 1 \in Nat
      BY <1>1, <1>2, <1>5 DEF SmallerOf
    <2>2. SubSeq(ids, C + 1, L) = <<>>
      BY <1>2, <2>1, NoPart
    <2>3. SubSeq(ids, A + 1, L) \in Seq(Ids)
      <3> DEFINE u == A + 1
      <3>1. u \in Nat \ {0} /\ L <= Len(ids)
        BY <1>2, <2>1
      <3> HIDE DEF u
      <3>2. SubSeq(ids, u, L) \in Seq(Ids)
        BY <1>2, <3>1, PartIs
      <3> QED
        BY <3>2 DEF u
    <2>4. SubSeq(ids, A + 1, L) \o <<>> = SubSeq(ids, A + 1, L)
      BY <2>3, ConcatEmptySeq
    <2> QED
      BY <1>3, <2>1, <2>2, <2>4
  <1> QED
    BY <1>1, <1>2, <1>4, <1>5

LEMMA ConcatIs ==
  ASSUME NEW ids \in Seq(Ids), NEW s \in Nat \ {0}, NEW lo \in Nat \ {0}, NEW hi \in Nat \ {0}, lo <= hi,
         NEW found, \A p \in lo .. hi : found[p].ids = Piece(ids, p, p, s)
  PROVE  Concat(found, lo .. hi) = Piece(ids, lo, hi, s)
  <1> DEFINE N == hi - lo + 1
             seqs == [n \in 1 .. N |-> found[lo + n - 1].ids]
             w == [n \in 1 .. N |-> Piece(ids, lo, lo + n - 1, s)]
  <1>1. N \in Nat \ {0} /\ lo + N - 1 = hi /\ lo + 1 - 1 = lo
    OBVIOUS
  <1>2. Concat(found, lo .. hi) = FlattenSeq(seqs)
    BY IntervalIs DEF Concat
  <1>3. \A n \in 1 .. N : seqs[n] = Piece(ids, lo + n - 1, lo + n - 1, s)
    <2>1. \A n \in 1 .. N : lo + n - 1 \in lo .. hi
      OBVIOUS
    <2> QED
      BY <2>1
  <1>4. w[1] = seqs[1]
    BY <1>1, <1>3
  <1>5. ASSUME NEW n \in 2 .. N PROVE w[n] = w[n - 1] \o seqs[n]
    <2> DEFINE m == lo + (n - 1) - 1
    <2>1. m \in Nat /\ lo <= m /\ m + 1 = lo + n - 1 /\ n \in 1 .. N /\ n - 1 \in 1 .. N
      OBVIOUS
    <2>2. /\ w[n] = Piece(ids, lo, lo + n - 1, s) /\ w[n - 1] = Piece(ids, lo, m, s)
          /\ seqs[n] = Piece(ids, lo + n - 1, lo + n - 1, s)
      BY <1>3, <2>1
    <2> HIDE DEF m, w, seqs
    <2>3. Piece(ids, lo, m, s) \o Piece(ids, m + 1, m + 1, s) = Piece(ids, lo, m + 1, s)
      BY <2>1, PiecesJoin
    <2> QED
      BY <2>1, <2>2, <2>3
  <1>6. w[N] = Piece(ids, lo, hi, s)
    BY <1>1
  <1>7. seqs \in [1 .. N -> Seq(Ids)] /\ w \in [1 .. N -> Seq(Ids)]
    <2>1. \A n \in 1 .. N : lo + n - 1 \in Nat \ {0} /\ lo <= lo + n - 1
      OBVIOUS
    <2>2. \A n \in 1 .. N : seqs[n] \in Seq(Ids) /\ w[n] \in Seq(Ids)
      BY <1>3, <2>1, PieceIs
    <2> QED
      BY <2>2
  <1> HIDE DEF N, seqs, w
  <1>8. FlattenSeq(seqs) = w[N]
    <2>1. N \in Nat \ {0}
      BY <1>1
    <2>2. \A n \in 2 .. N : w[n] = w[n - 1] \o seqs[n]
      BY <1>5
    <2> QED
      BY <1>4, <1>7, <2>1, <2>2, FlattenIs
  <1> QED
    BY <1>2, <1>6, <1>8

LEMMA AnswerIs ==
  ASSUME NEW ids \in Seq(Ids), NEW s \in Nat \ {0}, NEW r, r.page \in Nat \ {0}, r.size \in Nat \ {0},
         NEW found, \A p \in CachePages(r, s) : found[p].ids = Piece(ids, p, p, s)
  PROVE  Answer(r, s, found, Len(ids)) =
           [total |-> Len(ids), ids |-> Asked(r, ids), panics |-> RunsPast(r, ids, s)]
  <1> DEFINE a == Start(r)
             L == Len(ids)
  <1>1. a \in Nat /\ L \in Nat
    BY PagesOf
  <1>2. PICK lo \in Nat \ {0}, hi \in Nat \ {0} :
          /\ CachePages(r, s) = lo .. hi /\ lo <= hi
          /\ (lo - 1) * s \in Nat /\ (lo - 1) * s <= Start(r)
          /\ Start(r) % s = Start(r) - (lo - 1) * s
          /\ hi * s \in Nat /\ Start(r) + r.size <= hi * s
    BY PagesOf
  <1> DEFINE A == (lo - 1) * s
             H == SmallerOf(hi * s, L)
             all == Concat(found, CachePages(r, s))
             start == a - A
             end == SmallerOf(start + r.size, Len(all))
  <1>3. all = SubSeq(ids, A + 1, H) /\ LeastOf(CachePages(r, s)) = lo
    <2>1. Concat(found, lo .. hi) = Piece(ids, lo, hi, s)
      <3>1. \A p \in lo .. hi : found[p].ids = Piece(ids, p, p, s)
        BY <1>2
      <3> QED
        BY <1>2, <3>1, ConcatIs
    <2>2. LeastOf(lo .. hi) = lo
      BY <1>2, IntervalIs
    <2> QED
      BY <1>2, <2>1, <2>2 DEF Piece
  <1>4. Answer(r, s, found, L) =
          IF start > L THEN [total |-> L, ids |-> <<>>, panics |-> FALSE]
          ELSE IF start > end THEN [total |-> L, ids |-> <<>>, panics |-> TRUE]
          ELSE [total |-> L, ids |-> SubSeq(all, start + 1, end), panics |-> FALSE]
    BY <1>3 DEF Answer
  <1>5. A \in Nat /\ A <= a /\ start \in Nat /\ a = A + start
    <2>1. A \in Nat /\ A <= a
      BY <1>2
    <2> HIDE DEF A, a
    <2> QED
      BY <1>1, <2>1
  <1>6. H \in Nat /\ H <= L /\ (H = L \/ a + r.size <= H)
    BY <1>1, <1>2 DEF SmallerOf
  <1>7. RunsPast(r, ids, s) <=> a > L /\ start \in 1 .. L
    BY <1>2 DEF RunsPast
  <1>8. Asked(r, ids) = SubSeq(ids, a + 1, SmallerOf(a + r.size, L))
    BY DEF Asked
  <1> HIDE DEF A, H, a, L, all, start
  <1>9. all \in Seq(Ids) /\ Len(all) = (IF A + 1 <= H THEN H - A ELSE 0) /\ Len(all) \in Nat
    <2> DEFINE u == A + 1
    <2>1. u \in Nat \ {0} /\ H <= Len(ids)
      BY <1>5, <1>6 DEF L
    <2> HIDE DEF u
    <2>2. SubSeq(ids, u, H) \in Seq(Ids) /\ Len(SubSeq(ids, u, H)) = IF u <= H THEN H - u + 1 ELSE 0
      BY <1>6, <2>1, PartIs
    <2>3. u <= H => H - u + 1 = H - A
      BY <1>5, <1>6 DEF u
    <2> QED
      BY <1>3, <1>5, <1>6, <2>2, <2>3 DEF u
  <1>10. end \in Nat /\ end <= Len(all) /\ end <= start + r.size /\ (end = Len(all) \/ end = start + r.size)
    BY <1>5, <1>9 DEF SmallerOf
  <1> HIDE DEF end
  <1>11. a > L => Asked(r, ids) = <<>>
    <2> SUFFICES ASSUME a > L PROVE Asked(r, ids) = <<>>
      OBVIOUS
    <2>1. SmallerOf(a + r.size, L) = L /\ a + 1 \in Nat /\ L < a + 1
      BY <1>1 DEF SmallerOf
    <2> QED
      BY <1>1, <1>8, <2>1, NoPart
  <1>0. RunsPast(r, ids, s) \in BOOLEAN
    BY DEF RunsPast
  <1>12. CASE start > L
    <2>1. a > L /\ start \notin 1 .. L
      BY <1>1, <1>5, <1>12
    <2>2. RunsPast(r, ids, s) = FALSE
      BY <1>0, <1>7, <2>1
    <2> QED
      BY <1>4, <1>11, <1>12, <2>1, <2>2 DEF L
  <1>13. CASE start <= L /\ start > end
    <2>1. a > L
      BY <1>1, <1>5, <1>6, <1>9, <1>10, <1>13
    <2>2. start \in 1 .. L
      BY <1>1, <1>5, <1>10, <1>13
    <2>3. RunsPast(r, ids, s) = TRUE /\ ~(start > L)
      BY <1>0, <1>1, <1>5, <1>7, <1>13, <2>1, <2>2
    <2> QED
      BY <1>4, <1>11, <1>13, <2>1, <2>3 DEF L
  <1>14. CASE start <= L /\ start <= end
    <2>1. ~(a > L /\ start \in 1 .. L)
      BY <1>1, <1>5, <1>6, <1>9, <1>10, <1>14
    <2>2. SubSeq(all, start + 1, end) = SubSeq(ids, a + 1, A + end)
      <3> DEFINE u == A + 1
                 m == start + 1
      <3>1. u \in Nat \ {0} /\ m \in Nat \ {0} /\ H <= Len(ids)
        BY <1>5, <1>6 DEF L
      <3>2. all = SubSeq(ids, u, H) /\ u + m - 1 = a + 1 /\ u + end - 1 = A + end
        BY <1>3, <1>5, <1>10
      <3> HIDE DEF u, m
      <3>3. SubSeq(SubSeq(ids, u, H), m, end) = SubSeq(ids, u + m - 1, u + end - 1)
        BY <1>6, <1>10, <3>1, <3>2, PartOfPart
      <3> QED
        BY <3>2, <3>3 DEF m
    <2>3. SubSeq(ids, a + 1, A + end) = Asked(r, ids)
      <3>1. CASE A + 1 <= H
        <4>1. A + end = SmallerOf(a + r.size, L)
          <5>1. Len(all) = H - A
            BY <1>9, <3>1
          <5>2. CASE end = Len(all)
            <6>1. A + end = H /\ H <= a + r.size
              BY <1>5, <1>6, <1>10, <5>1, <5>2
            <6> QED
              BY <1>1, <1>6, <6>1 DEF SmallerOf
          <5>3. CASE end = start + r.size
            <6>1. A + end = a + r.size /\ a + r.size <= H
              BY <1>5, <1>6, <1>10, <5>1, <5>3
            <6> QED
              BY <1>1, <1>6, <6>1 DEF SmallerOf
          <5> QED
            BY <1>10, <5>2, <5>3
        <4> QED
          BY <1>8, <4>1
      <3>2. CASE ~(A + 1 <= H)
        <4>1. end = 0 /\ start = 0
          BY <1>5, <1>6, <1>9, <1>10, <1>14, <3>2
        <4>2. A + end < a + 1 /\ a + 1 \in Nat /\ A + end \in Int
          BY <1>1, <1>5, <4>1
        <4>3. SmallerOf(a + r.size, L) < a + 1 /\ SmallerOf(a + r.size, L) \in Int
          BY <1>1, <1>5, <1>6, <3>2, <4>1 DEF SmallerOf
        <4> QED
          BY <1>8, <4>2, <4>3, NoPart
      <3> QED
        BY <3>1, <3>2
    <2>4. RunsPast(r, ids, s) = FALSE /\ ~(start > L) /\ ~(start > end)
      BY <1>0, <1>1, <1>5, <1>7, <1>10, <1>14, <2>1
    <2> QED
      BY <1>4, <2>2, <2>3, <2>4 DEF L
  <1> QED
    BY <1>1, <1>5, <1>10, <1>12, <1>13, <1>14 DEF L

\* A queryOne finds one id or none.
LEMMA OneAnswerIs ==
  ASSUME NEW ids \in Seq(Ids), Len(ids) <= 1
  PROVE  Piece(ids, 1, 1, 1) = ids /\ Asked(Single, ids) = ids
  <1>1. SmallerOf(1, Len(ids)) = Len(ids) /\ Len(ids) \in Nat
    BY DEF SmallerOf
  <1>2. SubSeq(ids, 1, Len(ids)) = ids
    BY SubSeqFull
  <1>3. (1 - 1) * 1 + 1 = 1 /\ 1 * 1 = 1 /\ (1 - 1) * 1 = 0 /\ 0 + 1 = 1
    OBVIOUS
  <1>4. Start(Single) = 0 /\ Single.size = 1
    BY <1>3 DEF Start, Single
  <1> QED
    BY <1>1, <1>2, <1>3, <1>4 DEF Piece, Asked

-----------------------------------------------------------------------------
(* What the caches and the searches have, beside what Inv says.            *)

\* Rows differ from each other in the table and in what the connections see of it.
Unique ==
    /\ \A i, j \in Ids : i # j /\ IsRow(rows[i]) => rows[i] # rows[j]
    /\ \A e, f \in Engines, i, j \in Ids : i # j /\ IsRow(View(e)[i]) => View(e)[i] # View(f)[j]

\* Page p of list k.
PageOf(k, p, v) ==
    /\ v \in Value /\ v.size # 0
    /\ v.total = Len(v.of)
    /\ IsOne(k) => Len(v.of) <= 1
    /\ p \in Nat \ {0} /\ (p - 1) * v.size < ListMax
    /\ v.first = 1 => v.ids = Piece(v.of, p, p, v.size)

Stored ==
    /\ \A x \in redis : PageOf(x.key, x.page, x.value)
    /\ \A x, y \in redis : x.key = y.key /\ x.page = y.page => x = y
    /\ \A x \in local : PageOf(x.key, 1, x.value)
    /\ \A x, y \in local : x.cache = y.cache /\ x.key = y.key => x = y

Named == lost \subseteq Keys /\ unseen \subseteq (Caches \cup {None}) \X Keys

\* A search has the pages that its pager is in, or is to select them.
Searching(at) == at \in {"select", "store", "keep"}
PagerOK(k, r) == IF IsOne(k) THEN r = Single ELSE r \in setup.pagers
Asking(e) ==
    Searching(run[e].at) =>
      LET k == run[e].key
          pages == PagesFor(e, k, run[e].pager)
      IN  /\ PagerOK(k, run[e].pager)
          /\ run[e].missing \subseteq pages
          /\ IF run[e].at = "select" THEN run[e].missing # {} /\ DOMAIN run[e].found = pages \ run[e].missing
             ELSE DOMAIN run[e].found = pages
          /\ \A p \in DOMAIN run[e].found : PageOf(k, p, run[e].found[p])

\* What AnswerIsPage says of one engine.
IdsOf(found) == found[CHOOSE p \in DOMAIN found : TRUE].of
OfOneList(e) ==
    LET found == run[e].found
    IN  \A p \in DOMAIN found : /\ found[p].of = IdsOf(found) /\ found[p].first = 1
                                /\ found[p].size = IF IsOne(run[e].key) THEN 1 ELSE PageSize(e)
RightAnswer(e) ==
    LET ids == IdsOf(run[e].found)
    IN  [total |-> Len(ids), ids |-> Asked(run[e].pager, ids),
         panics |-> ~IsOne(run[e].key) /\ RunsPast(run[e].pager, ids, PageSize(e))]
AnswerOK(e) == run[e].at = "answered" /\ OfOneList(e) => run[e].answer = RightAnswer(e)

Answers ==
    /\ Unique /\ Stored /\ Named
    /\ \A e \in Engines : Asking(e) /\ AnswerOK(e)

LEMMA AnswersInit == Init => Answers
  <1> SUFFICES ASSUME Init PROVE Answers
    OBVIOUS
  <1>1. \A e \in Engines : run[e].at = "idle" /\ tx[e].rows = <<>>
    BY DEF Init, Idle, Closed
  <1>2. Unique
    <2>1. \A e \in Engines : View(e) = [i \in Ids |-> rows[i]]
      BY <1>1 DEF View
    <2>2. \A i, j \in Ids : i # j /\ IsRow(rows[i]) => rows[i] # rows[j]
      BY SetupsAssumption DEF Init, IsRow
    <2>3. \A e \in Engines, i \in Ids : View(e)[i] = rows[i]
      BY <2>1
    <2> QED
      BY <2>2, <2>3 DEF Unique
  <1>3. Stored /\ Named
    BY DEF Init, Stored, Named
  <1>4. \A e \in Engines : Asking(e) /\ AnswerOK(e)
    BY <1>1 DEF Asking, Searching, AnswerOK
  <1> QED
    BY <1>2, <1>3, <1>4 DEF Answers

LEMMA KeysStay == setup' = setup => Keys' = Keys
  BY DEF Keys, KeysOf

\* A queryOne asks for a row of the unique index.
LEMMA OneRow ==
  ASSUME Inv, NEW k \in Keys, IsOne(k), NEW T, T \in [Ids -> RowOrNone],
         \A i, j \in Ids : i # j /\ IsRow(T[i]) => T[i] # T[j]
  PROVE  Len(ListOf(k, T)) <= 1
  <1>1. k.query \in DOMAIN Queries
    BY KeysShape, SetupOK DEF Inv, Types
  <1>2. k.query = "One"
    BY <1>1 DEF IsOne, Queries
  <1>3. Queries["One"].where = <<"Name", "Age">>
    BY DEF Queries
  <1>4. \A i, j \in FoundIn(k, T) : i = j
    <2> SUFFICES ASSUME NEW i \in FoundIn(k, T), NEW j \in FoundIn(k, T) PROVE i = j
      OBVIOUS
    <2>1. /\ i \in Ids /\ j \in Ids /\ IsRow(T[i]) /\ IsRow(T[j]) /\ T[i] \in Row /\ T[j] \in Row
          /\ ~T[i].FakeDelete /\ ~T[j].FakeDelete
          /\ ParametersOf(Queries["One"], T[i]) = ParametersOf(Queries["One"], T[j])
      BY <1>2 DEF FoundIn, Matches, IsRow, RowOrNone
    <2>2. ASSUME NEW row
          PROVE  ParametersOf(Queries["One"], row)[1] = row["Name"] /\ ParametersOf(Queries["One"], row)[2] = row["Age"]
      <3> DEFINE w == <<"Name", "Age">>
      <3>1. Len(w) = 2 /\ w[1] = "Name" /\ w[2] = "Age" /\ 1 \in 1 .. 2 /\ 2 \in 1 .. 2
        OBVIOUS
      <3>2. ParametersOf(Queries["One"], row) = [c \in 1 .. Len(w) |-> row[w[c]]]
        BY <1>3 DEF ParametersOf
      <3> HIDE DEF w
      <3> QED
        BY <3>1, <3>2
    <2>3. T[i]["Name"] = T[j]["Name"] /\ T[i]["Age"] = T[j]["Age"]
      BY <2>1, <2>2
    <2>4. T[i] = T[j]
      BY <2>1, <2>3 DEF Row
    <2> QED
      BY <2>1, <2>4
  <1>5. Cardinality(FoundIn(k, T)) <= 1
    <2>1. CASE FoundIn(k, T) = {}
      BY <2>1, FS_EmptySet
    <2>2. CASE FoundIn(k, T) # {}
      <3>1. PICK i : FoundIn(k, T) = {i}
        BY <1>4, <2>2
      <3> QED
        BY <3>1, FS_Singleton
    <2> QED
      BY <2>1, <2>2
  <1> QED
    BY <1>5, ListIs

-----------------------------------------------------------------------------
(* The table.                                                              *)

LEMMA ViewIs ==
  ASSUME NEW e \in Engines, NEW i \in Ids
  PROVE  View(e)[i] = IF i \in DOMAIN tx[e].rows THEN tx[e].rows[i] ELSE rows[i]
  BY DEF View

LEMMA UniqueSame ==
  ASSUME Unique, rows' = rows, \A f \in Engines : tx'[f].rows = tx[f].rows
  PROVE  Unique'
  <1>1. \A f \in Engines : View(f)' = View(f)
    BY DEF View
  <1> QED
    BY <1>1 DEF Unique, IsRow

\* A transaction that ends without COMMIT.
LEMMA UniqueEnds ==
  ASSUME Inv, Unique, rows' = rows, NEW e \in Engines, tx' = [tx EXCEPT ![e] = Closed]
  PROVE  Unique'
  <1>1. tx'[e].rows = <<>> /\ \A f \in Engines \ {e} : tx'[f] = tx[f]
    BY DEF Inv, Types, Closed
  <1>2. \A i \in Ids : View(e)'[i] = rows[i]
    BY <1>1 DEF View
  <1>3. \A f \in Engines \ {e} : View(f)' = View(f)
    BY <1>1 DEF View
  \* A row that e alone does not see is seen by the others.
  <1>4. ASSUME NEW f \in Engines \ {e}, NEW i \in Ids PROVE rows[i] = View(e)[i] \/ rows[i] = View(f)[i]
    <2>1. DOMAIN tx[e].rows \cap DOMAIN tx[f].rows = {}
      BY DEF Inv, TxOK
    <2> QED
      BY <2>1, ViewIs
  <1>5. ASSUME NEW f \in Engines, NEW g \in Engines, NEW i \in Ids, NEW j \in Ids, i # j, IsRow(View(f)'[i])
        PROVE  View(f)'[i] # View(g)'[j]
    <2>1. CASE f = e /\ g = e
      BY <1>2, <1>5, <2>1 DEF Unique
    <2>2. CASE f = e /\ g # e
      BY <1>2, <1>3, <1>4, <1>5, <2>2 DEF Unique
    <2>3. CASE f # e /\ g = e
      BY <1>2, <1>3, <1>4, <1>5, <2>3 DEF Unique
    <2>4. CASE f # e /\ g # e
      BY <1>3, <1>5, <2>4 DEF Unique
    <2> QED
      BY <2>1, <2>2, <2>3, <2>4
  <1>6. \A i, j \in Ids : i # j /\ IsRow(rows'[i]) => rows'[i] # rows'[j]
    BY DEF Unique
  <1> QED
    BY <1>5, <1>6 DEF Unique, IsRow

LEMMA UniqueCommit ==
  ASSUME Inv, Unique, NEW e \in Engines, rows' = View(e), tx' = [tx EXCEPT ![e] = Closed]
  PROVE  Unique'
  <1>1. tx'[e].rows = <<>> /\ \A f \in Engines \ {e} : tx'[f] = tx[f]
    BY DEF Inv, Types, Closed
  <1>2. \A i \in Ids : View(e)'[i] = View(e)[i]
    BY <1>1 DEF View
  <1>3. ASSUME NEW f \in Engines, NEW i \in Ids PROVE View(f)'[i] \in {View(f)[i], View(e)[i]}
    <2>1. CASE f = e
      BY <1>2, <2>1
    <2>2. CASE f # e
      <3>1. View(f)'[i] = IF i \in DOMAIN tx[f].rows THEN tx[f].rows[i] ELSE View(e)[i]
        BY <1>1, <2>2 DEF View
      <3> QED
        BY <3>1, ViewIs
    <2> QED
      BY <2>1, <2>2
  <1>4. ASSUME NEW f \in Engines, NEW g \in Engines, NEW i \in Ids, NEW j \in Ids, i # j, IsRow(View(f)'[i])
        PROVE  View(f)'[i] # View(g)'[j]
    <2>1. View(f)'[i] \in {View(f)[i], View(e)[i]} /\ View(g)'[j] \in {View(g)[j], View(e)[j]}
      BY <1>3
    <2> QED
      BY <1>4, <2>1 DEF Unique
  <1>5. \A i, j \in Ids : i # j /\ IsRow(rows'[i]) => rows'[i] # rows'[j]
    BY DEF Unique
  <1> QED
    BY <1>4, <1>5 DEF Unique, IsRow

LEMMA UniqueExecute ==
  ASSUME Inv, Unique, NEW e \in Engines, NEW i \in Ids, NEW r, NEW keys, NEW stale, Execute(e, i, r, keys, stale)
  PROVE  Unique'
  <1>1. /\ \A f \in Engines \ {e} : i \notin DOMAIN tx[f].rows
        /\ IsRow(r) => \A f \in Engines, j \in Ids \ {i} : View(f)[j] # r
    BY DEF Execute, Allows, IsRow
  <1>2. /\ \A f \in Engines, j \in Ids : View(f)'[j] \in {View(f)[j], r} /\ (j # i => View(f)'[j] = View(f)[j])
        /\ rows'[i] \in {rows[i], r} /\ (\A j \in Ids \ {i} : rows'[j] = rows[j])
        /\ rows'[i] # rows[i] => \A j \in Ids : View(e)[j] = rows[j]
    <2>1. CASE tx[e].open
      <3>1. rows' = rows /\ tx' = [tx EXCEPT ![e].rows = Put(@, i, r), ![e].stale = @ \/ stale]
        BY <2>1 DEF Execute
      <3>2. tx'[e].rows = Put(tx[e].rows, i, r) /\ \A f \in Engines \ {e} : tx'[f] = tx[f]
        BY <3>1 DEF Inv, Types, TxType
      <3>3. \A f \in Engines \ {e} : View(f)' = View(f)
        <4>1. rows' = rows
          BY <3>1
        <4> QED
          BY <3>2, <4>1 DEF View
      <3>4. \A j \in Ids : View(e)'[j] = IF j = i THEN r ELSE View(e)[j]
        <4>1. \A j \in Ids : View(e)'[j] = IF j \in DOMAIN Put(tx[e].rows, i, r) THEN Put(tx[e].rows, i, r)[j] ELSE rows[j]
          BY <3>1, <3>2 DEF View
        <4>2. /\ DOMAIN Put(tx[e].rows, i, r) = DOMAIN tx[e].rows \cup {i}
              /\ \A j \in DOMAIN tx[e].rows \cup {i} : Put(tx[e].rows, i, r)[j] = IF j = i THEN r ELSE tx[e].rows[j]
          BY DEF Put
        <4> QED
          BY <4>1, <4>2, ViewIs
      <3> QED
        BY <3>1, <3>3, <3>4
    <2>2. CASE ~tx[e].open
      <3>1. rows' = [rows EXCEPT ![i] = r] /\ tx' = tx
        BY <2>2 DEF Execute
      <3>2. tx[e].rows = <<>>
        BY <2>2 DEF Inv, TxOK, Closed
      <3>3. rows'[i] = r /\ \A j \in Ids \ {i} : rows'[j] = rows[j]
        BY <3>1 DEF Inv, Types
      <3>4. \A f \in Engines, j \in Ids : View(f)'[j] = IF j \in DOMAIN tx[f].rows THEN tx[f].rows[j] ELSE rows'[j]
        BY <3>1 DEF View
      <3> QED
        BY <3>2, <3>3, <3>4, ViewIs
    <2> QED
      BY <2>1, <2>2
  <1>3. ASSUME NEW f \in Engines, NEW g \in Engines, NEW m \in Ids, NEW n \in Ids, m # n, IsRow(View(f)'[m])
        PROVE  View(f)'[m] # View(g)'[n]
    BY <1>1, <1>2, <1>3 DEF Unique, IsRow
  <1>4. ASSUME NEW m \in Ids, NEW n \in Ids, m # n, IsRow(rows'[m]) PROVE rows'[m] # rows'[n]
    BY <1>1, <1>2, <1>4 DEF Unique, IsRow
  <1> QED
    BY <1>3, <1>4 DEF Unique, IsRow

-----------------------------------------------------------------------------
(* Steps that are no search's.                                             *)

Untouched(f) ==
    run'[f] = run[f] \/ (Fills(run[f].at) /\ run'[f] = [run[f] EXCEPT !.raced = TRUE])

LEMMA SetupStays ==
  ASSUME setup' = setup
  PROVE  /\ \A e \in Engines : (HasLocal(e)' <=> HasLocal(e)) /\ PageSize(e)' = PageSize(e)
         /\ \A e, k, r : PagesFor(e, k, r)' = PagesFor(e, k, r)
         /\ \A k, r : PagerOK(k, r)' <=> PagerOK(k, r)
  <1>1. \A e : (HasLocal(e)' <=> HasLocal(e)) /\ PageSize(e)' = PageSize(e)
    BY DEF HasLocal, LocalOf, PageSize
  <1> QED
    BY <1>1 DEF PagesFor, PagerOK

LEMMA OthersAnswers ==
  ASSUME Inv, Answers, setup' = setup, NEW f \in Engines, Untouched(f)
  PROVE  Asking(f)' /\ AnswerOK(f)'
  <1>1. Asking(f) /\ AnswerOK(f) /\ RunOK(f)
    BY DEF Answers, Inv
  <1>2. PageSize(f)' = PageSize(f) /\ (\A k, r : PagesFor(f, k, r)' = PagesFor(f, k, r))
        /\ (\A k, r : PagerOK(k, r)' <=> PagerOK(k, r))
    BY SetupStays
  <1>3. CASE run'[f] = run[f]
    <2>1. Asking(f)'
      BY <1>1, <1>2, <1>3 DEF Asking, Searching, PageOf
    <2>2. AnswerOK(f)'
      BY <1>1, <1>2, <1>3 DEF AnswerOK, OfOneList, RightAnswer
    <2> QED
      BY <2>1, <2>2
  <1>4. CASE Fills(run[f].at) /\ run'[f] = [run[f] EXCEPT !.raced = TRUE]
    <2>1. run'[f] = [at |-> run[f].at, key |-> run[f].key, pager |-> run[f].pager,
                     missing |-> run[f].missing, found |-> run[f].found, raced |-> TRUE]
      BY <1>1, <1>4 DEF RunOK, Filling
    <2>2. /\ run'[f].at = run[f].at /\ run'[f].key = run[f].key /\ run'[f].pager = run[f].pager
          /\ run'[f].missing = run[f].missing /\ run'[f].found = run[f].found
      BY <2>1
    <2>3. Asking(f)'
      BY <1>1, <1>2, <2>2 DEF Asking, Searching, PageOf
    <2>4. AnswerOK(f)'
      BY <1>4, <2>2 DEF AnswerOK, Fills
    <2> QED
      BY <2>3, <2>4
  <1> QED
    BY <1>3, <1>4 DEF Untouched

LEMMA StoredLess ==
  ASSUME Stored, redis' \subseteq redis, local' \subseteq local
  PROVE  Stored'
  BY DEF Stored, PageOf

\* A write, a deletion, or the end of a search.
LEMMA PlainStep ==
  ASSUME Inv, Answers, setup' = setup, redis' \subseteq redis, local' \subseteq local, Unique', Named',
         NEW e \in Engines, \A f \in Engines \ {e} : Untouched(f),
         run'[e].at \in {"idle", "loaded", "local", "redis"}
  PROVE  Answers'
  <1>1. Asking(e)' /\ AnswerOK(e)'
    BY DEF Asking, Searching, AnswerOK
  <1>2. Stored'
    BY StoredLess DEF Answers
  <1>3. \A f \in Engines : Asking(f)' /\ AnswerOK(f)'
    BY <1>1, OthersAnswers
  <1> QED
    BY <1>2, <1>3 DEF Answers

LEMMA NamedSame ==
  ASSUME Answers, setup' = setup, lost' \subseteq lost, unseen' \subseteq unseen
  PROVE  Named'
  BY KeysStay DEF Answers, Named

\* Nothing but one engine's run changes, or a cache loses entries.
LEMMA QuietAnswers ==
  ASSUME Inv, Answers, setup' = setup, redis' \subseteq redis, local' \subseteq local,
         rows' = rows, tx' = tx, lost' \subseteq lost, unseen' \subseteq unseen,
         NEW e \in setup.engines, NEW x, run' = [run EXCEPT ![e] = x], x.at \in {"idle", "loaded", "local", "redis"}
  PROVE  Answers'
  <1>1. e \in Engines /\ run'[e] = x /\ \A f \in Engines \ {e} : run'[f] = run[f]
    BY SetupOK DEF Inv, Types
  <1>2. Unique'
    BY UniqueSame DEF Answers
  <1>3. Named'
    BY NamedSame
  <1>4. \A f \in Engines \ {e} : Untouched(f)
    BY <1>1 DEF Untouched
  <1> QED
    BY <1>1, <1>2, <1>3, <1>4, PlainStep

LEMMA ReturnAnswers == ASSUME Inv, Answers, NEW e \in setup.engines, Return(e) PROVE Answers'
  BY QuietAnswers DEF Return, cacheVars, Idle

LEMMA LoadAnswers == ASSUME Inv, Answers, NEW e \in setup.engines, Load(e) PROVE Answers'
  <1>1. PICK i \in Ids : run' = [run EXCEPT ![e] = [at |-> "loaded", id |-> i, row |-> View(e)[i]]]
    BY DEF Load
  <1> DEFINE x == [at |-> "loaded", id |-> i, row |-> View(e)[i]]
  <1>2. run' = [run EXCEPT ![e] = x] /\ x.at = "loaded"
    BY <1>1
  <1> HIDE DEF x
  <1> QED
    BY <1>2, QuietAnswers DEF Load, cacheVars

LEMMA IdleAnswers ==
  ASSUME Inv, Answers, setup' = setup, redis' \subseteq redis, local' \subseteq local, run' = run,
         rows' = rows, \A f \in Engines : tx'[f].rows = tx[f].rows, lost' \subseteq lost, unseen' \subseteq unseen
  PROVE  Answers'
  <1>1. Unique' /\ Named' /\ Stored'
    BY UniqueSame, NamedSame, StoredLess DEF Answers
  <1>2. \A f \in Engines : Untouched(f)
    BY DEF Untouched
  <1> QED
    BY <1>1, <1>2, OthersAnswers DEF Answers

LEMMA BeginAnswers == ASSUME Inv, Answers, NEW e \in setup.engines, Begin(e) PROVE Answers'
  <1>1. tx' = [tx EXCEPT ![e].open = TRUE] /\ tx \in [Engines -> TxType]
    BY DEF Begin, Inv, Types
  <1>2. \A f \in Engines : tx'[f].rows = tx[f].rows
    BY <1>1 DEF TxType
  <1> QED
    BY <1>2, IdleAnswers DEF Begin, cacheVars

LEMMA EvictAnswers == ASSUME Inv, Answers, Evict PROVE Answers'
  BY IdleAnswers DEF Evict

LEMMA StutterAnswers == ASSUME Inv, Answers, UNCHANGED vars PROVE Answers'
  BY IdleAnswers DEF vars, cacheVars, countVars

LEMMA RollbackAnswers == ASSUME Inv, Answers, NEW e \in setup.engines, Rollback(e) PROVE Answers'
  <1>1. e \in Engines /\ run[e].at = "idle" /\ run' = run
    BY SetupOK DEF Rollback, Inv, Types
  <1>2. Unique' /\ Named'
    BY <1>1, UniqueEnds, NamedSame DEF Rollback, Answers
  <1>3. \A f \in Engines \ {e} : Untouched(f)
    BY <1>1 DEF Untouched
  <1> QED
    BY <1>1, <1>2, <1>3, PlainStep DEF Rollback, cacheVars

LEMMA ToDoNamed ==
  ASSUME Inv, NEW e \in Engines
  PROVE  RedisToDo(e) \subseteq Keys /\ LocalOf(e) \in Caches \cup {None} /\ tx[e].dels \subseteq Keys
         /\ tx[e] \in TxType
  BY SetupOK DEF Inv, Types, RunOK, RedisToDo, TxType

LEMMA CrashAnswers == ASSUME Inv, Answers, NEW e \in setup.engines, Crash(e) PROVE Answers'
  <1>1. e \in Engines
    BY SetupOK DEF Inv, Types
  <1>2. /\ setup' = setup /\ rows' = rows /\ redis' = redis /\ local' \subseteq local
        /\ run' = [run EXCEPT ![e] = Idle] /\ tx' = [tx EXCEPT ![e] = Closed]
        /\ lost' = lost \cup RedisToDo(e) /\ unseen' \subseteq unseen
    BY DEF Crash
  <1>3. Unique'
    BY <1>1, <1>2, UniqueEnds DEF Answers
  <1>4. Named'
    BY <1>1, <1>2, ToDoNamed, KeysStay DEF Answers, Named
  <1>5. run'[e].at = "idle" /\ \A f \in Engines \ {e} : Untouched(f)
    BY <1>1, <1>2 DEF Inv, Types, Untouched, Idle
  <1> QED
    BY <1>1, <1>2, <1>3, <1>4, <1>5, PlainStep

LEMMA CommitAnswers == ASSUME Inv, Answers, NEW e \in setup.engines, Commit(e) PROVE Answers'
  <1> DEFINE dels == tx[e].dels
             missed == IF tx[e].stale THEN Changed(rows, View(e)) \ dels ELSE {}
  <1>1. e \in Engines /\ DOMAIN run = Engines
    BY SetupOK DEF Inv, Types
  <1>2. /\ setup' = setup /\ rows' = View(e) /\ redis' = redis /\ local' = local
        /\ tx' = [tx EXCEPT ![e] = Closed]
        /\ run' = [run EXCEPT ![e] = IF setup.redis THEN Clears(dels, "redis", "none") ELSE Idle]
        /\ lost' = lost \cup missed
        /\ unseen' = unseen \cup (({LocalOf(e)} \X (dels \cup missed))
                                  \cup ((Caches \ {LocalOf(e)}) \X Changed(rows, View(e))))
    BY DEF Commit, cacheVars
  <1>3. Unique'
    BY <1>1, <1>2, UniqueCommit DEF Answers
  <1>4. dels \subseteq Keys /\ LocalOf(e) \in Caches \cup {None} /\ Changed(rows, View(e)) \subseteq Keys
        /\ missed \subseteq Keys
    BY <1>1, ToDoNamed DEF Changed
  <1>5. run'[e].at \in {"idle", "redis"} /\ \A f \in Engines \ {e} : Untouched(f)
    BY <1>1, <1>2, ClearsShape DEF Untouched, Idle
  <1> HIDE DEF dels, missed
  <1>6. Named'
    BY <1>2, <1>4, KeysStay DEF Answers, Named
  <1> QED
    BY <1>1, <1>2, <1>3, <1>5, <1>6, PlainStep

LEMMA ExecuteNamed ==
  ASSUME Inv, Answers, setup' = setup, NEW e \in Engines, NEW i, NEW r, NEW keys, NEW stale, Execute(e, i, r, keys, stale)
  PROVE  Named'
  <1> DEFINE T == [rows EXCEPT ![i] = r]
             missed == IF stale THEN Changed(rows, T) \ keys ELSE {}
  <1>1. LocalOf(e) \in Caches \cup {None} /\ Changed(rows, T) \subseteq Keys /\ missed \subseteq Keys
    BY ToDoNamed DEF Changed
  <1>2. \/ lost' = lost /\ unseen' = unseen
        \/ /\ lost' = lost \cup missed
           /\ unseen' = unseen \cup (({LocalOf(e)} \X missed) \cup ((Caches \ {LocalOf(e)}) \X Changed(rows, T)))
    BY DEF Execute
  <1> HIDE DEF T, missed
  <1> QED
    BY <1>1, <1>2, KeysStay DEF Answers, Named

LEMMA WriteAnswers ==
  ASSUME Inv, Answers, setup' = setup, redis' = redis, local' = local, NEW e \in Engines, NEW i \in Ids,
         NEW r, NEW keys, NEW stale, Execute(e, i, r, keys, stale),
         NEW at \in {"local", "redis"}, NEW then, run' = [run EXCEPT ![e] = Clears(keys, at, then)]
  PROVE  Answers'
  <1>1. Unique' /\ Named'
    BY UniqueExecute, ExecuteNamed DEF Answers
  <1>2. run'[e].at \in {"local", "redis"} /\ \A f \in Engines \ {e} : Untouched(f)
    BY ClearsShape DEF Inv, Types, Untouched
  <1> QED
    BY <1>1, <1>2, PlainStep

LEMMA FlushAnswers ==
  ASSUME Inv, Answers, setup' = setup, redis' = redis, local' = local, NEW e \in setup.engines, NEW i \in Ids,
         NEW r, NEW keys, NEW stale, Flush(e, i, r, keys, stale)
  PROVE  Answers'
  <1>1. e \in Engines
    BY SetupOK DEF Inv, Types
  <1> DEFINE then == IF tx[e].open \/ ~setup.redis THEN "none" ELSE "redis"
  <1>2. Execute(e, i, r, keys, stale) /\ run' = [run EXCEPT ![e] = Clears(keys, "local", then)]
    BY DEF Flush
  <1> HIDE DEF then
  <1> QED
    BY <1>1, <1>2, WriteAnswers

LEMMA FlushesAnswers ==
  ASSUME Inv, Answers, NEW e \in setup.engines, FlushInsert(e) \/ FlushUpdate(e) \/ FlushDelete(e)
  PROVE  Answers'
  <1>0. e \in Engines
    BY SetupOK DEF Inv, Types
  <1>1. CASE FlushInsert(e)
    <2>1. PICK r \in setup.values, i \in Ids : Flush(e, i, r, InsertKeys(r), FALSE)
      BY <1>1 DEF FlushInsert
    <2>2. setup' = setup /\ redis' = redis /\ local' = local
      BY <1>1 DEF FlushInsert, cacheVars
    <2> DEFINE keys == InsertKeys(r)
    <2>3. Flush(e, i, r, keys, FALSE)
      BY <2>1
    <2> HIDE DEF keys
    <2> QED
      BY <2>2, <2>3, FlushAnswers
  <1>2. CASE FlushUpdate(e)
    <2>1. run[e].id \in Ids
      BY <1>0, <1>2 DEF FlushUpdate, Inv, RunOK
    <2>2. setup' = setup /\ redis' = redis /\ local' = local
          /\ \E r, keys, stale : Flush(e, run[e].id, r, keys, stale)
      BY <1>2 DEF FlushUpdate, cacheVars
    <2> QED
      BY <2>1, <2>2, FlushAnswers
  <1>3. CASE FlushDelete(e)
    <2>1. run[e].id \in Ids
      BY <1>0, <1>3 DEF FlushDelete, Inv, RunOK
    <2>2. setup' = setup /\ redis' = redis /\ local' = local
          /\ \E r, keys, stale : Flush(e, run[e].id, r, keys, stale)
      BY <1>3 DEF FlushDelete, cacheVars
    <2> QED
      BY <2>1, <2>2, FlushAnswers
  <1> QED
    BY <1>1, <1>2, <1>3

LEMMA HandleLazyAnswers == ASSUME Inv, Answers, NEW e \in setup.engines, HandleLazy(e) PROVE Answers'
  <1>1. e \in Engines /\ events \in Seq(Event) /\ events # <<>>
    BY SetupOK DEF HandleLazy, Inv, Types, Events
  <1> DEFINE x == Head(events)
             keys == UpdateKeys(x.old, x.new)
             i == x.id
             row == Updated(x.old, x.new, rows[i])
             stale == rows[i] # x.old
  <1>2. i \in Ids
    BY <1>1 DEF Event
  <1>3. /\ setup' = setup /\ redis' = redis /\ local' = local
        /\ Execute(e, i, row, keys, stale)
        /\ run' = [run EXCEPT ![e] = IF setup.redis THEN Clears(keys, "redis", "local")
                                    ELSE Clears(keys, "local", "none")]
    BY DEF HandleLazy, cacheVars
  <1> DEFINE at == IF setup.redis THEN "redis" ELSE "local"
             then == IF setup.redis THEN "local" ELSE "none"
  <1>4. run' = [run EXCEPT ![e] = Clears(keys, at, then)] /\ at \in {"local", "redis"}
    BY <1>3
  <1> HIDE DEF i, keys, row, stale, at, then, x
  <1>5. PICK r, ks, st, th, a :
          a \in {"local", "redis"} /\
          Execute(e, i, r, ks, st) /\ run' = [run EXCEPT ![e] = Clears(ks, a, th)]
    BY <1>3, <1>4
  <1>6. setup' = setup /\ redis' = redis /\ local' = local
    BY <1>3
  <1>7. CASE a = "local"
    <2>1. Execute(e, i, r, ks, st) /\ run' = [run EXCEPT ![e] = Clears(ks, "local", th)]
      BY <1>5, <1>7
    <2> QED
      BY <1>1, <1>2, <1>6, <2>1, WriteAnswers
  <1>8. CASE a = "redis"
    <2>1. Execute(e, i, r, ks, st) /\ run' = [run EXCEPT ![e] = Clears(ks, "redis", th)]
      BY <1>5, <1>8
    <2> QED
      BY <1>1, <1>2, <1>6, <2>1, WriteAnswers
  <1> QED
    BY <1>5, <1>7, <1>8

LEMMA RaceAnswers ==
  ASSUME Inv, Answers, setup' = setup, redis' \subseteq redis, local' \subseteq local, rows' = rows,
         \A f \in Engines : tx'[f].rows = tx[f].rows, lost' \subseteq lost, unseen' \subseteq unseen,
         NEW e \in Engines, NEW keys, NEW S, NEW x, x.at \in {"idle", "local", "redis"},
         run' = [Race(keys, S) EXCEPT ![e] = x]
  PROVE  Answers'
  <1>1. Unique' /\ Named'
    BY UniqueSame, NamedSame DEF Answers
  <1>2. run'[e] = x /\ \A f \in Engines \ {e} : Untouched(f)
    BY RaceMoves DEF Untouched
  <1> QED
    BY <1>1, <1>2, PlainStep

LEMMA DeletionAnswers ==
  ASSUME Inv, Answers, NEW e \in setup.engines, DelRedis(e) \/ FlushLazy(e) \/ RemoveLocal(e)
  PROVE  Answers'
  <1>0. e \in Engines /\ Idle.at = "idle"
    BY SetupOK DEF Inv, Types, Idle
  <1>1. CASE DelRedis(e)
    <2> DEFINE x == IF run[e].then = "local" THEN Clears(run[e].keys, "local", "none") ELSE Idle
    <2>1. /\ setup' = setup /\ redis' \subseteq redis /\ local' = local /\ rows' = rows /\ tx' = tx
          /\ lost' \subseteq lost /\ unseen' = unseen
          /\ run' = [Race(run[e].keys, Engines) EXCEPT ![e] = x]
      BY <1>1 DEF DelRedis
    <2>2. x.at \in {"idle", "local", "redis"}
      BY <1>0, ClearsShape
    <2> HIDE DEF x
    <2> QED
      BY <1>0, <2>1, <2>2, RaceAnswers
  <1>2. CASE FlushLazy(e)
    <2>1. PICK keys, y : /\ redis' \subseteq redis /\ lost' \subseteq lost
                         /\ run' = [Race(keys, Engines) EXCEPT ![e] = y] /\ y = Idle
      BY <1>2 DEF FlushLazy
    <2>2. setup' = setup /\ local' = local /\ rows' = rows /\ tx' = tx /\ unseen' = unseen
      BY <1>2 DEF FlushLazy
    <2>3. y.at \in {"idle", "local", "redis"}
      BY <1>0, <2>1
    <2>4. local' \subseteq local /\ unseen' \subseteq unseen /\ \A f \in Engines : tx'[f].rows = tx[f].rows
      BY <2>2
    <2>5. redis' \subseteq redis /\ lost' \subseteq lost /\ run' = [Race(keys, Engines) EXCEPT ![e] = y]
      BY <2>1
    <2>6. Unique' /\ Named'
      BY <2>2, <2>4, <2>5, UniqueSame, NamedSame DEF Answers
    <2>7. run'[e] = y /\ \A f \in Engines \ {e} : Untouched(f)
      BY <1>0, <2>5, RaceMoves DEF Untouched
    <2> QED
      BY <1>0, <2>2, <2>3, <2>4, <2>5, <2>6, <2>7, PlainStep
  <1>3. CASE RemoveLocal(e)
    <2> DEFINE x == IF run[e].then = "redis" THEN Clears(run[e].keys, "redis", "none") ELSE Idle
               S == {f \in Engines : LocalOf(f) = LocalOf(e)}
    <2>1. /\ setup' = setup /\ redis' = redis /\ local' \subseteq local /\ rows' = rows
          /\ tx' = [tx EXCEPT ![e].dels = IF tx[e].open THEN @ \cup run[e].keys ELSE @]
          /\ lost' = lost /\ unseen' \subseteq unseen
          /\ run' = [Race(run[e].keys, S) EXCEPT ![e] = x]
      BY <1>3 DEF RemoveLocal
    <2>2. x.at \in {"idle", "local", "redis"}
      BY <1>0, ClearsShape
    <2>3. \A f \in Engines : tx'[f].rows = tx[f].rows
      BY <2>1 DEF Inv, Types, TxType
    <2> HIDE DEF x, S
    <2> QED
      BY <1>0, <2>1, <2>2, <2>3, RaceAnswers
  <1> QED
    BY <1>1, <1>2, <1>3

-----------------------------------------------------------------------------
(* Searches.                                                               *)

SizeFor(e, k) == IF IsOne(k) THEN 1 ELSE PageSize(e)

\* The pages that a search looks up are those that its pager is in.
LEMMA PagesForOK ==
  ASSUME Inv, NEW e \in setup.engines, NEW k, NEW r, PagerOK(k, r)
  PROVE  /\ SizeFor(e, k) \in Nat \ {0} /\ r.page \in Nat \ {0} /\ r.size \in Nat \ {0}
         /\ PagesFor(e, k, r) \in SUBSET (Nat \ {0}) /\ PagesFor(e, k, r) # {}
         /\ PagesFor(e, k, r) = CachePages(r, SizeFor(e, k))
         /\ \E h \in Nat : \A p \in PagesFor(e, k, r) : p <= h
         /\ \A p \in PagesFor(e, k, r) : (p - 1) * SizeFor(e, k) < ListMax
  <1> DEFINE s == SizeFor(e, k)
  <1>1. s \in Nat \ {0} /\ (~IsOne(k) /\ HasLocal(e) => s = ListMax)
    BY PagesAssumption DEF SizeFor, PageSize
  <1>2. r.page \in Nat \ {0} /\ r.size \in Nat \ {0} /\ r.page * r.size <= ListMax /\ (IsOne(k) => r = Single)
    <2>1. CASE IsOne(k)
      <3>1. r.page = 1 /\ r.size = 1 /\ r = Single
        BY <2>1 DEF PagerOK, Single
      <3>2. 1 * 1 <= ListMax
        BY PagesAssumption
      <3> QED
        BY <3>1, <3>2
    <2>2. CASE ~IsOne(k)
      <3>1. setup \in SetupType /\ r \in setup.pagers /\ r.page * r.size <= ListMax
        BY <2>2, SetupsAssumption DEF Inv, Types, PagerOK
      <3>2. r \in [page : Nat \ {0}, size : Nat \ {0}]
        BY <3>1 DEF SetupType
      <3> QED
        BY <2>2, <3>1, <3>2
    <2> QED
      BY <2>1, <2>2
  <1> HIDE DEF s
  <1>3. PICK lo \in Nat \ {0}, hi \in Nat \ {0} :
          /\ CachePages(r, s) = lo .. hi /\ lo <= hi
          /\ (lo - 1) * s <= Start(r) /\ Start(r) + r.size <= hi * s /\ (hi - 1) * s < Start(r) + r.size
    BY <1>1, <1>2, PagesOf
  <1>4. Start(r) + r.size = r.page * r.size /\ Start(r) \in Nat
    BY <1>2 DEF Start
  <1>5. (hi - 1) * s < ListMax
    <2>1. (hi - 1) * s \in Int /\ r.page * r.size \in Int
      BY <1>1, <1>2
    <2> QED
      BY <1>2, <1>3, <1>4, <2>1, PagesAssumption
  <1>6. ASSUME NEW p \in lo .. hi PROVE (p - 1) * s < ListMax
    <2>1. p - 1 \in Nat /\ hi - 1 \in Nat /\ p - 1 <= hi - 1
      BY <1>3
    <2>2. (p - 1) * s <= (hi - 1) * s /\ (p - 1) * s \in Nat /\ (hi - 1) * s \in Nat
      BY <1>1, <2>1, Times
    <2> QED
      BY <1>5, <2>2, PagesAssumption
  <1>7. HasLocal(e) \/ IsOne(k) => hi = 1
    <2>1. CASE IsOne(k)
      <3>1. s = 1 /\ Start(r) + r.size = 1
        BY <1>2, <1>4, <2>1 DEF s, SizeFor, Single
      <3> QED
        BY <1>3, <3>1
    <2>2. CASE ~IsOne(k) /\ HasLocal(e)
      <3>1. (hi - 1) * s < 1 * s
        BY <1>1, <1>5, <2>2
      <3>2. hi - 1 < 1
        <4>1. hi - 1 \in Nat /\ 1 \in Nat
          OBVIOUS
        <4> QED
          BY <1>1, <3>1, <4>1, Times
      <3> QED
        BY <3>2
    <2> QED
      BY <2>1, <2>2
  <1>8. PagesFor(e, k, r) = lo .. hi
    <2>1. CASE HasLocal(e) \/ IsOne(k)
      <3>1. lo = 1 /\ hi = 1
        BY <1>3, <1>7, <2>1
      <3>2. lo .. hi = {1}
        BY <3>1
      <3> QED
        BY <2>1, <3>2 DEF PagesFor
    <2>2. CASE ~(HasLocal(e) \/ IsOne(k))
      BY <1>3, <2>2 DEF PagesFor, s, SizeFor
    <2> QED
      BY <2>1, <2>2
  <1>9. lo .. hi \in SUBSET (Nat \ {0}) /\ lo \in lo .. hi /\ \A p \in lo .. hi : p <= hi
    BY <1>3
  <1> QED
    BY <1>1, <1>2, <1>3, <1>6, <1>8, <1>9 DEF s

LEMMA OvertakenPage ==
  ASSUME NEW k, NEW p, NEW v, PageOf(k, p, v), NEW raced \in BOOLEAN
  PROVE  PageOf(k, p, Overtaken(v, raced))
  <1> DEFINE b == v.raced \/ raced
             w == Overtaken(v, raced)
  <1>1. v \in Value /\ b \in BOOLEAN
    BY DEF PageOf
  <1>2. w = [total |-> v.total, ids |-> v.ids, of |-> v.of, first |-> v.first, size |-> v.size, raced |-> b]
    BY <1>1 DEF Overtaken, Value
  <1> HIDE DEF b, w
  <1>3. /\ w \in Value /\ w.total = v.total /\ w.ids = v.ids /\ w.of = v.of /\ w.first = v.first
        /\ w.size = v.size
    BY <1>1, <1>2 DEF Value
  <1>4. PageOf(k, p, w)
    BY <1>3 DEF PageOf
  <1> QED
    BY <1>4 DEF w

\* A search that ends with the pages it looked up gives the answer.
LEMMA AnsweredRight ==
  ASSUME Inv, NEW e \in setup.engines, NEW k, NEW r, PagerOK(k, r), setup' = setup,
         NEW found, DOMAIN found = PagesFor(e, k, r), \A p \in DOMAIN found : PageOf(k, p, found[p]),
         NEW totals, \A t \in totals : \E p \in DOMAIN found : t = found[p].total,
         Answered(e, k, r, found, totals)
  PROVE  Asking(e)' /\ AnswerOK(e)'
  <1> DEFINE s == SizeFor(e, k)
             ids == IdsOf(found)
  <1>1. PICK total \in totals :
          run' = [run EXCEPT ![e] =
                    [at |-> "answered", key |-> k, pager |-> r, found |-> found,
                     answer |-> IF IsOne(k) THEN [total |-> Len(found[1].ids), ids |-> found[1].ids, panics |-> FALSE]
                                ELSE Answer(r, PageSize(e), found, total)]]
    BY DEF Answered
  <1> DEFINE a == IF IsOne(k) THEN [total |-> Len(found[1].ids), ids |-> found[1].ids, panics |-> FALSE]
                  ELSE Answer(r, PageSize(e), found, total)
  <1>2. e \in Engines /\ DOMAIN run = Engines
    BY SetupOK DEF Inv, Types
  <1> HIDE DEF a
  <1>3. run'[e].at = "answered" /\ run'[e].key = k /\ run'[e].pager = r /\ run'[e].found = found
        /\ run'[e].answer = a
    BY <1>1, <1>2 DEF a
  <1>4. Asking(e)'
    BY <1>3 DEF Asking, Searching
  <1>5. PageSize(e)' = PageSize(e)
    BY <1>2, SetupStays
  <1>6. /\ s \in Nat \ {0} /\ r.page \in Nat \ {0} /\ r.size \in Nat \ {0}
        /\ DOMAIN found # {} /\ DOMAIN found = CachePages(r, s)
    BY PagesForOK
  <1>7. ASSUME \A p \in DOMAIN found : found[p].of = ids /\ found[p].first = 1 /\ found[p].size = s
        PROVE  a = [total |-> Len(ids), ids |-> Asked(r, ids), panics |-> ~IsOne(k) /\ RunsPast(r, ids, PageSize(e))]
    <2>1. ids \in Seq(Ids)
      BY <1>6 DEF IdsOf, PageOf, Value
    <2>2. total = Len(ids)
      BY <1>1, <1>7 DEF PageOf
    <2>3. \A p \in DOMAIN found : found[p].ids = Piece(ids, p, p, s)
      BY <1>7 DEF PageOf
    <2> HIDE DEF ids
    <2>4. CASE IsOne(k)
      <3>1. r = Single /\ s = 1 /\ PagesFor(e, k, r) = {1}
        BY <2>4 DEF PagerOK, SizeFor, PagesFor
      <3>2. Len(ids) <= 1 /\ found[1].ids = Piece(ids, 1, 1, 1)
        BY <1>7, <2>3, <2>4, <3>1 DEF PageOf
      <3>3. found[1].ids = ids /\ Asked(Single, ids) = ids
        BY <2>1, <3>2, OneAnswerIs
      <3>4. (~IsOne(k) /\ RunsPast(r, ids, PageSize(e))) = FALSE
        BY <2>4
      <3> QED
        BY <2>4, <3>1, <3>3, <3>4 DEF a
    <2>5. CASE ~IsOne(k)
      <3>1. s = PageSize(e)
        BY <2>5 DEF SizeFor
      <3>2. Answer(r, s, found, Len(ids)) = [total |-> Len(ids), ids |-> Asked(r, ids), panics |-> RunsPast(r, ids, s)]
        BY <1>6, <2>1, <2>3, AnswerIs
      <3>3. (~IsOne(k) /\ RunsPast(r, ids, s)) = RunsPast(r, ids, s)
        <4>1. RunsPast(r, ids, s) \in BOOLEAN
          BY DEF RunsPast
        <4> QED
          BY <2>5, <4>1
      <3> QED
        BY <2>2, <2>5, <3>1, <3>2, <3>3 DEF a
    <2> QED
      BY <2>4, <2>5
  <1>8. AnswerOK(e)'
    <2>1. SizeFor(e, k) = IF IsOne(k) THEN 1 ELSE PageSize(e)
      BY DEF SizeFor
    <2>2. OfOneList(e)' => \A p \in DOMAIN found : found[p].of = ids /\ found[p].first = 1 /\ found[p].size = s
      BY <1>3, <1>5, <2>1 DEF OfOneList
    <2>3. RightAnswer(e)' = [total |-> Len(ids), ids |-> Asked(r, ids), panics |-> ~IsOne(k) /\ RunsPast(r, ids, PageSize(e))]
      BY <1>3, <1>5 DEF RightAnswer
    <2> HIDE DEF ids, s
    <2> QED
      BY <1>3, <1>7, <2>2, <2>3 DEF AnswerOK
  <1> QED
    BY <1>4, <1>8

\* A step of a search, which leaves the table alone.
LEMMA SearchingStep ==
  ASSUME Inv, Answers, setup' = setup, rows' = rows, tx' = tx, lost' = lost, unseen' = unseen, Stored',
         NEW e \in setup.engines, NEW x, run' = [run EXCEPT ![e] = x], Asking(e)' /\ AnswerOK(e)'
  PROVE  Answers'
  <1>1. e \in Engines /\ \A f \in Engines \ {e} : Untouched(f)
    BY SetupOK DEF Inv, Types, Untouched
  <1>2. Unique' /\ Named'
    BY UniqueSame, NamedSame DEF Answers
  <1>3. \A f \in Engines : Asking(f)' /\ AnswerOK(f)'
    BY <1>1, OthersAnswers
  <1> QED
    BY <1>2, <1>3 DEF Answers

LEMMA FoundInRedisIs ==
  ASSUME Stored, NEW k, NEW pages
  PROVE  /\ DOMAIN FoundInRedis(k, pages) \subseteq pages
         /\ \A p \in DOMAIN FoundInRedis(k, pages) : PageOf(k, p, FoundInRedis(k, pages)[p])
  <1> DEFINE stored == {x \in redis : x.key = k /\ x.page \in pages}
             found == FoundInRedis(k, pages)
  <1>1. found = [p \in {x.page : x \in stored} |-> (CHOOSE x \in stored : x.page = p).value]
    BY DEF FoundInRedis
  <1>2. ASSUME NEW p \in {x.page : x \in stored} PROVE p \in pages /\ PageOf(k, p, found[p])
    <2> DEFINE y == CHOOSE x \in stored : x.page = p
    <2>1. \E x \in stored : x.page = p
      BY <1>2
    <2>2. y \in stored /\ y.page = p
      BY <2>1
    <2>3. found[p] = y.value
      BY <1>1, <1>2
    <2> HIDE DEF y, found
    <2>4. PageOf(y.key, y.page, y.value) /\ y.key = k /\ p \in pages
      BY <2>2 DEF Stored
    <2> QED
      BY <2>2, <2>3, <2>4
  <1> HIDE DEF stored, found
  <1>3. DOMAIN found = {x.page : x \in stored}
    BY <1>1
  <1> QED
    BY <1>2, <1>3 DEF found

LEMMA SearchAnswers == ASSUME Inv, Answers, NEW e \in setup.engines, Search(e) PROVE Answers'
  <1>1. e \in Engines /\ DOMAIN run = Engines
    BY SetupOK DEF Inv, Types
  <1>2. PICK k, r :
          /\ k \in SearchKeys /\ PagerOK(k, r)
          /\ LET pages == PagesFor(e, k, r)
                 found == FoundInRedis(k, pages)
             IN  \/ Hit(e, k, r)
                 \/ DOMAIN found = pages /\ RedisHit(e, k, r, found)
                 \/ DOMAIN found # pages /\ Misses(e, k, r, pages, found)
    BY DEF Search, PagerOK
  <1> DEFINE pages == PagesFor(e, k, r)
             found == FoundInRedis(k, pages)
  <1>3. setup' = setup /\ rows' = rows /\ lost' = lost /\ unseen' = unseen /\ tx' = tx
        /\ redis' = redis /\ local' = local
    BY DEF Search, cacheVars
  <1>4. Stored /\ Stored'
    BY <1>3, StoredLess DEF Answers
  <1>5. DOMAIN found \subseteq pages /\ \A p \in DOMAIN found : PageOf(k, p, found[p])
    BY <1>4, FoundInRedisIs
  <1>6. (\A q : PagerOK(k, q)' <=> PagerOK(k, q)) /\ PagesFor(e, k, r)' = pages
    BY <1>1, <1>3, SetupStays
  <1> HIDE DEF pages, found
  <1>7. ASSUME NEW f, DOMAIN f = pages, \A p \in DOMAIN f : PageOf(k, p, f[p]),
               NEW totals, \A t \in totals : \E p \in DOMAIN f : t = f[p].total, Answered(e, k, r, f, totals)
        PROVE  Answers'
    <2>1. Asking(e)' /\ AnswerOK(e)'
      BY <1>2, <1>3, <1>7, AnsweredRight DEF pages
    <2>2. PICK x : run' = [run EXCEPT ![e] = x]
      BY <1>1, <1>7, AnsweredRun
    <2> QED
      BY <1>3, <1>4, <2>1, <2>2, SearchingStep
  <1>8. CASE Hit(e, k, r)
    <2>1. PICK x \in Kept(e, k) : Answered(e, k, r, [p \in {1} |-> x.value], {x.value.total})
      BY <1>8 DEF Hit
    <2> DEFINE f == [p \in {1} |-> x.value]
               totals == {x.value.total}
    <2>2. x \in local /\ x.key = k /\ HasLocal(e)
      <3>1. x \in local /\ x.key = k /\ x.cache = LocalOf(e)
        BY DEF Kept
      <3>2. x.cache \in Caches
        BY <3>1 DEF Inv, LocalOK
      <3> QED
        BY <3>1, <3>2, NoneAssumption DEF HasLocal
    <2>3. PageOf(k, 1, x.value) /\ pages = {1}
      BY <1>4, <2>2 DEF Stored, pages, PagesFor
    <2>4. DOMAIN f = pages /\ (\A p \in DOMAIN f : PageOf(k, p, f[p]))
          /\ (\A t \in totals : \E p \in DOMAIN f : t = f[p].total) /\ Answered(e, k, r, f, totals)
      BY <2>1, <2>3
    <2> HIDE DEF f, totals
    <2> QED
      BY <1>7, <2>4
  <1>9. CASE DOMAIN found = pages /\ RedisHit(e, k, r, found)
    <2>1. CASE ~(HasLocal(e) /\ ~IsOne(k))
      <3>1. Answered(e, k, r, found, Totals(found))
        BY <1>9, <2>1 DEF RedisHit
      <3>2. \A t \in Totals(found) : \E p \in DOMAIN found : t = found[p].total
        BY DEF Totals
      <3> QED
        BY <1>5, <1>7, <1>9, <3>1, <3>2
    <2>2. CASE HasLocal(e) /\ ~IsOne(k)
      <3> DEFINE f == [p \in DOMAIN found |-> Late(k, found[p])]
                 x == [at |-> "keep", key |-> k, pager |-> r, missing |-> {}, found |-> f, raced |-> FALSE]
      <3>1. run' = [run EXCEPT ![e] = x]
        BY <1>9, <2>2 DEF RedisHit
      <3>2. ASSUME NEW p \in DOMAIN f PROVE PageOf(k, p, f[p])
        <4> DEFINE v == found[p]
                   b == v.of # ListOf(k, rows)
        <4>1. b \in BOOLEAN /\ f[p] = Overtaken(v, b) /\ PageOf(k, p, v)
          BY <1>5 DEF Late
        <4> HIDE DEF v, b, f
        <4> QED
          BY <4>1, OvertakenPage
      <3>3. DOMAIN f = pages
        BY <1>9
      <3> HIDE DEF f
      <3>4. x.at = "keep" /\ x.key = k /\ x.pager = r /\ x.missing = {} /\ x.found = f
        OBVIOUS
      <3> HIDE DEF x
      <3>5. run'[e] = x
        BY <1>1, <3>1
      <3>6. Asking(e)'
        BY <1>2, <1>6, <3>2, <3>3, <3>4, <3>5 DEF Asking, PageOf
      <3>7. AnswerOK(e)'
        BY <3>4, <3>5 DEF AnswerOK
      <3> QED
        BY <1>3, <1>4, <3>1, <3>6, <3>7, SearchingStep
    <2> QED
      BY <2>1, <2>2
  <1>10. CASE DOMAIN found # pages /\ Misses(e, k, r, pages, found)
    <2> DEFINE x == [at |-> "select", key |-> k, pager |-> r, missing |-> pages \ DOMAIN found, found |-> found]
    <2>1. run' = [run EXCEPT ![e] = x]
      BY <1>10 DEF Misses
    <2>2. x.at = "select" /\ x.key = k /\ x.pager = r /\ x.missing = pages \ DOMAIN found /\ x.found = found
      OBVIOUS
    <2> HIDE DEF x
    <2>3. run'[e] = x
      BY <1>1, <2>1
    <2>4. x.missing # {} /\ x.missing \subseteq pages /\ DOMAIN found = pages \ x.missing
      BY <1>5, <1>10, <2>2
    <2>5. Asking(e)'
      BY <1>2, <1>5, <1>6, <2>2, <2>3, <2>4 DEF Asking, PageOf
    <2>6. AnswerOK(e)'
      BY <2>2, <2>3 DEF AnswerOK
    <2> QED
      BY <1>3, <1>4, <2>1, <2>5, <2>6, SearchingStep
  <1> QED
    BY <1>2, <1>8, <1>9, <1>10 DEF pages, found

LEMMA SelectAnswers == ASSUME Inv, Answers, NEW e \in setup.engines, Select(e) PROVE Answers'
  <1>0. PICK k, r : k = run[e].key /\ r = run[e].pager
    OBVIOUS
  <1> DEFINE pages == PagesFor(e, k, r)
             ids == ListOf(k, View(e))
             size == SizeFor(e, k)
             missing == run[e].missing
             had == run[e].found
             raced == ids # ListOf(k, rows)
             filled == [p \in missing \cup DOMAIN had |->
                          IF p \in missing THEN Page(p, missing, size, ids, raced) ELSE had[p]]
  <1>1. e \in Engines /\ DOMAIN run = Engines /\ run[e].at = "select" /\ k \in Keys
    BY <1>0, SetupOK DEF Select, Inv, Types, RunOK
  <1>2. setup' = setup /\ rows' = rows /\ lost' = lost /\ unseen' = unseen /\ tx' = tx
        /\ redis' = redis /\ local' = local
    BY DEF Select, cacheVars
  <1>3. Stored /\ Stored'
    BY <1>2, StoredLess DEF Answers
  <1>4. /\ PagerOK(k, r) /\ missing \subseteq pages /\ missing # {} /\ DOMAIN had = pages \ missing
        /\ \A p \in DOMAIN had : PageOf(k, p, had[p])
    BY <1>0, <1>1 DEF Answers, Asking, Searching
  <1>5. (\A q : PagerOK(k, q)' <=> PagerOK(k, q)) /\ PagesFor(e, k, r)' = pages /\ PageSize(e)' = PageSize(e)
    BY <1>1, <1>2, SetupStays
  <1>6. run' = [run EXCEPT ![e] =
          IF ~IsOne(k) /\ CutPanics(missing, size, ids)
          THEN [at |-> "answered", key |-> k, pager |-> r, found |-> filled,
                answer |-> [total |-> Len(ids), ids |-> <<>>, panics |-> TRUE]]
          ELSE [at |-> IF HasLocal(e) /\ (IsOne(k) \/ ~setup.redis) THEN "keep" ELSE "store",
                key |-> k, pager |-> r, missing |-> missing, found |-> filled, raced |-> FALSE]]
    BY <1>0 DEF Select, SizeFor
  <1>7. /\ View(e) \in [Ids -> RowOrNone] /\ ids \in Seq(Ids) /\ (IsOne(k) => Len(ids) <= 1)
    <2> DEFINE T == View(e)
    <2>1. T \in [Ids -> RowOrNone]
      BY <1>1, ViewOK
    <2>2. \A i, j \in Ids : i # j /\ IsRow(T[i]) => T[i] # T[j]
      BY <1>1 DEF Answers, Unique
    <2> HIDE DEF T
    <2>3. ListOf(k, T) \in Seq(Ids)
      BY <2>1, ListIs
    <2>4. IsOne(k) => Len(ListOf(k, T)) <= 1
      BY <1>1, <2>1, <2>2, OneRow
    <2> QED
      BY <2>1, <2>3, <2>4 DEF T
  <1>8. PICK h \in Nat : \A p \in pages : p <= h
    BY <1>4, PagesForOK
  <1>9. /\ size \in Nat \ {0} /\ pages \in SUBSET (Nat \ {0}) /\ \A p \in pages : (p - 1) * size < ListMax
    BY <1>4, PagesForOK
  <1>10. missing \in SUBSET (Nat \ {0}) /\ \A m \in missing : m <= h
    BY <1>4, <1>8, <1>9
  <1>11. raced \in BOOLEAN /\ DOMAIN filled = pages
         /\ \A p \in missing : filled[p] = Page(p, missing, size, ids, raced)
    BY <1>4
  <1>12. \A p \in pages \ missing : filled[p] = had[p]
    BY <1>4
  <1> HIDE DEF filled, raced, ids, size, missing, had, pages
  <1>13. ASSUME NEW p \in missing PROVE PageOf(k, p, filled[p]) /\ filled[p].first = LeastOf(missing)
    <2> DEFINE v == Page(p, missing, size, ids, raced)
    <2>1. v \in Value /\ (LeastOf(missing) = 1 => v.ids = Piece(ids, p, p, size))
      <3>1. ids \in Seq(Ids) /\ size \in Nat \ {0} /\ raced \in BOOLEAN
        BY <1>7, <1>9, <1>11
      <3>2. PICK s \in Nat \ {0}, l \in Seq(Ids), b \in BOOLEAN, M \in SUBSET (Nat \ {0}) :
              s = size /\ l = ids /\ b = raced /\ M = missing
        BY <1>10, <3>1
      <3>3. p \in M /\ \A m \in M : m <= h
        BY <1>10, <3>2
      <3>4. Page(p, M, s, l, b) \in Value /\ (LeastOf(M) = 1 => Page(p, M, s, l, b).ids = Piece(l, p, p, s))
        BY <3>3, PageIsPiece
      <3> QED
        BY <3>2, <3>4
    <2>2. v.size = size /\ v.total = Len(ids) /\ v.of = ids /\ v.first = LeastOf(missing)
      BY DEF Page
    <2> HIDE DEF v
    <2>3. size # 0 /\ p \in Nat \ {0} /\ (p - 1) * size < ListMax
      BY <1>4, <1>9, <1>10
    <2>4. PageOf(k, p, v)
      BY <1>7, <2>1, <2>2, <2>3 DEF PageOf
    <2>5. filled[p] = v
      BY <1>11 DEF v
    <2> QED
      BY <2>2, <2>4, <2>5
  <1>14. \A p \in DOMAIN filled : PageOf(k, p, filled[p])
    BY <1>4, <1>11, <1>12, <1>13
  <1>15. CASE ~IsOne(k) /\ CutPanics(missing, size, ids)
    <2> DEFINE x == [at |-> "answered", key |-> k, pager |-> r, found |-> filled,
                     answer |-> [total |-> Len(ids), ids |-> <<>>, panics |-> TRUE]]
    <2>1. run' = [run EXCEPT ![e] = x]
      BY <1>6, <1>15
    <2>2. x.at = "answered" /\ x.found = filled
      OBVIOUS
    <2> HIDE DEF x
    <2>3. run'[e] = x
      BY <1>1, <2>1
    <2>4. Asking(e)'
      BY <2>2, <2>3 DEF Asking, Searching
    <2>5. LeastOf(missing) # 1
      BY <1>7, <1>9, <1>10, <1>15, NoCutPanics
    <2>6. ~OfOneList(e)'
      <3>1. PICK p \in missing : TRUE
        BY <1>4
      <3>2. p \in DOMAIN filled /\ filled[p].first # 1
        BY <1>4, <1>11, <1>13, <2>5, <3>1
      <3> QED
        BY <2>2, <2>3, <3>2 DEF OfOneList
    <2>7. AnswerOK(e)'
      BY <2>6 DEF AnswerOK
    <2> QED
      BY <1>2, <1>3, <2>1, <2>4, <2>7, SearchingStep
  <1>16. CASE ~(~IsOne(k) /\ CutPanics(missing, size, ids))
    <2> DEFINE x == [at |-> IF HasLocal(e) /\ (IsOne(k) \/ ~setup.redis) THEN "keep" ELSE "store",
                     key |-> k, pager |-> r, missing |-> missing, found |-> filled, raced |-> FALSE]
    <2>1. run' = [run EXCEPT ![e] = x]
      BY <1>6, <1>16
    <2>2. /\ x.at \in {"keep", "store"} /\ x.key = k /\ x.pager = r /\ x.missing = missing
          /\ x.found = filled
      OBVIOUS
    <2> HIDE DEF x
    <2>3. run'[e] = x
      BY <1>1, <2>1
    <2>4. Asking(e)'
      BY <1>4, <1>5, <1>11, <1>14, <2>2, <2>3 DEF Asking, PageOf
    <2>5. AnswerOK(e)'
      BY <2>2, <2>3 DEF AnswerOK
    <2> QED
      BY <1>2, <1>3, <2>1, <2>4, <2>5, SearchingStep
  <1> QED
    BY <1>15, <1>16

\* One cache is filled: the other is, or the search ends.
LEMMA DoneAnswers ==
  ASSUME Inv, Answers, setup' = setup, rows' = rows, tx' = tx, lost' = lost, unseen' = unseen, Stored',
         NEW e \in setup.engines, Fills(run[e].at), NEW next, next \in {"keep", "store", "answered"}, Done(e, next)
  PROVE  Answers'
  <1>1. e \in Engines /\ DOMAIN run = Engines /\ Filling(e)
    BY SetupOK DEF Inv, Types, RunOK
  <1>2. PICK k, r, found, missing :
          k = run[e].key /\ r = run[e].pager /\ found = run[e].found /\ missing = run[e].missing
    OBVIOUS
  <1>3. /\ PagerOK(k, r) /\ missing \subseteq PagesFor(e, k, r) /\ DOMAIN found = PagesFor(e, k, r)
        /\ \A p \in DOMAIN found : PageOf(k, p, found[p])
    BY <1>1, <1>2 DEF Answers, Asking, Searching, Fills
  <1>4. CASE next = "answered"
    <2> DEFINE totals == IF missing = {} THEN Totals(found) ELSE {found[p].total : p \in missing}
    <2>1. Answered(e, k, r, found, totals)
      BY <1>2, <1>4 DEF Done
    <2>2. \A t \in totals : \E p \in DOMAIN found : t = found[p].total
      BY <1>3 DEF Totals
    <2> HIDE DEF totals
    <2>3. Asking(e)' /\ AnswerOK(e)'
      BY <1>3, <2>1, <2>2, AnsweredRight
    <2>4. PICK x : run' = [run EXCEPT ![e] = x]
      BY <1>1, <2>1, AnsweredRun
    <2> QED
      BY <2>3, <2>4, SearchingStep
  <1>5. CASE next # "answered"
    <2> DEFINE x == [run[e] EXCEPT !.at = next]
    <2>1. run' = [run EXCEPT ![e] = x]
      BY <1>5 DEF Done
    <2>2. x = [at |-> next, key |-> k, pager |-> r, missing |-> missing, found |-> found, raced |-> run[e].raced]
      BY <1>1, <1>2 DEF Filling
    <2>3. x.at = next /\ x.key = k /\ x.pager = r /\ x.missing = missing /\ x.found = found
      BY <2>2
    <2> HIDE DEF x
    <2>4. run'[e] = x
      BY <1>1, <2>1
    <2>5. (\A q : PagerOK(k, q)' <=> PagerOK(k, q)) /\ PagesFor(e, k, r)' = PagesFor(e, k, r)
      BY <1>1, SetupStays
    <2>6. Asking(e)'
      BY <1>3, <1>5, <2>3, <2>4, <2>5 DEF Asking, PageOf
    <2>7. AnswerOK(e)'
      BY <1>5, <2>3, <2>4 DEF AnswerOK
    <2> QED
      BY <2>1, <2>6, <2>7, SearchingStep
  <1> QED
    BY <1>4, <1>5

LEMMA StoreAnswers == ASSUME Inv, Answers, NEW e \in setup.engines, Store(e) PROVE Answers'
  <1> DEFINE Old(k, missing) == {x \in redis : ~(x.key = k /\ x.page \in missing)}
             New(k, missing, found, raced) ==
               {[key |-> k, page |-> p, value |-> Overtaken(found[p], raced)] : p \in missing}
  <1>1. e \in Engines /\ run[e].at = "store" /\ Filling(e)
    BY SetupOK DEF Store, Inv, Types, RunOK, Fills
  <1>2. setup' = setup /\ rows' = rows /\ lost' = lost /\ unseen' = unseen /\ tx' = tx /\ local' = local
    BY DEF Store, cacheVars
  <1>3. PICK k, found, missing, raced :
          k = run[e].key /\ found = run[e].found /\ missing = run[e].missing /\ raced = run[e].raced
    OBVIOUS
  <1>4. redis' = Old(k, missing) \cup New(k, missing, found, raced)
    BY <1>3 DEF Store
  <1>5. raced \in BOOLEAN /\ \A p \in missing : PageOf(k, p, found[p])
    BY <1>1, <1>3 DEF Answers, Asking, Searching, Filling
  <1>6. ASSUME NEW x \in redis' PROVE PageOf(x.key, x.page, x.value)
    <2>1. CASE x \in Old(k, missing)
      BY <2>1 DEF Answers, Stored
    <2>2. CASE x \in New(k, missing, found, raced)
      <3>1. PICK p \in missing : x = [key |-> k, page |-> p, value |-> Overtaken(found[p], raced)]
        BY <2>2
      <3>2. PageOf(k, p, Overtaken(found[p], raced))
        BY <1>5, OvertakenPage
      <3> QED
        BY <3>1, <3>2
    <2> QED
      BY <1>4, <2>1, <2>2
  <1>7. ASSUME NEW x \in redis', NEW y \in redis', x.key = y.key, x.page = y.page PROVE x = y
    <2>1. CASE x \in Old(k, missing) /\ y \in Old(k, missing)
      BY <1>7, <2>1 DEF Answers, Stored
    <2>2. CASE x \in New(k, missing, found, raced) /\ y \in New(k, missing, found, raced)
      BY <1>7, <2>2
    <2>3. CASE x \in Old(k, missing) /\ y \in New(k, missing, found, raced)
      BY <1>7, <2>3
    <2>4. CASE y \in Old(k, missing) /\ x \in New(k, missing, found, raced)
      BY <1>7, <2>4
    <2> QED
      BY <1>4, <2>1, <2>2, <2>3, <2>4
  <1>8. Stored'
    <2>1. \A x \in redis' : PageOf(x.key, x.page, x.value)'
      BY <1>6 DEF PageOf
    <2>2. \A x \in local' : PageOf(x.key, 1, x.value)'
      BY <1>2 DEF Answers, Stored, PageOf
    <2>3. \A x, y \in local' : x.cache = y.cache /\ x.key = y.key => x = y
      BY <1>2 DEF Answers, Stored
    <2> QED
      BY <1>7, <2>1, <2>2, <2>3 DEF Stored
  <1>9. PICK next : next \in {"keep", "store", "answered"} /\ Done(e, next)
    BY DEF Store
  <1> QED
    BY <1>1, <1>2, <1>8, <1>9, DoneAnswers DEF Fills

LEMMA KeepAnswers == ASSUME Inv, Answers, NEW e \in setup.engines, Keep(e) PROVE Answers'
  <1>1. e \in Engines /\ run[e].at = "keep" /\ Filling(e) /\ HasLocal(e)
    BY SetupOK DEF Keep, Inv, Types, RunOK, Fills
  <1>2. setup' = setup /\ rows' = rows /\ lost' = lost /\ unseen' = unseen /\ tx' = tx /\ redis' = redis
    BY DEF Keep, cacheVars
  <1>3. PICK k, v, raced : k = run[e].key /\ v = run[e].found[1] /\ raced = run[e].raced
    OBVIOUS
  <1> DEFINE new == [cache |-> LocalOf(e), key |-> k, value |-> Overtaken(v, raced)]
  <1>4. local' = {x \in local : ~(x.cache = LocalOf(e) /\ x.key = k)} \cup {new}
    BY <1>3 DEF Keep
  <1>5. raced \in BOOLEAN /\ PageOf(k, 1, v)
    <2>1. 1 \in PagesFor(e, k, run[e].pager)
      BY <1>1 DEF PagesFor
    <2> QED
      BY <1>1, <1>3, <2>1 DEF Answers, Asking, Searching, Filling
  <1>6. PageOf(k, 1, Overtaken(v, raced)) /\ new.cache = LocalOf(e) /\ new.key = k /\ new.value = Overtaken(v, raced)
    BY <1>5, OvertakenPage
  <1> HIDE DEF new
  <1>7. Stored'
    <2>1. \A x \in redis' : PageOf(x.key, x.page, x.value)'
      BY <1>2 DEF Answers, Stored, PageOf
    <2>2. \A x, y \in redis' : x.key = y.key /\ x.page = y.page => x = y
      BY <1>2 DEF Answers, Stored
    <2>3. \A x \in local' : PageOf(x.key, 1, x.value)
      BY <1>4, <1>6 DEF Answers, Stored
    <2>4. \A x \in local' : PageOf(x.key, 1, x.value)'
      BY <2>3 DEF PageOf
    <2>5. \A x, y \in local' : x.cache = y.cache /\ x.key = y.key => x = y
      BY <1>4, <1>6 DEF Answers, Stored
    <2> QED
      BY <2>1, <2>2, <2>4, <2>5 DEF Stored
  <1>8. PICK next : next \in {"keep", "store", "answered"} /\ Done(e, next)
    BY DEF Keep
  <1> QED
    BY <1>1, <1>2, <1>7, <1>8, DoneAnswers DEF Fills

LEMMA AnswersStep == Inv /\ Answers /\ [Next]_vars => Answers'
  <1> SUFFICES ASSUME Inv, Answers, [Next]_vars PROVE Answers'
    OBVIOUS
  <1>1. CASE UNCHANGED vars
    BY <1>1, StutterAnswers
  <1>2. ASSUME NEW e \in setup.engines, Return(e) PROVE Answers'
    BY <1>2, ReturnAnswers
  <1>3. CASE Evict
    BY <1>3, EvictAnswers
  <1>4. ASSUME NEW e \in setup.engines,
               \/ Search(e) \/ Select(e) \/ Store(e) \/ Keep(e)
               \/ Load(e) \/ FlushInsert(e) \/ FlushUpdate(e) \/ FlushDelete(e)
               \/ FlushLazy(e) \/ HandleLazy(e) \/ RemoveLocal(e) \/ DelRedis(e)
               \/ Begin(e) \/ Commit(e) \/ Rollback(e)
               \/ Crash(e)
        PROVE  Answers'
    BY <1>4, SearchAnswers, SelectAnswers, StoreAnswers, KeepAnswers, LoadAnswers, FlushesAnswers,
       HandleLazyAnswers, DeletionAnswers, BeginAnswers, CommitAnswers, RollbackAnswers, CrashAnswers
  <1> QED
    BY <1>1, <1>2, <1>3, <1>4 DEF Next, Step

LEMMA SpecAnswers == Spec => [](Inv /\ Answers)
  BY InvInit, InvStep, AnswersInit, AnswersStep, PTL DEF Spec

LEMMA AnswersImply == Inv /\ Answers => TypeOK /\ AnswerIsPage
  <1> SUFFICES ASSUME Inv, Answers PROVE TypeOK /\ AnswerIsPage
    OBVIOUS
  <1>1. TypeOK
    <2>1. setup \in Setups /\ rows \in [Ids -> Row \cup {Unused, Gone}]
      BY DEF Inv, Types, RowOrNone
    <2>2. ASSUME NEW e \in Engines
          PROVE  /\ tx[e].open \in BOOLEAN /\ tx[e].stale \in BOOLEAN
                 /\ DOMAIN tx[e].rows \subseteq Ids /\ tx[e].dels \subseteq Keys
                 /\ run[e].at \in {"idle", "select", "store", "keep", "answered", "loaded", "local", "redis"}
      <3>1. tx[e].open \in BOOLEAN /\ tx[e].stale \in BOOLEAN /\ tx[e].dels \subseteq Keys
        BY DEF Inv, Types, TxType
      <3>2. DOMAIN tx[e].rows \subseteq Ids
        BY ViewOK
      <3> QED
        BY <3>1, <3>2 DEF Inv, RunOK
    <2>3. \A x \in redis : /\ x.key \in Keys /\ x.page \in Nat \ {0} /\ x.value \in Value
                           /\ (x.page - 1) * x.value.size < ListMax
      BY DEF Inv, RedisOK, Answers, Stored, PageOf
    <2>4. \A x \in local : x.cache \in Caches /\ x.key \in Keys /\ x.value \in Value
      BY DEF Inv, LocalOK, Answers, Stored, PageOf
    <2> QED
      BY <2>1, <2>2, <2>3, <2>4 DEF TypeOK, Answers, Stored, Named
  <1>2. AnswerIsPage
    <2> SUFFICES ASSUME NEW e \in setup.engines PROVE AnswerOK(e)
      BY DEF AnswerIsPage, AnswerOK, OfOneList, RightAnswer, IdsOf
    <2> QED
      BY SetupOK DEF Inv, Types, Answers
  <1> QED
    BY <1>1, <1>2

\* The caches keep pages that are well formed, one for each page of a list, and none
\* that starts past ListMax (cachedSearch panics for a pager that ends past it).
THEOREM TypesHold == Spec => []TypeOK
  BY SpecAnswers, AnswersImply, PTL

\* A cached search (cached_search.go: the pages that caches had, those that MySQL's
\* SELECT filled, and the slice of both) answers with what its pager asks for, and
\* panics for the pagers that RunsPast names and no other, when its pages are of one
\* list and the SELECT began with the first page.
THEOREM AnswersArePages == Spec => []AnswerIsPage
  BY SpecAnswers, AnswersImply, PTL
=============================================================================
