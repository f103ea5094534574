----------------------- MODULE FlushTransactionProofs -----------------------
(* Theorems about FlushTransaction, for any entities, pools and programs:   *)
(* its transactions, what the caches are told, that a flush is written as   *)
(* a whole or not at all, and that it ends.                                 *)
EXTENDS FlushTransaction, FiniteSetTheorems, SequenceTheorems, TLAPS

Frames == [depth : Nat, root : BOOLEAN, inside : BOOLEAN, ents : SUBSET Entities]

Running == {"build", "insert", "update", "delete", "caches"}

\* The type of the state, with that of the stack.
Typed ==
    /\ TypeOK
    /\ stack \in Seq(Frames)
    /\ kept \in [queue : SUBSET Writes, sets : SUBSET Writes]
    /\ pc # "idle" => flushes > 0
    /\ pc \in Running => stack # << >>

-----------------------------------------------------------------------------
(* What the constants and the helpers are.                                 *)

LEMMA SetupIs ==
  ASSUME setup \in Setups
  PROVE  /\ TypeOf \in [Entities -> Types] /\ PoolOf \in [Types -> Pools]
         /\ setup.entities \subseteq Entities /\ setup.flushers \subseteq Flushers
         /\ New \subseteq Entities /\ Upserts \subseteq Entities
         /\ Refs \in [Entities -> SUBSET Entities]
         /\ OneShot \in BOOLEAN /\ MaxFlushes \in Nat /\ MaxChanges \in Nat
         /\ \A x \in Entities : Pool(x) \in Pools
  <1>1. setup \in SetupType /\ TypeOf \in [Entities -> Types]
    BY SetupsAssumption
  <1> QED
    BY <1>1 DEF SetupType, PoolOf, New, Upserts, Refs, OneShot, MaxFlushes, MaxChanges, Pool

\* A flush writes with its own number.
LEMMA WriteIs ==
  ASSUME Typed, pc # "idle", NEW x \in Entities, NEW op \in {"I", "U", "D"}
  PROVE  Write(x, op) \in Writes /\ Write(x, op).x = x
  BY SetupIs DEF Typed, TypeOK, Write, Writes

\* What Queued does, with or without writes to queue.
Enqueued(f, W) ==
    /\ rf' \in [Flushers -> Objects \cup {None}]
    /\ queue' \in [Objects -> SUBSET Writes]
    /\ localSets' = [localSets EXCEPT ![f] = @ \cup W]
    /\ localSets' \in [Flushers -> SUBSET Writes]
    /\ \A g \in Flushers \ {f} : rf'[g] = rf[g]
    /\ rf[f] # None => rf'[f] = rf[f]
    /\ \/ W = {} /\ rf' = rf /\ queue' = queue
       \/ /\ rf'[f] \in Objects
          /\ rf[f] = None => IF afterRedis # None THEN rf'[f] = afterRedis
                             ELSE \A g \in Flushers : rf[g] # rf'[f]
          /\ \A o \in Objects \ {rf'[f]} : queue'[o] = queue[o]
          /\ queue'[rf'[f]] = IF rf[f] = None /\ afterRedis = None THEN W
                              ELSE queue[rf'[f]] \cup W

LEMMA QueuedIs ==
  ASSUME Typed, NEW f \in Flushers, NEW W \in SUBSET Writes, Queued(f, W)
  PROVE  Enqueued(f, W)
  <1>1. /\ rf \in [Flushers -> Objects \cup {None}] /\ afterRedis \in Objects \cup {None}
        /\ queue \in [Objects -> SUBSET Writes] /\ localSets \in [Flushers -> SUBSET Writes]
    BY DEF Typed, TypeOK
  <1>2. localSets' = [localSets EXCEPT ![f] = @ \cup W]
    BY DEF Queued
  <1>3. CASE W = {}
    BY <1>1, <1>2, <1>3 DEF Queued, Enqueued
  <1>4. CASE W # {}
    <2>1. PICK o \in RedisFlusher(f) :
            /\ rf' = [rf EXCEPT ![f] = o]
            /\ queue' = [queue EXCEPT ![o] = IF o \in Held THEN @ \cup W ELSE W]
      BY <1>4 DEF Queued
    <2>2. /\ o \in Objects
          /\ rf[f] # None => o = rf[f] /\ o \in Held
          /\ rf[f] = None /\ afterRedis # None => o = afterRedis /\ o \in Held
          /\ rf[f] = None /\ afterRedis = None => o \notin Held
      <3>1. CASE rf[f] # None
        BY <1>1, <2>1, <3>1 DEF RedisFlusher, Held
      <3>2. CASE rf[f] = None /\ afterRedis # None
        BY <1>1, <2>1, <3>2 DEF RedisFlusher, Held
      <3>3. CASE rf[f] = None /\ afterRedis = None
        <4>1. \E b \in Objects : \A g \in Flushers : rf[g] # b
          BY <1>1, <3>3, ObjectsSuffice
        <4>2. \E b \in Objects : b \notin Held
          BY <3>3, <4>1, ObjectsAssumption DEF Held
        <4> QED
          BY <2>1, <3>3, <4>2 DEF RedisFlusher
      <3> QED
        BY <3>1, <3>2, <3>3
    <2>3. o # None
      BY <2>2, ObjectsAssumption
    <2>4. rf' \in [Flushers -> Objects \cup {None}] /\ rf'[f] = o
      BY <1>1, <2>1, <2>2
    <2>5. queue' \in [Objects -> SUBSET Writes]
      BY <1>1, <2>1, <2>2
    <2>6. rf[f] = None /\ afterRedis = None => \A g \in Flushers : rf[g] # o
      BY <2>2 DEF Held
    <2> QED
      BY <1>1, <1>2, <2>1, <2>2, <2>3, <2>4, <2>5, <2>6 DEF Enqueued
  <1> QED
    BY <1>3, <1>4

\* The same of UpdateRedisCache inside a transaction.
LEMMA HandedOver ==
  ASSUME Typed, cur \in Flushers, inTx, UpdateRedisCache
  PROVE  /\ rf' \in [Flushers -> Objects \cup {None}]
         /\ queue' \in [Objects -> SUBSET Writes]
         /\ \A g \in Flushers \ {cur} : rf'[g] = rf[g]
         /\ rf'[cur] \in Objects /\ afterRedis' = rf'[cur]
         /\ rf[cur] # None => rf'[cur] = rf[cur]
         /\ rf[cur] = None => IF afterRedis # None THEN rf'[cur] = afterRedis
                              ELSE \A g \in Flushers : rf[g] # rf'[cur]
         /\ \A o \in Objects \ {rf'[cur]} : queue'[o] = queue[o]
         /\ queue'[rf'[cur]] = IF rf[cur] = None /\ afterRedis = None THEN {} ELSE queue[rf'[cur]]
         /\ unsent' = unsent \cup (IF afterRedis \in {None, rf'[cur]} THEN {} ELSE queue[afterRedis])
         /\ published' = published
  <1>1. /\ rf \in [Flushers -> Objects \cup {None}] /\ afterRedis \in Objects \cup {None}
        /\ queue \in [Objects -> SUBSET Writes]
    BY DEF Typed, TypeOK
  <1>2. PICK o \in RedisFlusher(cur) :
           /\ rf' = [rf EXCEPT ![cur] = o]
           /\ afterRedis' = o
           /\ queue' = IF o \in Held THEN queue ELSE [queue EXCEPT ![o] = {}]
           /\ unsent' = unsent \cup (IF afterRedis \in {None, o} THEN {} ELSE queue[afterRedis])
           /\ UNCHANGED published
    BY DEF UpdateRedisCache
  <1>3. /\ o \in Objects
        /\ rf[cur] # None => o = rf[cur] /\ o \in Held
        /\ rf[cur] = None /\ afterRedis # None => o = afterRedis /\ o \in Held
        /\ rf[cur] = None /\ afterRedis = None => o \notin Held
    <2>1. CASE rf[cur] # None
      BY <1>1, <1>2, <2>1 DEF RedisFlusher, Held
    <2>2. CASE rf[cur] = None /\ afterRedis # None
      BY <1>1, <1>2, <2>2 DEF RedisFlusher, Held
    <2>3. CASE rf[cur] = None /\ afterRedis = None
      <3>1. \E b \in Objects : \A g \in Flushers : rf[g] # b
        BY <1>1, <2>3, ObjectsSuffice
      <3>2. \E b \in Objects : b \notin Held
        BY <2>3, <3>1, ObjectsAssumption DEF Held
      <3> QED
        BY <1>2, <2>3, <3>2 DEF RedisFlusher
    <2> QED
      BY <2>1, <2>2, <2>3
  <1>4. rf' \in [Flushers -> Objects \cup {None}] /\ rf'[cur] = o
    BY <1>1, <1>2, <1>3
  <1>5. queue' \in [Objects -> SUBSET Writes]
    BY <1>1, <1>2, <1>3
  <1>6. rf[cur] = None /\ afterRedis = None => \A g \in Flushers : rf[g] # o
    BY <1>3 DEF Held
  <1> QED
    BY <1>1, <1>2, <1>3, <1>4, <1>5, <1>6

\* The stack after a call of flush has split into two, or one.
LEMMA SplitIs ==
  ASSUME NEW s \in Seq(Frames), s # << >>, NEW A \in Frames, NEW B \in Frames, NEW one \in BOOLEAN,
         NEW t, t = <<A>> \o (IF one THEN << >> ELSE <<B>>) \o Tail(s)
  PROVE  /\ t \in Seq(Frames) /\ t # << >> /\ Head(t) = A
         /\ one => /\ Len(t) = Len(s)
                   /\ t[1] = A
                   /\ \A i \in 2 .. Len(t) : t[i] = s[i]
         /\ ~one => /\ Len(t) = Len(s) + 1
                    /\ t[1] = A /\ t[2] = B
                    /\ \A i \in 3 .. Len(t) : t[i] = s[i - 1]
  <1> DEFINE a == <<A>>
             m == IF one THEN << >> ELSE <<B>>
             u == a \o m
             r == Tail(s)
  <1>1. /\ r \in Seq(Frames) /\ Len(r) = Len(s) - 1 /\ \A i \in 1 .. Len(r) : r[i] = s[i + 1]
        /\ Len(s) \in Nat /\ Len(s) > 0
    BY HeadTailProperties, EmptySeq
  <1>2. a \in Seq(Frames) /\ Len(a) = 1 /\ a[1] = A
    OBVIOUS
  <1>3. m \in Seq(Frames) /\ Len(m) = (IF one THEN 0 ELSE 1) /\ (~one => m[1] = B)
    OBVIOUS
  <1> HIDE DEF a, m, r
  <1>4. /\ u \in Seq(Frames) /\ Len(u) = 1 + Len(m) /\ u[1] = A
        /\ ~one => u[2] = B
    <2>1. /\ u \in Seq(Frames) /\ Len(u) = Len(a) + Len(m)
          /\ \A i \in 1 .. Len(a) + Len(m) : u[i] = IF i <= Len(a) THEN a[i] ELSE m[i - Len(a)]
      BY <1>2, <1>3, ConcatProperties, Zenon
    <2> QED
      BY <1>2, <1>3, <2>1
  <1> HIDE DEF u
  <1>5. /\ t = u \o r
    BY DEF u, a, m, r
  <1>6. /\ t \in Seq(Frames) /\ Len(t) = Len(u) + Len(r)
        /\ \A i \in 1 .. Len(u) + Len(r) : t[i] = IF i <= Len(u) THEN u[i] ELSE r[i - Len(u)]
    <2>1. /\ u \o r \in Seq(Frames) /\ Len(u \o r) = Len(u) + Len(r)
          /\ \A i \in 1 .. Len(u) + Len(r) : (u \o r)[i] = IF i <= Len(u) THEN u[i] ELSE r[i - Len(u)]
      BY <1>1, <1>4, ConcatProperties, Zenon
    <2> QED
      BY <1>5, <2>1
  <1>7. t # << >> /\ t[1] = A /\ Head(t) = A
    <2>1. Len(t) > 0 /\ t[1] = A
      BY <1>1, <1>3, <1>4, <1>6
    <2> QED
      BY <1>6, <2>1, EmptySeq
  <1>8. CASE one
    BY <1>1, <1>3, <1>4, <1>6, <1>7, <1>8
  <1>9. CASE ~one
    BY <1>1, <1>3, <1>4, <1>6, <1>7, <1>9
  <1> QED
    BY <1>6, <1>7, <1>8, <1>9

LEMMA PopIs ==
  ASSUME NEW s \in Seq(Frames), s # << >>
  PROVE  /\ Tail(s) \in Seq(Frames)
         /\ Len(Tail(s)) = Len(s) - 1 /\ Len(s) \in Nat /\ Len(s) >= 1
         /\ (Tail(s) = << >> <=> Len(s) = 1)
         /\ \A i \in 1 .. Len(s) - 1 : Tail(s)[i] = s[i + 1]
         /\ Head(s) = s[1]
         /\ Head(s) \in Frames
  <1>1. /\ Tail(s) \in Seq(Frames) /\ Len(Tail(s)) = Len(s) - 1
        /\ \A i \in 1 .. Len(Tail(s)) : Tail(s)[i] = s[i + 1]
        /\ Head(s) \in Frames
    BY HeadTailProperties
  <1>2. Len(s) \in Nat /\ Len(s) >= 1
    BY EmptySeq
  <1>3. Tail(s) = << >> <=> Len(s) = 1
    <2>0. Len(<< >>) = 0
      OBVIOUS
    <2>1. Tail(s) = << >> => Len(s) = 1
      BY <1>1, <1>2, <2>0
    <2>2. Len(s) = 1 => Len(Tail(s)) = 0
      BY <1>1, <1>2
    <2>3. Len(Tail(s)) = 0 => Tail(s) = << >>
      BY <1>1, EmptySeq
    <2> QED
      BY <2>1, <2>2, <2>3
  <1>4. Head(s) = s[1]
    OBVIOUS
  <1> QED
    BY <1>1, <1>2, <1>3, <1>4

-----------------------------------------------------------------------------
(* The type of the state.                                                  *)

LEMMA TypedInit == Init => Typed
  <1> SUFFICES ASSUME Init PROVE Typed
    OBVIOUS
  <1>1. New \subseteq Entities /\ MaxFlushes \in Nat /\ MaxChanges \in Nat
    BY SetupIs DEF Init
  <1>2. cur = None /\ pc = "idle" /\ flushes = 0 /\ faults = 0 /\ changes = 0
    BY DEF Init
  <1>3. tracked \in [Flushers -> SUBSET Entities] /\ deletes \in [Flushers -> SUBSET Entities]
        /\ updates \in [Flushers -> SUBSET Writes] /\ localSets \in [Flushers -> SUBSET Writes]
        /\ rf \in [Flushers -> Objects \cup {None}] /\ afterRedis \in Objects \cup {None}
        /\ queue \in [Objects -> SUBSET Writes]
    BY DEF Init
  <1>4. kept = [queue |-> {}, sets |-> {}] /\ kept \in [queue : SUBSET Writes, sets : SUBSET Writes]
        /\ kept.queue = {} /\ kept.sets = {}
    BY DEF Init
  <1>5. setup \in Setups /\ state \in [Entities -> {"new", "clean", "dirty", "delete"}]
        /\ tx \in [Pools -> {"none", "open", "broken"}] /\ open \in [Pools -> SUBSET Writes]
        /\ committed = {} /\ published = {} /\ shown = {} /\ afterLocal = {} /\ built = {} /\ unsent = {}
        /\ batch = {} /\ inTx = FALSE /\ useTx = FALSE /\ torn = {} /\ outer = {} /\ overflowed = FALSE
    BY DEF Init
  <1>6. stack \in Seq(Frames)
    BY EmptySeq DEF Init
  <1>7. flushes \in 0 .. MaxFlushes /\ changes \in 0 .. MaxChanges /\ faults \in 0 .. MaxFaults
    BY <1>1, <1>2, BoundsAssumption
  <1>8. TypeOK
    BY <1>2, <1>3, <1>4, <1>5, <1>7 DEF TypeOK
  <1> QED
    BY <1>2, <1>4, <1>6, <1>8 DEF Typed, Running

\* What Executed does.
LEMMA ExecutedIs ==
  ASSUME Typed, NEW p \in Pools, NEW W \in SUBSET Writes, Executed(p, W)
  PROVE  /\ tx' = tx /\ open' \in [Pools -> SUBSET Writes] /\ committed' \subseteq Writes
         /\ \A q \in Pools \ {p} : open'[q] = open[q]
         /\ IF tx[p] = "open" THEN open'[p] = open[p] \cup W /\ committed' = committed
                              ELSE open' = open /\ committed' = committed \cup W
  BY DEF Executed, Typed, TypeOK

\* What Committed does.
LEMMA CommittedIs ==
  ASSUME Typed, NEW p \in Pools, Committed(p)
  PROVE  /\ tx' = [tx EXCEPT ![p] = "none"] /\ tx' \in [Pools -> {"none", "open", "broken"}]
         /\ open' = [open EXCEPT ![p] = {}] /\ open' \in [Pools -> SUBSET Writes]
         /\ committed' = committed \cup open[p] /\ committed' \subseteq Writes
         /\ shown' = shown \cup afterLocal /\ shown' \subseteq Writes
         /\ afterLocal' = {} /\ afterRedis' = None
         /\ queue' \in [Objects -> SUBSET Writes]
         /\ \A o \in Objects : queue'[o] = IF o = afterRedis THEN {} ELSE queue[o]
         /\ published' = published \cup Holds(afterRedis) /\ published' \subseteq Writes
         /\ kept' \in [queue : SUBSET Writes, sets : SUBSET Writes]
         /\ kept'.queue = kept.queue \cup ((published' \ published) \cap Elsewhere(p))
         /\ kept'.sets = kept.sets \cup (afterLocal \cap Elsewhere(p))
  <1>1. /\ tx \in [Pools -> {"none", "open", "broken"}] /\ open \in [Pools -> SUBSET Writes]
        /\ committed \subseteq Writes /\ published \subseteq Writes /\ shown \subseteq Writes
        /\ afterLocal \subseteq Writes /\ afterRedis \in Objects \cup {None}
        /\ queue \in [Objects -> SUBSET Writes]
        /\ kept \in [queue : SUBSET Writes, sets : SUBSET Writes]
    BY DEF Typed, TypeOK
  <1>2. /\ tx' = [tx EXCEPT ![p] = "none"] /\ open' = [open EXCEPT ![p] = {}]
        /\ committed' = committed \cup open[p]
        /\ shown' = shown \cup afterLocal /\ afterLocal' = {} /\ afterRedis' = None
    BY DEF Committed
  <1>3. /\ queue' \in [Objects -> SUBSET Writes]
        /\ \A o \in Objects : queue'[o] = IF o = afterRedis THEN {} ELSE queue[o]
        /\ published' = published \cup Holds(afterRedis) /\ published' \subseteq Writes
    <2>1. CASE afterRedis = None
      BY <1>1, <2>1, ObjectsAssumption DEF Committed, Holds
    <2>2. CASE afterRedis # None
      BY <1>1, <2>2 DEF Committed, Holds
    <2> QED
      BY <2>1, <2>2
  <1>4. kept' = [queue |-> kept.queue \cup ((published' \ published) \cap Elsewhere(p)),
                 sets |-> kept.sets \cup (afterLocal \cap Elsewhere(p))]
    BY DEF Committed
  <1>5. Elsewhere(p) \subseteq Writes
    BY <1>1 DEF Elsewhere
  <1> QED
    BY <1>1, <1>2, <1>3, <1>4, <1>5

\* What the queues of the flushers hold.
LEMMA SurvivingIs ==
  ASSUME Typed
  PROVE  /\ Surviving \subseteq Writes
         /\ \A f \in Flushers : Holds(rf[f]) \subseteq Surviving \cup committed
         /\ \A f \in Flushers : Holds(rf[f]) \subseteq Writes
         /\ Holds(afterRedis) \subseteq Writes
  <1>1. /\ rf \in [Flushers -> Objects \cup {None}] /\ afterRedis \in Objects \cup {None}
        /\ queue \in [Objects -> SUBSET Writes]
    BY DEF Typed, TypeOK
  <1>2. \A o \in Objects \cup {None} : Holds(o) \subseteq Writes
    BY <1>1 DEF Holds
  <1> QED
    BY <1>1, <1>2 DEF Surviving

\* The unsaved references, which flush saves first, what is left for the call after
\* that, and whether this call opens the transactions.
Referred == UNION {NewRefs(x) : x \in Blocked}
Rest == Top.ents \ Referred
Starts == ~Inside /\ (Referred # {} \/ NeedsTransaction(Collected, updates'[cur], deletes'[cur]))

\* The three ways a Build goes on.
Refused == Starts /\ ~CanStart(cur) /\ pc' = "fail" /\ UNCHANGED <<stack, batch, left, inTx, torn>>
Split ==
    /\ Referred # {} /\ (Starts => CanStart(cur))
    /\ stack' = <<Frame(Top.depth + 1, FALSE, Inside, Referred)>>
                  \o (IF Rest = {} THEN << >> ELSE <<Frame(Top.depth + 1, TRUE, Inside, Rest)>>)
                  \o Tail(stack)
    /\ torn' = torn \cup (IF \E p \in PoolsOf(Referred \cup Top.ents) : tx'[p] = "none" THEN {flushes} ELSE {})
    /\ UNCHANGED <<pc, batch, left, inTx>>
Collects ==
    /\ Referred = {} /\ (Starts => CanStart(cur)) /\ pc' = "insert"
    /\ batch' = Collected /\ left' = TypesOf(Collected) /\ inTx' = (Inside \/ Starts)
    /\ torn' = torn \cup (IF inTx' /\ \E p \in PoolsOf(Top.ents) : tx'[p] = "none" THEN {flushes} ELSE {})
    /\ UNCHANGED stack

LEMMA BuildIs ==
  ASSUME Typed, Build
  PROVE  /\ pc = "build" /\ cur \in Flushers /\ Top \in Frames /\ stack # << >>
         /\ Ready \subseteq Top.ents /\ Top.ents \subseteq Entities
         /\ DirtyWrites \in SUBSET Writes
         /\ \A w \in DirtyWrites : w.x \in Ready /\ state[w.x] = "dirty" /\ w.op = "U"
         /\ Referred \subseteq Entities /\ \A x \in Referred : state[x] = "new"
         /\ Collected \subseteq Ready
         /\ state' \in [Entities -> {"new", "clean", "dirty", "delete"}]
         /\ \A x \in Entities : state'[x] = IF x \in Ready /\ state[x] = "dirty" THEN "clean" ELSE state[x]
         /\ built' = built \cup DirtyWrites
         /\ updates' = [updates EXCEPT ![cur] = @ \cup DirtyWrites]
         /\ updates' \in [Flushers -> SUBSET Writes]
         /\ deletes' \in [Flushers -> SUBSET Entities]
         /\ \A x \in deletes'[cur] : x \in deletes[cur] \/ (x \in Ready /\ state[x] = "delete")
         /\ \A f \in Flushers \ {cur} : deletes'[f] = deletes[f]
         /\ Queued(cur, DirtyWrites)
         /\ tx' \in [Pools -> {"none", "open", "broken"}]
         /\ \A p \in Pools : tx'[p] = IF Starts /\ tx[p] = "none" /\ p \in PoolsOf(tracked[cur])
                                      THEN "open" ELSE tx[p]
         /\ useTx' = (IF Top.depth = 0 THEN Starts ELSE useTx) /\ useTx' \in BOOLEAN
         /\ Starts \in BOOLEAN /\ (Starts => ~Inside) /\ (~Inside /\ Referred # {} => Starts)
         /\ Refused \/ Split \/ Collects
         /\ UNCHANGED <<open, committed, tracked, afterRedis, afterLocal, published, shown,
                        cur, flushes, changes, faults, kept, unsent, outer, overflowed>>
  <1>0. /\ state \in [Entities -> {"new", "clean", "dirty", "delete"}]
        /\ tx \in [Pools -> {"none", "open", "broken"}]
        /\ updates \in [Flushers -> SUBSET Writes] /\ deletes \in [Flushers -> SUBSET Entities]
        /\ useTx \in BOOLEAN /\ Refs \in [Entities -> SUBSET Entities]
    BY SetupIs DEF Typed, TypeOK
  <1>1. pc = "build" /\ cur \in Flushers /\ stack # << >> /\ Top \in Frames
    <2>1. pc = "build" /\ cur \in Flushers /\ stack # << >> /\ stack \in Seq(Frames)
      BY DEF Build, Typed, TypeOK, Running
    <2> QED
      BY <2>1, PopIs DEF Top
  <1>2. Ready \subseteq Top.ents /\ Top.ents \subseteq Entities
    BY <1>1 DEF Ready, Frames
  <1>3. /\ DirtyWrites \in SUBSET Writes
        /\ \A w \in DirtyWrites : w.x \in Ready /\ state[w.x] = "dirty" /\ w.op = "U"
    <2>1. \A x \in Entities : Write(x, "U") \in Writes /\ Write(x, "U").x = x
      BY <1>1, WriteIs
    <2>2. \A x \in Entities : Write(x, "U").op = "U"
      BY DEF Write
    <2> QED
      BY <1>2, <2>1, <2>2 DEF DirtyWrites
  <1>4. Referred \subseteq Entities /\ (\A x \in Referred : state[x] = "new")
    BY <1>0, <1>1, <1>2 DEF Referred, NewRefs, Blocked
  <1>5. Collected \subseteq Ready
    BY DEF Collected
  <1>6. /\ state' = [x \in Entities |-> IF x \in Ready /\ state[x] = "dirty" THEN "clean" ELSE state[x]]
        /\ built' = built \cup DirtyWrites
        /\ updates' = [updates EXCEPT ![cur] = @ \cup DirtyWrites]
        /\ deletes' = [deletes EXCEPT ![cur] = @ \cup {x \in Ready : state[x] = "delete"}]
        /\ Queued(cur, DirtyWrites)
    BY DEF Build
  <1>7. /\ state' \in [Entities -> {"new", "clean", "dirty", "delete"}]
        /\ \A x \in Entities : state'[x] = IF x \in Ready /\ state[x] = "dirty" THEN "clean" ELSE state[x]
    BY <1>0, <1>6
  <1>8. updates' \in [Flushers -> SUBSET Writes]
    BY <1>0, <1>1, <1>3, <1>6
  <1>9. /\ deletes' \in [Flushers -> SUBSET Entities]
        /\ \A x \in deletes'[cur] : x \in deletes[cur] \/ (x \in Ready /\ state[x] = "delete")
        /\ \A f \in Flushers \ {cur} : deletes'[f] = deletes[f]
    BY <1>0, <1>1, <1>2, <1>6
  <1>10. /\ IF Starts THEN Begun({p \in PoolsOf(tracked[cur]) : tx[p] = "none"}) ELSE UNCHANGED tx
         /\ useTx' = (IF Top.depth = 0 THEN Starts ELSE useTx)
    BY DEF Build, Starts, Referred, UseTransaction
  <1>11. Starts \in BOOLEAN /\ (Starts => ~Inside) /\ (~Inside /\ Referred # {} => Starts)
    BY DEF Starts
  <1>12. /\ tx' \in [Pools -> {"none", "open", "broken"}]
         /\ \A p \in Pools : tx'[p] = IF Starts /\ tx[p] = "none" /\ p \in PoolsOf(tracked[cur])
                                      THEN "open" ELSE tx[p]
    BY <1>0, <1>10, <1>11 DEF Begun
  <1>13. Refused \/ Split \/ Collects
    BY DEF Build, Refused, Split, Collects, Starts, Referred, Rest
  <1>14. UNCHANGED <<open, committed, tracked, afterRedis, afterLocal, published, shown,
                     cur, flushes, changes, faults, kept, unsent, outer, overflowed>>
    BY DEF Build, countVars
  <1> QED
    BY <1>0, <1>1, <1>2, <1>3, <1>4, <1>5, <1>6, <1>7, <1>8, <1>9, <1>10, <1>11, <1>12, <1>13, <1>14

\* The stack after a Split.
LEMMA PushedIs ==
  ASSUME Typed, Build, Split
  PROVE  /\ stack' \in Seq(Frames) /\ stack' # << >>
         /\ Head(stack') = stack'[1] /\ stack'[1] = Frame(Top.depth + 1, FALSE, Inside, Referred)
         /\ Rest = {} => /\ Len(stack') = Len(stack)
                         /\ \A i \in 2 .. Len(stack') : stack'[i] = stack[i]
         /\ Rest # {} => /\ Len(stack') = Len(stack) + 1
                         /\ stack'[2] = Frame(Top.depth + 1, TRUE, Inside, Rest)
                         /\ \A i \in 3 .. Len(stack') : stack'[i] = stack[i - 1]
         /\ Len(stack) \in Nat /\ Len(stack) >= 1 /\ Top = stack[1]
  <1> DEFINE A == Frame(Top.depth + 1, FALSE, Inside, Referred)
             B == Frame(Top.depth + 1, TRUE, Inside, Rest)
             one == Rest = {}
  <1>1. /\ Top \in Frames /\ stack # << >> /\ stack \in Seq(Frames)
        /\ Referred \subseteq Entities /\ Rest \subseteq Entities
    BY BuildIs DEF Rest, Typed
  <1>2. Inside \in BOOLEAN
    BY <1>1 DEF Inside, Frames
  <1>3. A \in Frames /\ B \in Frames
    BY <1>1, <1>2 DEF Frame, Frames
  <1>4. stack' = <<A>> \o (IF one THEN << >> ELSE <<B>>) \o Tail(stack) /\ one \in BOOLEAN
    BY DEF Split
  <1> HIDE DEF A, B, one
  <1>5. /\ stack' \in Seq(Frames) /\ stack' # << >> /\ Head(stack') = A
        /\ one => /\ Len(stack') = Len(stack)
                  /\ stack'[1] = A
                  /\ \A i \in 2 .. Len(stack') : stack'[i] = stack[i]
        /\ ~one => /\ Len(stack') = Len(stack) + 1
                   /\ stack'[1] = A /\ stack'[2] = B
                   /\ \A i \in 3 .. Len(stack') : stack'[i] = stack[i - 1]
    BY <1>1, <1>3, <1>4, SplitIs
  <1>6. Len(stack) \in Nat /\ Len(stack) >= 1 /\ Top = stack[1]
    BY <1>1, PopIs DEF Top
  <1> QED
    BY <1>4, <1>5, <1>6 DEF A, B, one

\* The pools that are shown too early when flush shows the writes of its own.
Early == UNION {open[p] : p \in Pools \ PoolsOf(tracked[cur])}

\* What Caches does.
LEMMA CachesIs ==
  ASSUME Typed, Caches
  PROVE  /\ pc = "caches" /\ cur \in Flushers /\ Top \in Frames /\ stack # << >>
         /\ rf' \in [Flushers -> Objects \cup {None}] /\ queue' \in [Objects -> SUBSET Writes]
         /\ afterRedis' \in Objects \cup {None}
         /\ \A g \in Flushers \ {cur} : rf'[g] = rf[g]
         /\ published' \subseteq Writes /\ shown' \subseteq Writes /\ afterLocal' \subseteq Writes
         /\ unsent' \subseteq Writes
         /\ kept' \in [queue : SUBSET Writes, sets : SUBSET Writes]
         /\ kept'.queue = kept.queue \cup ((published' \ published) \cap Early)
         /\ kept'.sets = kept.sets
         /\ shown' = shown \cup (IF Top.root /\ ~inTx THEN localSets[cur] ELSE {})
         /\ afterLocal' = afterLocal \cup (IF Top.root /\ inTx THEN localSets[cur] ELSE {})
         /\ ~inTx => /\ rf' = rf /\ afterRedis' = afterRedis /\ unsent' = unsent
                     /\ published' = published \cup (IF Top.root THEN Holds(rf[cur]) ELSE {})
                     /\ \A o \in Objects : queue'[o] = IF Top.root /\ o = rf[cur] THEN {} ELSE queue[o]
         /\ inTx => UpdateRedisCache
         /\ stack' = Tail(stack) /\ stack' \in Seq(Frames) /\ Len(stack') = Len(stack) - 1
         /\ Len(stack) \in Nat /\ Len(stack) >= 1 /\ Top = stack[1]
         /\ \A i \in 1 .. Len(stack') : stack'[i] = stack[i + 1]
         /\ stack' = << >> <=> Len(stack) = 1
         /\ pc' = IF stack' = << >> THEN "commit" ELSE "build"
         /\ left' = IF stack' = << >> /\ useTx THEN PoolsOf(tracked[cur]) ELSE {}
         /\ UNCHANGED <<state, built, tx, open, committed, tracked, updates, deletes, localSets, cur,
                        batch, inTx, useTx, flushes, changes, faults, torn, outer, overflowed>>
  <1>0. /\ rf \in [Flushers -> Objects \cup {None}] /\ afterRedis \in Objects \cup {None}
        /\ queue \in [Objects -> SUBSET Writes] /\ localSets \in [Flushers -> SUBSET Writes]
        /\ published \subseteq Writes /\ shown \subseteq Writes /\ afterLocal \subseteq Writes
        /\ unsent \subseteq Writes /\ open \in [Pools -> SUBSET Writes]
        /\ kept \in [queue : SUBSET Writes, sets : SUBSET Writes]
        /\ inTx \in BOOLEAN
    BY DEF Typed, TypeOK
  <1>1. pc = "caches" /\ cur \in Flushers /\ stack # << >> /\ stack \in Seq(Frames)
    BY DEF Caches, Typed, TypeOK, Running
  <1>2. /\ Top \in Frames /\ Top = stack[1] /\ Len(stack) \in Nat /\ Len(stack) >= 1
        /\ Tail(stack) \in Seq(Frames) /\ Len(Tail(stack)) = Len(stack) - 1
        /\ \A i \in 1 .. Len(stack) - 1 : Tail(stack)[i] = stack[i + 1]
        /\ (Tail(stack) = << >> <=> Len(stack) = 1)
    BY <1>1, PopIs DEF Top
  <1>3. Top.root \in BOOLEAN
    BY <1>2 DEF Frames
  <1>4. /\ shown' = shown \cup (IF Top.root /\ ~inTx THEN localSets[cur] ELSE {})
        /\ afterLocal' = afterLocal \cup (IF Top.root /\ inTx THEN localSets[cur] ELSE {})
    BY <1>0, <1>3 DEF Caches
  <1>5. ~inTx => /\ rf' = rf /\ afterRedis' = afterRedis /\ unsent' = unsent
                 /\ published' = published \cup (IF Top.root THEN Holds(rf[cur]) ELSE {})
                 /\ \A o \in Objects : queue'[o] = IF Top.root /\ o = rf[cur] THEN {} ELSE queue[o]
                 /\ queue' \in [Objects -> SUBSET Writes]
    <2> SUFFICES ASSUME ~inTx
                 PROVE  /\ rf' = rf /\ afterRedis' = afterRedis /\ unsent' = unsent
                        /\ published' = published \cup (IF Top.root THEN Holds(rf[cur]) ELSE {})
                        /\ \A o \in Objects : queue'[o] = IF Top.root /\ o = rf[cur] THEN {} ELSE queue[o]
                        /\ queue' \in [Objects -> SUBSET Writes]
      OBVIOUS
    <2>1. CASE rf[cur] # None /\ Top.root
      BY <1>0, <1>1, <2>1 DEF Caches, UpdateRedisCache, Holds
    <2>2. CASE ~Top.root
      BY <1>0, <1>1, <2>2 DEF Caches, UpdateRedisCache, Holds
    <2>3. CASE rf[cur] = None
      BY <1>0, <1>1, <2>3, ObjectsAssumption DEF Caches, UpdateRedisCache, Holds
    <2> QED
      BY <1>3, <2>1, <2>2, <2>3
  <1>6. UpdateRedisCache
    BY DEF Caches
  <1>7. /\ rf' \in [Flushers -> Objects \cup {None}] /\ queue' \in [Objects -> SUBSET Writes]
        /\ afterRedis' \in Objects \cup {None}
        /\ \A g \in Flushers \ {cur} : rf'[g] = rf[g]
        /\ published' \subseteq Writes /\ unsent' \subseteq Writes
    <2>1. CASE inTx
      <3>1. Holds(afterRedis) \subseteq Writes
        BY SurvivingIs
      <3>2. unsent' \subseteq unsent \cup Holds(afterRedis)
        BY <1>1, <1>6, <2>1, HandedOver DEF Holds
      <3> QED
        BY <1>0, <1>1, <1>6, <2>1, <3>1, <3>2, HandedOver
    <2>2. CASE ~inTx
      BY <1>0, <1>1, <1>5, <2>2, SurvivingIs
    <2> QED
      BY <1>0, <2>1, <2>2
  <1>8. /\ shown' \subseteq Writes /\ afterLocal' \subseteq Writes
    BY <1>0, <1>1, <1>4
  <1>9. kept' = [kept EXCEPT !.queue = @ \cup ((published' \ published) \cap Early)]
    BY DEF Caches, Early
  <1>10. /\ kept' \in [queue : SUBSET Writes, sets : SUBSET Writes]
         /\ kept'.queue = kept.queue \cup ((published' \ published) \cap Early)
         /\ kept'.sets = kept.sets
    BY <1>0, <1>7, <1>9
  <1>11. /\ stack' = Tail(stack)
         /\ pc' = IF stack' = << >> THEN "commit" ELSE "build"
         /\ left' = IF stack' = << >> /\ useTx THEN PoolsOf(tracked[cur]) ELSE {}
         /\ UNCHANGED <<state, built, tx, open, committed, tracked, updates, deletes, localSets, cur,
                        batch, inTx, useTx, flushes, changes, faults, torn, outer, overflowed>>
    BY DEF Caches, entityVars, poolVars, countVars
  <1>12. /\ stack' \in Seq(Frames) /\ Len(stack') = Len(stack) - 1
         /\ \A i \in 1 .. Len(stack') : stack'[i] = stack[i + 1]
         /\ (stack' = << >> <=> Len(stack) = 1)
    <2>1. stack' = Tail(stack)
      BY <1>11
    <2>2. 1 .. Len(stack') = 1 .. Len(stack) - 1
      BY <1>2, <2>1
    <2>3. stack' \in Seq(Frames) /\ Len(stack') = Len(stack) - 1
      BY <1>2, <2>1
    <2>5. stack' = << >> <=> Len(stack) = 1
      BY <1>2, <2>1
    <2>4. \A i \in 1 .. Len(stack) - 1 : stack'[i] = stack[i + 1]
      BY <1>2, <2>1, Zenon
    <2> QED
      BY <2>2, <2>3, <2>4, <2>5
  <1> QED
    BY <1>1, <1>2, <1>4, <1>5, <1>6, <1>7, <1>8, <1>10, <1>11, <1>12

\* What a panic leaves: Q are the pools that are rolled back.
LEMMA PanicIs ==
  ASSUME Typed, FlushPanics
  PROVE  /\ pc = "fail" /\ cur \in Flushers
         /\ pc' = "idle" /\ cur' = None /\ stack' = << >> /\ batch' = {} /\ left' = {}
         /\ tracked' \in [Flushers -> SUBSET Entities] /\ deletes' \in [Flushers -> SUBSET Entities]
         /\ updates' \in [Flushers -> SUBSET Writes] /\ localSets' \in [Flushers -> SUBSET Writes]
         /\ rf' \in [Flushers -> Objects \cup {None}]
         /\ \A f \in Flushers : rf'[f] \in {rf[f], None}
         /\ \A g \in Flushers \ {cur} : /\ tracked'[g] = tracked[g] /\ deletes'[g] = deletes[g]
                                        /\ updates'[g] = updates[g] /\ localSets'[g] = localSets[g]
                                        /\ rf'[g] = rf[g]
         /\ kept' \in [queue : SUBSET Writes, sets : SUBSET Writes]
         /\ kept'.queue = kept.queue \cup Surviving
         /\ \/ /\ updates'[cur] = {} /\ localSets'[cur] = {} /\ deletes'[cur] = {}
               /\ kept'.sets = kept.sets
            \/ /\ updates' = updates /\ localSets' = localSets /\ deletes' = deletes /\ tracked' = tracked
               /\ kept'.sets = kept.sets \cup (localSets[cur] \ committed)
         /\ torn' \subseteq 0 .. MaxFlushes
         /\ unsent' \subseteq Writes /\ afterLocal' \subseteq Writes /\ afterRedis' \in Objects \cup {None}
         /\ tx' \in [Pools -> {"none", "open", "broken"}] /\ open' \in [Pools -> SUBSET Writes]
         /\ \E Q \in SUBSET PoolsOf(tracked[cur]) :
              /\ (\A p \in PoolsOf(tracked[cur]) : tx[p] # "broken") => Q = PoolsOf(tracked[cur])
              /\ \A p \in Pools : /\ tx'[p] = IF p \in Q THEN "none" ELSE tx[p]
                                  /\ open'[p] = IF p \in Q THEN {} ELSE open[p]
              /\ unsent' = unsent \cup Holds(rf[cur]) \cup IF Q = {} THEN {} ELSE Holds(afterRedis)
              /\ IF Q = {} THEN UNCHANGED <<afterRedis, afterLocal>> ELSE afterRedis' = None /\ afterLocal' = {}
         /\ UNCHANGED <<state, built, committed, queue, published, shown, inTx, useTx,
                        flushes, changes, faults, outer, overflowed>>
  <1>0. /\ rf \in [Flushers -> Objects \cup {None}] /\ afterRedis \in Objects \cup {None}
        /\ tracked \in [Flushers -> SUBSET Entities] /\ deletes \in [Flushers -> SUBSET Entities]
        /\ updates \in [Flushers -> SUBSET Writes] /\ localSets \in [Flushers -> SUBSET Writes]
        /\ tx \in [Pools -> {"none", "open", "broken"}] /\ open \in [Pools -> SUBSET Writes]
        /\ unsent \subseteq Writes /\ torn \subseteq 0 .. MaxFlushes /\ afterLocal \subseteq Writes
        /\ kept \in [queue : SUBSET Writes, sets : SUBSET Writes]
    BY DEF Typed, TypeOK
  <1>1. pc = "fail" /\ cur \in Flushers
    BY DEF FlushPanics, Typed, TypeOK
  <1>2. /\ pc' = "idle" /\ cur' = None /\ stack' = << >> /\ batch' = {} /\ left' = {}
        /\ UNCHANGED <<state, built, committed, inTx, useTx, flushes, changes, faults, outer, overflowed>>
    BY DEF FlushPanics, entityVars, countVars
  <1>3. Surviving \subseteq Writes /\ Holds(rf[cur]) \subseteq Writes /\ Holds(afterRedis) \subseteq Writes
    BY <1>1, SurvivingIs
  <1>4. \/ Fresh(cur) /\ kept' = [kept EXCEPT !.queue = @ \cup Surviving]
        \/ Clear(cur) /\ kept' = [kept EXCEPT !.queue = @ \cup Surviving]
        \/ /\ UNCHANGED flusherVars
           /\ kept' = [queue |-> kept.queue \cup Surviving, sets |-> kept.sets \cup (localSets[cur] \ committed)]
    BY DEF FlushPanics
  <1>5. /\ tracked' \in [Flushers -> SUBSET Entities] /\ deletes' \in [Flushers -> SUBSET Entities]
        /\ updates' \in [Flushers -> SUBSET Writes] /\ localSets' \in [Flushers -> SUBSET Writes]
        /\ rf' \in [Flushers -> Objects \cup {None}]
        /\ \A f \in Flushers : rf'[f] \in {rf[f], None}
        /\ \A g \in Flushers \ {cur} : /\ tracked'[g] = tracked[g] /\ deletes'[g] = deletes[g]
                                       /\ updates'[g] = updates[g] /\ localSets'[g] = localSets[g]
                                       /\ rf'[g] = rf[g]
    BY <1>0, <1>1, <1>4 DEF Fresh, Clear, flusherVars
  <1>6. /\ kept' \in [queue : SUBSET Writes, sets : SUBSET Writes]
        /\ kept'.queue = kept.queue \cup Surviving
        /\ \/ /\ updates'[cur] = {} /\ localSets'[cur] = {} /\ deletes'[cur] = {}
              /\ kept'.sets = kept.sets
           \/ /\ updates' = updates /\ localSets' = localSets /\ deletes' = deletes /\ tracked' = tracked
              /\ kept'.sets = kept.sets \cup (localSets[cur] \ committed)
    <2>1. CASE Fresh(cur) /\ kept' = [kept EXCEPT !.queue = @ \cup Surviving]
      BY <1>0, <1>1, <1>3, <2>1 DEF Fresh
    <2>2. CASE Clear(cur) /\ kept' = [kept EXCEPT !.queue = @ \cup Surviving]
      BY <1>0, <1>1, <1>3, <2>2 DEF Clear
    <2>3. CASE /\ UNCHANGED flusherVars
               /\ kept' = [queue |-> kept.queue \cup Surviving, sets |-> kept.sets \cup (localSets[cur] \ committed)]
      BY <1>0, <1>1, <1>3, <2>3 DEF flusherVars
    <2> QED
      BY <1>4, <2>1, <2>2, <2>3
  <1>7. PICK Q \in SUBSET (PoolsOf(tracked[cur]) \ {p \in PoolsOf(tracked[cur]) : tx[p] = "broken"}) :
          /\ {p \in PoolsOf(tracked[cur]) : tx[p] = "broken"} = {} => Q = PoolsOf(tracked[cur])
          /\ Undone(Q)
          /\ torn' = torn \cup (IF Q = PoolsOf(tracked[cur]) THEN {} ELSE {flushes}) \cup {w.n : w \in updates'[cur]}
          /\ unsent' = unsent \cup Holds(rf[cur]) \cup IF Q = {} THEN {} ELSE Holds(afterRedis)
          /\ IF Q = {} THEN UNCHANGED engineVars ELSE LetGo
    BY DEF FlushPanics
  <1>8. /\ tx' \in [Pools -> {"none", "open", "broken"}] /\ open' \in [Pools -> SUBSET Writes]
        /\ \A p \in Pools : /\ tx'[p] = IF p \in Q THEN "none" ELSE tx[p]
                            /\ open'[p] = IF p \in Q THEN {} ELSE open[p]
    BY <1>0, <1>7 DEF Undone
  <1>9. /\ unsent' \subseteq Writes
        /\ IF Q = {} THEN UNCHANGED <<afterRedis, afterLocal>> ELSE afterRedis' = None /\ afterLocal' = {}
        /\ UNCHANGED <<queue, published, shown>>
    BY <1>0, <1>3, <1>7 DEF LetGo, engineVars
  <1>10. torn' \subseteq 0 .. MaxFlushes
    <2>1. flushes \in 0 .. MaxFlushes /\ MaxFlushes \in Nat
      BY SetupIs DEF Typed, TypeOK
    <2>2. \A w \in Writes : w.n \in 1 .. MaxFlushes
      BY DEF Writes
    <2>3. {w.n : w \in updates'[cur]} \subseteq 1 .. MaxFlushes
      BY <1>1, <1>5, <2>2
    <2>4. {w.n : w \in updates'[cur]} \subseteq 0 .. MaxFlushes
      BY <2>1, <2>3
    <2>5. torn' \subseteq torn \cup {flushes} \cup {w.n : w \in updates'[cur]}
      BY <1>7
    <2> QED
      BY <1>0, <2>1, <2>4, <2>5
  <1>11. afterLocal' \subseteq Writes /\ afterRedis' \in Objects \cup {None}
    BY <1>0, <1>9
  <1>12. (\A p \in PoolsOf(tracked[cur]) : tx[p] # "broken") => Q = PoolsOf(tracked[cur])
    BY <1>7
  <1>13. \E R \in SUBSET PoolsOf(tracked[cur]) :
              /\ (\A p \in PoolsOf(tracked[cur]) : tx[p] # "broken") => R = PoolsOf(tracked[cur])
              /\ \A p \in Pools : /\ tx'[p] = IF p \in R THEN "none" ELSE tx[p]
                                  /\ open'[p] = IF p \in R THEN {} ELSE open[p]
              /\ unsent' = unsent \cup Holds(rf[cur]) \cup IF R = {} THEN {} ELSE Holds(afterRedis)
              /\ IF R = {} THEN UNCHANGED <<afterRedis, afterLocal>> ELSE afterRedis' = None /\ afterLocal' = {}
    BY <1>7, <1>8, <1>9, <1>12
  <1> QED
    BY <1>1, <1>2, <1>5, <1>6, <1>8, <1>9, <1>10, <1>11, <1>13

\* What is left when the process has died.
LEMMA OverflowIs ==
  ASSUME Typed, Overflow
  PROVE  /\ pc = "build" /\ pc' = "idle" /\ cur' = None /\ stack' = << >>
         /\ state' \in [Entities -> {"new", "clean", "dirty", "delete"}]
         /\ tx' = [p \in Pools |-> "none"] /\ open' = [p \in Pools |-> {}]
         /\ tracked' = [f \in Flushers |-> {}] /\ deletes' = tracked'
         /\ updates' = tracked' /\ localSets' = tracked' /\ rf' = [f \in Flushers |-> None]
         /\ afterRedis' = None /\ afterLocal' = {} /\ overflowed' = TRUE
         /\ unsent' = unsent \cup committed /\ unsent' \subseteq Writes
         /\ UNCHANGED <<built, committed, queue, published, shown, batch, left, inTx, useTx,
                        flushes, changes, faults, kept, torn, outer>>
  <1>1. tx' = [p \in Pools |-> "none"] /\ open' = [p \in Pools |-> {}]
    BY DEF Overflow, Undone
  <1>2. state' \in [Entities -> {"new", "clean", "dirty", "delete"}]
    BY DEF Overflow
  <1>3. unsent' = unsent \cup committed /\ unsent' \subseteq Writes
    BY DEF Overflow, Typed, TypeOK
  <1> QED
    BY <1>1, <1>2, <1>3 DEF Overflow, countVars

LEMMA TypedNext == Typed /\ [Next]_vars => Typed'
  <1> SUFFICES ASSUME Typed, [Next]_vars PROVE Typed'
    OBVIOUS
  <1> USE DEF entityVars, poolVars, flusherVars, engineVars, callVars, countVars, whyVars, Running
  <1>0. /\ TypeOf \in [Entities -> Types] /\ PoolOf \in [Types -> Pools]
        /\ setup.entities \subseteq Entities /\ setup.flushers \subseteq Flushers
        /\ Refs \in [Entities -> SUBSET Entities] /\ OneShot \in BOOLEAN
        /\ MaxFlushes \in Nat /\ MaxChanges \in Nat /\ MaxFaults \in Nat
        /\ \A x \in Entities : Pool(x) \in Pools
        /\ UsedPools \subseteq Pools
    BY SetupIs, BoundsAssumption DEF Typed, TypeOK, UsedPools
  <1>1. CASE Next
    <2>0. setup' = setup /\ MaxFlushes' = MaxFlushes /\ MaxChanges' = MaxChanges /\ Writes' = Writes
      BY <1>1 DEF Next, MaxFlushes, MaxChanges, Writes
    <2>1. ASSUME NEW x \in Entities, Change(x) PROVE Typed'
      BY <1>0, <2>0, <2>1 DEF Change, Typed, TypeOK
    <2>2. ASSUME NEW x \in Entities, Upsert(x) PROVE Typed'
      <3>1. pc = "build" /\ cur \in Flushers
        BY <2>2 DEF Upsert, Typed, TypeOK
      <3>2. Pool(x) \in Pools /\ Write(x, "I") \in Writes
        BY <1>0, <3>1, WriteIs
      <3>3. CASE UNCHANGED faults /\ pc' = pc /\ Queued(cur, {Write(x, "I")})
                 /\ Executed(Pool(x), {Write(x, "I")})
                 /\ built' = built \cup {Write(x, "I")} /\ state' = [state EXCEPT ![x] = "clean"]
        <4>1. {Write(x, "I")} \in SUBSET Writes
          BY <3>2
        <4>2. /\ rf' \in [Flushers -> Objects \cup {None}] /\ queue' \in [Objects -> SUBSET Writes]
              /\ localSets' \in [Flushers -> SUBSET Writes]
          BY <3>1, <3>3, <4>1, QueuedIs DEF Enqueued
        <4>3. tx' = tx /\ open' \in [Pools -> SUBSET Writes] /\ committed' \subseteq Writes
          BY <3>2, <3>3, <4>1, ExecutedIs
        <4> QED
          BY <1>0, <2>0, <2>2, <3>1, <3>2, <3>3, <4>2, <4>3 DEF Upsert, Typed, TypeOK
      <3>4. CASE Fails(Pool(x)) /\ pc' = "fail" /\ UNCHANGED <<built, state, poolVars, localSets, rf, queue>>
        BY <1>0, <2>0, <2>2, <3>1, <3>4 DEF Upsert, Fails, Typed, TypeOK
      <3> QED
        BY <2>2, <3>3, <3>4 DEF Upsert
    <2>3. ASSUME NEW f \in Flushers, NewFlusher(f) PROVE Typed'
      BY <1>0, <2>0, <2>3 DEF NewFlusher, Fresh, Typed, TypeOK
    <2>4. ASSUME NEW f \in Flushers, NEW X \in SUBSET Entities, Flush(f, X) PROVE Typed'
      <3>1. tracked' \in [Flushers -> SUBSET Entities]
        BY <2>4 DEF Flush, Typed, TypeOK
      <3>2. Frame(0, TRUE, FALSE, tracked'[f]) \in Frames
        BY <3>1 DEF Frame, Frames
      <3>3. stack' \in Seq(Frames)
        <4> DEFINE fr == Frame(0, TRUE, FALSE, tracked'[f])
        <4>1. stack' = <<fr>>
          BY <2>4 DEF Flush
        <4>2. fr \in Frames
          BY <3>2
        <4> HIDE DEF fr
        <4> QED
          BY <4>1, <4>2
      <3>6. stack' # << >>
        BY <2>4 DEF Flush
      <3>4. flushes' \in 0 .. MaxFlushes /\ flushes' > 0
        BY <1>0, <2>4 DEF Flush, Typed, TypeOK
      <3>5. cur' = f /\ f # None
        BY <2>4, ObjectsAssumption DEF Flush
      <3> QED
        BY <1>0, <2>0, <2>4, <3>1, <3>3, <3>4, <3>5, <3>6 DEF Flush, Typed, TypeOK
    <2>5. ASSUME NEW p \in Pools, Begin(p) PROVE Typed'
      BY <1>0, <2>0, <2>5 DEF Begin, Begun, Typed, TypeOK
    <2>6. ASSUME NEW p \in Pools, Commit(p) PROVE Typed'
      BY <1>0, <2>0, <2>6, CommittedIs DEF Commit, Typed, TypeOK
    <2>7. ASSUME NEW p \in Pools, Rollback(p) PROVE Typed'
      <3>1. tx' \in [Pools -> {"none", "open", "broken"}] /\ open' \in [Pools -> SUBSET Writes]
        BY <2>7 DEF Rollback, Undone, Typed, TypeOK
      <3>2. kept' \in [queue : SUBSET Writes, sets : SUBSET Writes]
        BY <2>7, SurvivingIs DEF Rollback, Typed
      <3>3. unsent' \subseteq Writes
        BY <2>7, SurvivingIs DEF Rollback, Typed, TypeOK
      <3> QED
        BY <1>0, <2>0, <2>7, <3>1, <3>2, <3>3 DEF Rollback, LetGo, Typed, TypeOK
    <2>8. ASSUME NEW p \in Pools, CommitFails(p) PROVE Typed'
      BY <1>0, <2>0, <2>8 DEF CommitFails, CommitError, Typed, TypeOK
    <2>9. ASSUME NEW p \in Pools, Update(p) PROVE Typed'
      <3> DEFINE W == {w \in updates[cur] : Pool(w.x) = p}
      <3>1. pc = "update" /\ cur \in Flushers
        BY <2>9 DEF Update, Typed, TypeOK
      <3>2. W \in SUBSET Writes
        BY <3>1 DEF Typed, TypeOK
      <3> HIDE DEF W
      <3>3. CASE Executed(p, W) /\ UNCHANGED <<pc, faults>>
        BY <1>0, <2>0, <2>9, <3>1, <3>2, <3>3, ExecutedIs DEF Update, Typed, TypeOK
      <3>4. CASE Fails(p) /\ pc' = "fail" /\ UNCHANGED poolVars
        BY <1>0, <2>0, <2>9, <3>1, <3>4 DEF Update, Fails, Typed, TypeOK
      <3>5. ASSUME NEW S \in SUBSET W, Executed(p, S), Fails(p), pc' = "fail" PROVE Typed'
        <4>1. S \in SUBSET Writes
          BY <3>2, <3>5
        <4>2. tx' = tx /\ open' \in [Pools -> SUBSET Writes] /\ committed' \subseteq Writes
          BY <3>5, <4>1, ExecutedIs
        <4> QED
          BY <1>0, <2>0, <2>9, <3>1, <3>5, <4>2 DEF Update, Fails, Typed, TypeOK
      <3> QED
        BY <2>9, <3>3, <3>4, <3>5 DEF Update, W
    <2>10. ASSUME NEW p \in Pools, FlushCommit(p) PROVE Typed'
      <3>1. pc = "commit" /\ cur \in Flushers
        BY <2>10 DEF FlushCommit, Typed, TypeOK
      <3>2. CASE Committed(p) /\ UNCHANGED <<pc, faults>>
        BY <1>0, <2>0, <2>10, <3>1, <3>2, CommittedIs DEF FlushCommit, Typed, TypeOK
      <3>3. CASE CommitError(p) /\ pc' = "fail" /\ UNCHANGED <<committed, engineVars>>
        BY <1>0, <2>0, <2>10, <3>1, <3>3 DEF FlushCommit, CommitError, Typed, TypeOK
      <3>4. CASE pc' = "fail" /\ UNCHANGED <<poolVars, engineVars, faults, kept>>
        BY <1>0, <2>0, <2>10, <3>1, <3>4 DEF FlushCommit, Typed, TypeOK
      <3> QED
        BY <2>10, <3>2, <3>3, <3>4 DEF FlushCommit
    <2>11. ASSUME NEW t \in Types, Insert(t) PROVE Typed'
      <3> DEFINE X == {x \in batch : TypeOf[x] = t}
                 W == {Write(x, "I") : x \in X}
      <3>1. pc = "insert" /\ cur \in Flushers
        BY <2>11 DEF Insert, Typed, TypeOK
      <3>2. X \subseteq Entities /\ PoolOf[t] \in Pools
        BY <1>0 DEF Typed, TypeOK
      <3>3. W \in SUBSET Writes
        BY <3>1, <3>2, WriteIs
      <3> HIDE DEF W
      <3>4. CASE /\ built' = built \cup W
                 /\ state' = [x \in Entities |-> IF x \in X THEN "clean" ELSE state[x]]
                 /\ Executed(PoolOf[t], W) /\ Queued(cur, W) /\ UNCHANGED <<pc, faults>>
        <4>1. /\ rf' \in [Flushers -> Objects \cup {None}] /\ queue' \in [Objects -> SUBSET Writes]
              /\ localSets' \in [Flushers -> SUBSET Writes]
          BY <3>1, <3>3, <3>4, QueuedIs DEF Enqueued
        <4>2. tx' = tx /\ open' \in [Pools -> SUBSET Writes] /\ committed' \subseteq Writes
          BY <3>2, <3>3, <3>4, ExecutedIs
        <4>3. state' \in [Entities -> {"new", "clean", "dirty", "delete"}]
          BY <3>4 DEF Typed, TypeOK
        <4> HIDE DEF X
        <4> QED
          BY <1>0, <2>0, <2>11, <3>1, <3>3, <3>4, <4>1, <4>2, <4>3 DEF Insert, Typed, TypeOK
      <3>5. CASE Fails(PoolOf[t]) /\ pc' = "fail" /\ UNCHANGED <<built, state, poolVars, localSets, rf, queue>>
        BY <1>0, <2>0, <2>11, <3>1, <3>5 DEF Insert, Fails, Typed, TypeOK
      <3> QED
        BY <2>11, <3>4, <3>5 DEF Insert, W
    <2>12. ASSUME NEW t \in Types, Delete(t) PROVE Typed'
      <3> DEFINE W == {Write(x, "D") : x \in {y \in deletes[cur] : TypeOf[y] = t}}
      <3>1. pc = "delete" /\ cur \in Flushers
        BY <2>12 DEF Delete, Typed, TypeOK
      <3>2. {y \in deletes[cur] : TypeOf[y] = t} \subseteq Entities /\ PoolOf[t] \in Pools
        BY <1>0, <3>1 DEF Typed, TypeOK
      <3>3. W \in SUBSET Writes
        BY <3>1, <3>2, WriteIs
      <3> HIDE DEF W
      <3>4. CASE built' = built \cup W /\ Executed(PoolOf[t], W) /\ Queued(cur, W) /\ UNCHANGED <<pc, faults>>
        <4>1. /\ rf' \in [Flushers -> Objects \cup {None}] /\ queue' \in [Objects -> SUBSET Writes]
              /\ localSets' \in [Flushers -> SUBSET Writes]
          BY <3>1, <3>3, <3>4, QueuedIs DEF Enqueued
        <4>2. tx' = tx /\ open' \in [Pools -> SUBSET Writes] /\ committed' \subseteq Writes
          BY <3>2, <3>3, <3>4, ExecutedIs
        <4> QED
          BY <1>0, <2>0, <2>12, <3>1, <3>3, <3>4, <4>1, <4>2 DEF Delete, Typed, TypeOK
      <3>5. CASE Fails(PoolOf[t]) /\ pc' = "fail" /\ UNCHANGED <<built, poolVars, localSets, rf, queue>>
        BY <1>0, <2>0, <2>12, <3>1, <3>5 DEF Delete, Fails, Typed, TypeOK
      <3> QED
        BY <2>12, <3>4, <3>5 DEF Delete, W
    <2>13. CASE Build
      <3>1. /\ rf' \in [Flushers -> Objects \cup {None}] /\ queue' \in [Objects -> SUBSET Writes]
            /\ localSets' \in [Flushers -> SUBSET Writes]
        BY <2>13, BuildIs, QueuedIs DEF Enqueued
      <3>2. /\ pc' \in {"build", "insert", "fail"} /\ batch' \subseteq Entities /\ inTx' \in BOOLEAN
        BY <2>13, BuildIs DEF Refused, Split, Collects, Typed, TypeOK, Inside, Frames
      <3>3. torn' \subseteq 0 .. MaxFlushes
        <4>1. torn' \subseteq torn \cup {flushes}
          BY <2>13, BuildIs DEF Refused, Split, Collects
        <4> QED
          BY <4>1 DEF Typed, TypeOK
      <3>4. stack' \in Seq(Frames) /\ stack' # << >>
        <4>1. CASE Refused \/ Collects
          BY <2>13, <4>1, BuildIs DEF Refused, Collects, Typed
        <4>2. CASE Split
          BY <2>13, <4>2, PushedIs
        <4> QED
          BY <2>13, <4>1, <4>2, BuildIs
      <3>5. built' \subseteq Writes
        BY <2>13, BuildIs DEF Typed, TypeOK
      <3>6. /\ state' \in [Entities -> {"new", "clean", "dirty", "delete"}]
            /\ updates' \in [Flushers -> SUBSET Writes] /\ deletes' \in [Flushers -> SUBSET Entities]
            /\ tx' \in [Pools -> {"none", "open", "broken"}] /\ useTx' \in BOOLEAN
            /\ pc = "build"
            /\ UNCHANGED <<open, committed, tracked, afterRedis, afterLocal, published, shown,
                           cur, flushes, changes, faults, kept, unsent, outer, overflowed>>
        BY <2>13, BuildIs
      <3>7. cur # None /\ flushes > 0
        BY <3>6 DEF Typed, TypeOK
      <3> QED
        BY <1>0, <2>0, <3>1, <3>2, <3>3, <3>4, <3>5, <3>6, <3>7 DEF Typed, TypeOK
    <2>14. CASE Inserted
      BY <1>0, <2>0, <2>14 DEF Inserted, Typed, TypeOK
    <2>15. CASE Updated
      BY <1>0, <2>0, <2>15 DEF Updated, Typed, TypeOK
    <2>16. CASE Deleted
      BY <1>0, <2>0, <2>16 DEF Deleted, Typed, TypeOK
    <2>17. CASE Caches
      <3>1. /\ rf' \in [Flushers -> Objects \cup {None}] /\ queue' \in [Objects -> SUBSET Writes]
            /\ afterRedis' \in Objects \cup {None}
            /\ published' \subseteq Writes /\ shown' \subseteq Writes /\ afterLocal' \subseteq Writes
            /\ unsent' \subseteq Writes
            /\ kept' \in [queue : SUBSET Writes, sets : SUBSET Writes]
            /\ stack' \in Seq(Frames) /\ pc' = IF stack' = << >> THEN "commit" ELSE "build"
            /\ UNCHANGED <<state, built, tx, open, committed, tracked, updates, deletes, localSets, cur,
                           batch, inTx, useTx, flushes, changes, faults, torn, outer, overflowed>>
        BY <2>17, CachesIs
      <3>2. cur # None /\ flushes > 0 /\ pc = "caches"
        BY <2>17, CachesIs DEF Typed, TypeOK
      <3> QED
        BY <1>0, <2>0, <3>1, <3>2 DEF Typed, TypeOK
    <2>18. CASE Return
      BY <1>0, <2>0, <2>18 DEF Return, Fresh, Typed, TypeOK
    <2>19. CASE FlushPanics
      <3>1. /\ pc' = "idle" /\ cur' = None /\ stack' = << >> /\ batch' = {}
            /\ tracked' \in [Flushers -> SUBSET Entities] /\ deletes' \in [Flushers -> SUBSET Entities]
            /\ updates' \in [Flushers -> SUBSET Writes] /\ localSets' \in [Flushers -> SUBSET Writes]
            /\ rf' \in [Flushers -> Objects \cup {None}]
            /\ kept' \in [queue : SUBSET Writes, sets : SUBSET Writes]
            /\ torn' \subseteq 0 .. MaxFlushes
            /\ unsent' \subseteq Writes /\ afterLocal' \subseteq Writes /\ afterRedis' \in Objects \cup {None}
            /\ tx' \in [Pools -> {"none", "open", "broken"}] /\ open' \in [Pools -> SUBSET Writes]
            /\ UNCHANGED <<state, built, committed, queue, published, shown, inTx, useTx,
                           flushes, changes, faults, outer, overflowed>>
        BY <2>19, PanicIs
      <3>2. stack' \in Seq(Frames)
        BY <3>1, EmptySeq
      <3> QED
        BY <1>0, <2>0, <3>1, <3>2 DEF Typed, TypeOK
    <2>20. CASE Overflow
      <3>1. stack' \in Seq(Frames)
        BY <2>20, OverflowIs, EmptySeq
      <3>2. /\ tracked' \in [Flushers -> SUBSET Entities] /\ deletes' \in [Flushers -> SUBSET Entities]
            /\ updates' \in [Flushers -> SUBSET Writes] /\ localSets' \in [Flushers -> SUBSET Writes]
            /\ rf' \in [Flushers -> Objects \cup {None}]
            /\ tx' \in [Pools -> {"none", "open", "broken"}] /\ open' \in [Pools -> SUBSET Writes]
        BY <2>20, OverflowIs
      <3>3. /\ pc' = "idle" /\ cur' = None
            /\ state' \in [Entities -> {"new", "clean", "dirty", "delete"}]
            /\ afterRedis' = None /\ afterLocal' = {} /\ overflowed' = TRUE /\ unsent' \subseteq Writes
            /\ UNCHANGED <<built, committed, queue, published, shown, batch, inTx, useTx,
                           flushes, changes, faults, kept, torn, outer>>
        BY <2>20, OverflowIs
      <3> QED
        BY <1>0, <2>0, <3>1, <3>2, <3>3 DEF Typed, TypeOK
    <2> QED
      BY <1>0, <1>1, <2>1, <2>2, <2>3, <2>4, <2>5, <2>6, <2>7, <2>8, <2>9, <2>10, <2>11, <2>12,
         <2>13, <2>14, <2>15, <2>16, <2>17, <2>18, <2>19, <2>20 DEF Next, Step
  <1>2. CASE UNCHANGED vars
    <2>1. MaxFlushes' = MaxFlushes /\ MaxChanges' = MaxChanges /\ Writes' = Writes
      BY <1>2 DEF vars, MaxFlushes, MaxChanges, Writes
    <2> QED
      BY <1>2, <2>1 DEF vars, Typed, TypeOK
  <1> QED
    BY <1>1, <1>2

THEOREM TypedAlways == Spec => []Typed
  <1>1. Init => Typed
    BY TypedInit
  <1>2. Typed /\ [Next]_vars => Typed'
    BY TypedNext
  <1> QED
    BY <1>1, <1>2, PTL DEF Spec

-----------------------------------------------------------------------------
(* The statements of flush have a form in common.                          *)

\* The new writes V carry the number of the flush; an insert leaves the entities of
\* its type saved.
Written(p, W, V) ==
    /\ built' = built \cup V /\ \A w \in V : w.n = flushes
    /\ tx[p] = "broken" => W = {}
    /\ pc = "build" => \A w \in V : w.op = "I" /\ w.x \in Upserts
    /\ pc \in {"insert", "delete"} =>
          \E t \in left : /\ left' = left \ {t}
                          /\ pc' = "insert" => \A x \in batch : TypeOf[x] = t => state'[x] = "clean"
    /\ pc = "update" => V = {}
    /\ pc' = "build" => left' = left
    /\ UNCHANGED <<torn, flushes, overflowed>>

\* MySQL takes the writes W of pool p; V of them are new and queued, the others are
\* updates that the flusher has.
Statement(p, W, V) ==
    /\ Written(p, W, V)
    /\ W \subseteq Writes /\ V \subseteq W /\ W \subseteq V \cup updates[cur]
    /\ \A w \in W : Pool(w.x) = p
    /\ pc \in Running /\ pc' \in {pc, "fail"} /\ cur \in Flushers
    /\ tx' = tx /\ open' \in [Pools -> SUBSET Writes] /\ committed' \subseteq Writes
    /\ \A q \in Pools \ {p} : open'[q] = open[q]
    /\ IF tx[p] = "open" THEN open'[p] = open[p] \cup W /\ committed' = committed
                         ELSE open' = open /\ committed' = committed \cup W
    /\ Enqueued(cur, V)
    /\ \A w \in V : w.x \in Top.ents \cup deletes[cur] \cup (IF pc = "insert" THEN batch ELSE {})
    /\ \A x \in Entities : state'[x] \in {state[x], "clean"}
    /\ pc' = "update" => left' = left \ {p} /\ \A w \in updates[cur] : Pool(w.x) = p => w \in W
    /\ pc # "caches"
    /\ UNCHANGED <<setup, tracked, updates, deletes, afterRedis, afterLocal, published, shown, cur,
                   stack, batch, inTx, useTx, kept, unsent, outer>>

LEMMA NothingExecuted ==
  ASSUME Typed, NEW p \in Pools, UNCHANGED poolVars
  PROVE  /\ tx' = tx /\ open' \in [Pools -> SUBSET Writes] /\ committed' \subseteq Writes
         /\ \A q \in Pools \ {p} : open'[q] = open[q]
         /\ IF tx[p] = "open" THEN open'[p] = open[p] \cup {} /\ committed' = committed
                              ELSE open' = open /\ committed' = committed \cup {}
  BY DEF poolVars, Typed, TypeOK

LEMMA NothingEnqueued ==
  ASSUME Typed, cur \in Flushers, UNCHANGED <<localSets, rf, queue>>
  PROVE  Enqueued(cur, {})
  BY DEF Enqueued, Typed, TypeOK

\* The action is one of the statements.
Executes == \/ \E x \in Entities : Upsert(x)
            \/ \E t \in Types : Insert(t) \/ Delete(t)
            \/ \E p \in Pools : Update(p)

LEMMA StatementIs ==
  ASSUME Typed, Executes, setup' = setup
  PROVE  \E p \in Pools, W, V \in SUBSET Writes : Statement(p, W, V)
  <1> USE DEF entityVars, poolVars, flusherVars, engineVars, Running
  <1>0. /\ PoolOf \in [Types -> Pools] /\ TypeOf \in [Entities -> Types]
        /\ \A x \in Entities : Pool(x) \in Pools
    BY SetupIs DEF Typed, TypeOK
  <1>1. ASSUME NEW x \in Entities, Upsert(x)
        PROVE  \E p \in Pools, W, V \in SUBSET Writes : Statement(p, W, V)
    <2>1. pc = "build" /\ cur \in Flushers /\ x \in Top.ents /\ Pool(x) \in Pools
      BY <1>0, <1>1 DEF Upsert, Ready, Typed, TypeOK
    <2>2. Write(x, "I") \in Writes /\ Write(x, "I").x = x
      BY <2>1, WriteIs
    <2>3. /\ \A y \in Entities : state'[y] \in {state[y], "clean"}
          /\ pc' \in {pc, "fail"}
          /\ UNCHANGED <<setup, tracked, updates, deletes, afterRedis, afterLocal, published, shown, cur,
                         stack, batch, inTx, useTx, kept, unsent, outer>>
      BY <1>1 DEF Upsert, Typed, TypeOK
    <2>6. pc = "build" /\ x \in Upserts /\ left' = left /\ UNCHANGED <<torn, flushes, overflowed>>
      BY <1>1 DEF Upsert
    <2>4. CASE /\ Executed(Pool(x), {Write(x, "I")}) /\ Queued(cur, {Write(x, "I")})
               /\ tx[Pool(x)] # "broken" /\ built' = built \cup {Write(x, "I")}
      <3> DEFINE W == {Write(x, "I")}
      <3>1. W \in SUBSET Writes /\ \A w \in W : w.x = x
        BY <2>2
      <3>6. Written(Pool(x), W, W)
        BY <2>4, <2>6, <3>1 DEF Written, Write
      <3> HIDE DEF W
      <3>2. Executed(Pool(x), W) /\ Queued(cur, W)
        BY <2>4 DEF W
      <3>3. Enqueued(cur, W)
        BY <2>1, <3>1, <3>2, QueuedIs
      <3>4. /\ tx' = tx /\ open' \in [Pools -> SUBSET Writes] /\ committed' \subseteq Writes
            /\ \A q \in Pools \ {Pool(x)} : open'[q] = open[q]
            /\ IF tx[Pool(x)] = "open" THEN open'[Pool(x)] = open[Pool(x)] \cup W /\ committed' = committed
                                       ELSE open' = open /\ committed' = committed \cup W
        BY <2>1, <3>1, <3>2, ExecutedIs
      <3>5. Statement(Pool(x), W, W)
        BY <2>1, <2>3, <3>1, <3>3, <3>4, <3>6 DEF Statement
      <3> QED
        BY <2>1, <3>1, <3>5
    <2>5. CASE UNCHANGED <<built, poolVars, localSets, rf, queue>>
      <3>2. Written(Pool(x), {}, {})
        BY <2>5, <2>6 DEF Written
      <3>1. Statement(Pool(x), {}, {})
        BY <2>1, <2>3, <2>5, <3>2, NothingExecuted, NothingEnqueued DEF Statement
      <3> QED
        BY <2>1, <3>1
    <2> QED
      BY <1>1, <2>4, <2>5 DEF Upsert
  <1>2. ASSUME NEW t \in Types, Insert(t)
        PROVE  \E p \in Pools, W, V \in SUBSET Writes : Statement(p, W, V)
    <2> DEFINE X == {x \in batch : TypeOf[x] = t}
               W == {Write(x, "I") : x \in X}
               p == PoolOf[t]
    <2>1. pc = "insert" /\ cur \in Flushers /\ p \in Pools /\ X \subseteq Entities
      BY <1>0, <1>2 DEF Insert, Typed, TypeOK
    <2>2. W \in SUBSET Writes /\ \A w \in W : w.x \in batch /\ TypeOf[w.x] = t
      BY <2>1, WriteIs
    <2>3. \A w \in W : Pool(w.x) = p
      BY <2>2 DEF Pool
    <2>4. \A y \in Entities : state'[y] \in {state[y], "clean"}
      BY <1>2 DEF Insert, Typed, TypeOK
    <2>5. /\ pc' \in {pc, "fail"}
          /\ UNCHANGED <<setup, tracked, updates, deletes, afterRedis, afterLocal, published, shown, cur,
                         stack, batch, inTx, useTx, kept, unsent, outer>>
      BY <1>2 DEF Insert
    <2>6. \/ /\ Executed(p, W) /\ Queued(cur, W) /\ built' = built \cup W /\ tx[p] # "broken"
             /\ \A x \in batch : TypeOf[x] = t => state'[x] = "clean"
          \/ UNCHANGED <<built, poolVars, localSets, rf, queue>> /\ pc' = "fail"
      BY <1>2 DEF Insert, Typed, TypeOK
    <2>9. t \in left /\ left' = left \ {t} /\ UNCHANGED <<torn, flushes, overflowed>>
      BY <1>2 DEF Insert
    <2>10. \A w \in W : w.n = flushes
      BY DEF Write
    <2> HIDE DEF X, W, p
    <2>7. CASE /\ Executed(p, W) /\ Queued(cur, W) /\ built' = built \cup W /\ tx[p] # "broken"
               /\ \A x \in batch : TypeOf[x] = t => state'[x] = "clean"
      <3>4. Written(p, W, W)
        BY <2>1, <2>5, <2>7, <2>9, <2>10 DEF Written
      <3>1. Enqueued(cur, W)
        BY <2>1, <2>2, <2>7, QueuedIs
      <3>2. /\ tx' = tx /\ open' \in [Pools -> SUBSET Writes] /\ committed' \subseteq Writes
            /\ \A q \in Pools \ {p} : open'[q] = open[q]
            /\ IF tx[p] = "open" THEN open'[p] = open[p] \cup W /\ committed' = committed
                                 ELSE open' = open /\ committed' = committed \cup W
        BY <2>1, <2>2, <2>7, ExecutedIs
      <3>3. Statement(p, W, W)
        BY <2>1, <2>2, <2>3, <2>4, <2>5, <3>1, <3>2, <3>4 DEF Statement
      <3> QED
        BY <2>1, <2>2, <3>3
    <2>8. CASE UNCHANGED <<built, poolVars, localSets, rf, queue>> /\ pc' = "fail"
      <3>2. Written(p, {}, {})
        BY <2>1, <2>8, <2>9 DEF Written
      <3>1. Statement(p, {}, {})
        BY <2>1, <2>4, <2>5, <2>8, <3>2, NothingExecuted, NothingEnqueued DEF Statement
      <3> QED
        BY <2>1, <3>1
    <2> QED
      BY <2>6, <2>7, <2>8
  <1>3. ASSUME NEW t \in Types, Delete(t)
        PROVE  \E p \in Pools, W, V \in SUBSET Writes : Statement(p, W, V)
    <2> DEFINE X == {y \in deletes[cur] : TypeOf[y] = t}
               W == {Write(x, "D") : x \in X}
               p == PoolOf[t]
    <2>1. pc = "delete" /\ cur \in Flushers /\ p \in Pools /\ X \subseteq Entities
      BY <1>0, <1>3 DEF Delete, Typed, TypeOK
    <2>2. W \in SUBSET Writes /\ \A w \in W : w.x \in deletes[cur] /\ TypeOf[w.x] = t
      BY <2>1, WriteIs
    <2>3. \A w \in W : Pool(w.x) = p
      BY <2>2 DEF Pool
    <2>5. /\ pc' \in {pc, "fail"} /\ state' = state
          /\ UNCHANGED <<setup, tracked, updates, deletes, afterRedis, afterLocal, published, shown, cur,
                         stack, batch, inTx, useTx, kept, unsent, outer>>
      BY <1>3 DEF Delete
    <2>6. \/ Executed(p, W) /\ Queued(cur, W) /\ built' = built \cup W /\ tx[p] # "broken"
          \/ UNCHANGED <<built, poolVars, localSets, rf, queue>>
      BY <1>3 DEF Delete
    <2>9. t \in left /\ left' = left \ {t} /\ UNCHANGED <<torn, flushes, overflowed>>
      BY <1>3 DEF Delete
    <2>10. \A w \in W : w.n = flushes
      BY DEF Write
    <2> HIDE DEF X, W, p
    <2>7. CASE Executed(p, W) /\ Queued(cur, W) /\ built' = built \cup W /\ tx[p] # "broken"
      <3>4. Written(p, W, W)
        BY <2>1, <2>5, <2>7, <2>9, <2>10 DEF Written
      <3>1. Enqueued(cur, W)
        BY <2>1, <2>2, <2>7, QueuedIs
      <3>2. /\ tx' = tx /\ open' \in [Pools -> SUBSET Writes] /\ committed' \subseteq Writes
            /\ \A q \in Pools \ {p} : open'[q] = open[q]
            /\ IF tx[p] = "open" THEN open'[p] = open[p] \cup W /\ committed' = committed
                                 ELSE open' = open /\ committed' = committed \cup W
        BY <2>1, <2>2, <2>7, ExecutedIs
      <3>3. Statement(p, W, W)
        BY <2>1, <2>2, <2>3, <2>5, <3>1, <3>2, <3>4 DEF Statement
      <3> QED
        BY <2>1, <2>2, <3>3
    <2>8. CASE UNCHANGED <<built, poolVars, localSets, rf, queue>>
      <3>2. Written(p, {}, {})
        BY <2>1, <2>5, <2>8, <2>9 DEF Written
      <3>1. Statement(p, {}, {})
        BY <2>1, <2>5, <2>8, <3>2, NothingExecuted, NothingEnqueued DEF Statement
      <3> QED
        BY <2>1, <3>1
    <2> QED
      BY <2>6, <2>7, <2>8
  <1>4. ASSUME NEW p \in Pools, Update(p)
        PROVE  \E q \in Pools, W, V \in SUBSET Writes : Statement(q, W, V)
    <2> DEFINE U == {w \in updates[cur] : Pool(w.x) = p}
    <2>1. pc = "update" /\ cur \in Flushers
      BY <1>4 DEF Update, Typed, TypeOK
    <2>2. U \in SUBSET Writes /\ U \subseteq updates[cur] /\ \A w \in U : Pool(w.x) = p
      BY <2>1 DEF Typed, TypeOK
    <2>3. /\ pc' \in {pc, "fail"} /\ state' = state
          /\ UNCHANGED <<setup, tracked, updates, deletes, afterRedis, afterLocal, published, shown, cur,
                         stack, batch, inTx, useTx, kept, unsent, outer, localSets, rf, queue>>
      BY <1>4 DEF Update
    <2>9. UNCHANGED <<built, torn, flushes, overflowed>>
      BY <1>4 DEF Update
    <2>4. \/ \E W \in SUBSET U : /\ Executed(p, W) /\ (pc' = "update" => left' = left \ {p} /\ W = U)
                                 /\ tx[p] # "broken"
          \/ UNCHANGED poolVars /\ pc' = "fail"
      <3>1. CASE pc' = "fail"
        BY <1>4, <3>1 DEF Update
      <3>2. CASE pc' # "fail"
        BY <1>4, <3>2 DEF Update
      <3> QED
        BY <3>1, <3>2
    <2>8. \A w \in updates[cur] : Pool(w.x) = p => w \in U
      OBVIOUS
    <2> HIDE DEF U
    <2>5. Enqueued(cur, {})
      BY <2>1, <2>3, NothingEnqueued
    <2>6. ASSUME NEW W \in SUBSET U, Executed(p, W), tx[p] # "broken",
                 pc' = "update" => left' = left \ {p} /\ W = U
          PROVE  \E q \in Pools, Y, V \in SUBSET Writes : Statement(q, Y, V)
      <3>1. W \in SUBSET Writes
        BY <2>2
      <3>2. /\ tx' = tx /\ open' \in [Pools -> SUBSET Writes] /\ committed' \subseteq Writes
            /\ \A q \in Pools \ {p} : open'[q] = open[q]
            /\ IF tx[p] = "open" THEN open'[p] = open[p] \cup W /\ committed' = committed
                                 ELSE open' = open /\ committed' = committed \cup W
        BY <2>6, <3>1, ExecutedIs
      <3>4. Written(p, W, {})
        BY <2>1, <2>3, <2>6, <2>9 DEF Written
      <3>3. Statement(p, W, {})
        BY <2>1, <2>2, <2>3, <2>5, <2>6, <2>8, <3>1, <3>2, <3>4 DEF Statement
      <3> QED
        BY <3>1, <3>3
    <2>7. CASE UNCHANGED poolVars /\ pc' = "fail"
      <3>2. Written(p, {}, {})
        BY <2>1, <2>7, <2>9 DEF Written
      <3>1. Statement(p, {}, {})
        BY <2>1, <2>3, <2>5, <2>7, <3>2, NothingExecuted DEF Statement
      <3> QED
        BY <3>1
    <2> QED
      BY <2>4, <2>6, <2>7
  <1> QED
    BY <1>1, <1>2, <1>3, <1>4 DEF Executes

\* The steps of Next, with those that share a form put together.
Moves == Inserted \/ Updated \/ Deleted
LEMMA StepIs ==
  ASSUME Typed, [Next]_vars
  PROVE  /\ setup' = setup
         /\ \/ \E x \in Entities : Change(x)
            \/ \E f \in Flushers : NewFlusher(f) \/ \E X \in SUBSET Entities : Flush(f, X)
            \/ \E p \in Pools : Begin(p) \/ Commit(p) \/ Rollback(p) \/ CommitFails(p) \/ FlushCommit(p)
            \/ Executes \/ Moves \/ Build \/ Caches \/ Return \/ FlushPanics \/ Overflow
            \/ UNCHANGED vars
  <1>1. /\ setup.entities \subseteq Entities /\ setup.flushers \subseteq Flushers
        /\ UsedPools \subseteq Pools
    BY SetupIs DEF UsedPools, Typed, TypeOK
  <1>2. CASE Next
    <2>1. setup' = setup /\ Step
      BY <1>2 DEF Next
    <2>2. ASSUME NEW x \in Entities, Change(x) \/ Upsert(x)
          PROVE  (\E y \in Entities : Change(y)) \/ Executes
      BY <2>2 DEF Executes
    <2>3. ASSUME NEW p \in Pools, Begin(p) \/ Commit(p) \/ Rollback(p) \/ CommitFails(p)
                                    \/ Update(p) \/ FlushCommit(p)
          PROVE  \/ \E q \in Pools : Begin(q) \/ Commit(q) \/ Rollback(q) \/ CommitFails(q) \/ FlushCommit(q)
                 \/ Executes
      BY <2>3 DEF Executes
    <2>4. ASSUME NEW t \in Types, Insert(t) \/ Delete(t) PROVE Executes
      BY <2>4 DEF Executes
    <2> QED
      BY <1>1, <2>1, <2>2, <2>3, <2>4 DEF Step, Moves
  <1>3. CASE UNCHANGED vars
    BY <1>3 DEF vars
  <1> QED
    BY <1>2, <1>3

-----------------------------------------------------------------------------
(* The calls of flush on the stack.                                        *)

InTransaction == \E p \in Pools : tx[p] # "none"

\* All calls but the outermost run inside a transaction, or find an entity that the
\* flusher tracks, so that they do, or have the call after them do the rest.  Only
\* the last one may have entities to update or delete, all of them tracked.
FrameOK(i) ==
    LET c == stack[i] IN
    /\ c.inside => InTransaction
    /\ \A x \in c.ents : state[x] \in {"new", "clean"} \/ (i = Len(stack) /\ c.root /\ x \in tracked[cur])
    /\ \/ c.depth = 0 /\ Len(stack) = 1 /\ c.root /\ c.ents = tracked[cur]
       \/ /\ c.depth > 0
          /\ c.inside \/ (useTx /\ (c.ents \cap tracked[cur] # {} \/ (~c.root /\ i < Len(stack))))

FramesOK == \A i \in 1 .. Len(stack) : FrameOK(i)

\* A call that has its transaction, or is the outermost and has none, or leaves the
\* statements to a later one.
TopOK ==
    \/ inTx /\ InTransaction
    \/ ~inTx /\ Top.depth = 0 /\ \A p \in PoolsOf(Top.ents) : tx[p] = "none"
    \/ ~inTx /\ ~Top.root /\ Len(stack) > 1

Calls ==
    /\ pc # "idle" => tracked[cur] # {}
    /\ pc \in Running => FramesOK
    /\ pc \in Running /\ useTx => \A p \in PoolsOf(tracked[cur]) : tx[p] = "open" /\ p \notin outer
    /\ pc \in Running => \A p \in outer : tx[p] # "none"
    /\ pc \in Running \ {"build"} => TopOK
    /\ pc = "insert" => batch \subseteq Top.ents
    /\ pc \in {"update", "delete"} => Top.root
    /\ \A f \in Flushers : deletes[f] \subseteq tracked[f]

\* Steps within a call.
LEMMA FramesStay ==
  ASSUME Typed, FramesOK, setup' = setup, UNCHANGED <<stack, tracked, cur, tx, useTx>>,
         \A x \in Entities : state'[x] \in {state[x], "clean"}
  PROVE  FramesOK'
  <1>1. \A i \in 1 .. Len(stack) : stack[i] \in Frames
    BY ElementOfSeq DEF Typed
  <1> SUFFICES ASSUME NEW i \in 1 .. Len(stack) PROVE FrameOK(i)'
    BY DEF FramesOK
  <1>2. FrameOK(i) /\ stack[i].ents \subseteq Entities
    BY <1>1 DEF FramesOK, Frames
  <1> QED
    BY <1>2 DEF FrameOK, InTransaction

LEMMA TopStays ==
  ASSUME TopOK, setup' = setup, UNCHANGED <<stack, tx, inTx>>
  PROVE  TopOK'
  BY DEF TopOK, InTransaction, Top, PoolsOf, Pool, PoolOf

LEMMA CallsWithin ==
  ASSUME Typed, Calls, setup' = setup, UNCHANGED <<stack, tracked, cur, tx, useTx, inTx, deletes, outer>>,
         \A x \in Entities : state'[x] \in {state[x], "clean"},
         pc # "idle",
         pc' \in Running => pc \in Running /\ (pc' = "build" <=> pc = "build"),
         pc' = "insert" => pc = "insert" /\ batch' = batch,
         pc' \in {"update", "delete"} => Top.root
  PROVE  Calls'
  <1>1. pc' \in Running => FramesOK'
    BY FramesStay DEF Calls
  <1>2. pc' \in Running \ {"build"} => TopOK'
    BY TopStays DEF Calls
  <1>3. pc' \in Running /\ useTx' => \A p \in PoolsOf(tracked[cur])' : tx'[p] = "open" /\ p \notin outer'
    BY DEF Calls, PoolsOf, Pool, PoolOf
  <1>4. Top' = Top
    BY DEF Top
  <1> QED
    BY <1>1, <1>2, <1>3, <1>4 DEF Calls

\* Steps that begin or end outside of flush's calls.
LEMMA CallsOutside ==
  ASSUME Typed, Calls, pc' \notin Running, pc' # "idle" => tracked'[cur'] # {},
         \A f \in Flushers : deletes'[f] \subseteq tracked'[f]
  PROVE  Calls'
  BY DEF Calls, Running

\* The call that opens transactions is the outermost.
LEMMA OutermostStarts ==
  ASSUME Typed, Calls, Build, setup' = setup, Starts, CanStart(cur)
  PROVE  /\ Top.depth = 0 /\ Len(stack) = 1 /\ Top.root /\ Top.ents = tracked[cur] /\ useTx'
         /\ \A p \in PoolsOf(tracked[cur]) : tx'[p] = "open" /\ p \notin outer
         /\ InTransaction'
  <1>0. /\ pc = "build" /\ cur \in Flushers /\ Top \in Frames /\ stack # << >>
        /\ Top.ents \subseteq Entities
        /\ (\A p \in Pools : tx'[p] = IF Starts /\ tx[p] = "none" /\ p \in PoolsOf(tracked[cur])
                                      THEN "open" ELSE tx[p])
        /\ useTx' = (IF Top.depth = 0 THEN Starts ELSE useTx)
        /\ (Starts => ~Inside)
    BY BuildIs
  <1>1. Top = stack[1] /\ Len(stack) \in Nat /\ Len(stack) >= 1 /\ FrameOK(1)
    <2>1. stack \in Seq(Frames)
      BY DEF Typed
    <2>2. Top = stack[1] /\ Len(stack) \in Nat /\ Len(stack) >= 1
      BY <1>0, <2>1, PopIs DEF Top
    <2> QED
      BY <1>0, <2>2 DEF Calls, FramesOK, Running
  <1>2. /\ \A x \in Entities : Pool(x) \in Pools
        /\ tracked \in [Flushers -> SUBSET Entities]
    BY SetupIs DEF Typed, TypeOK
  <1>3. tracked[cur] # {} /\ tracked[cur] \subseteq Entities /\ PoolsOf(tracked[cur]) \subseteq Pools
    BY <1>0, <1>2 DEF Calls, PoolsOf
  <1>4. \A p \in PoolsOf(tracked[cur]) : p \in Pools /\ tx[p] = "none" /\ tx'[p] = "open"
    BY <1>0, <1>3 DEF CanStart
  <1>5. \E p \in PoolsOf(tracked[cur]) : p \in Pools
    BY <1>3, <1>4 DEF PoolsOf
  <1>6. ~useTx
    BY <1>0, <1>4, <1>5 DEF Calls, Running
  <1>7. ~Top.inside
    BY <1>0 DEF Inside
  <1>8. Top.depth = 0 /\ Len(stack) = 1 /\ Top.root /\ Top.ents = tracked[cur]
    BY <1>1, <1>6, <1>7 DEF FrameOK
  <1>9. \A p \in PoolsOf(tracked[cur]) : p \notin outer
    BY <1>0, <1>4 DEF Calls, Running
  <1>10. InTransaction'
    BY <1>4, <1>5 DEF InTransaction
  <1> QED
    BY <1>0, <1>4, <1>8, <1>9, <1>10

LEMMA CallsBuild ==
  ASSUME Typed, Calls, Build, setup' = setup
  PROVE  Calls'
  <1>0. /\ pc = "build" /\ cur \in Flushers /\ Top \in Frames /\ stack # << >>
        /\ Ready \subseteq Top.ents /\ Top.ents \subseteq Entities
        /\ Referred \subseteq Entities /\ (\A x \in Referred : state[x] = "new")
        /\ Collected \subseteq Ready
        /\ (\A x \in Entities : state'[x] = IF x \in Ready /\ state[x] = "dirty" THEN "clean" ELSE state[x])
        /\ (\A x \in deletes'[cur] : x \in deletes[cur] \/ (x \in Ready /\ state[x] = "delete"))
        /\ (\A f \in Flushers \ {cur} : deletes'[f] = deletes[f])
        /\ (\A p \in Pools : tx'[p] = IF Starts /\ tx[p] = "none" /\ p \in PoolsOf(tracked[cur])
                                      THEN "open" ELSE tx[p])
        /\ useTx' = (IF Top.depth = 0 THEN Starts ELSE useTx) /\ useTx' \in BOOLEAN
        /\ Starts \in BOOLEAN /\ (Starts => ~Inside) /\ (~Inside /\ Referred # {} => Starts)
        /\ Refused \/ Split \/ Collects
        /\ UNCHANGED <<tracked, cur, outer>>
    BY BuildIs
  <1>1. /\ Top = stack[1] /\ Len(stack) \in Nat /\ Len(stack) >= 1 /\ FrameOK(1)
    <2>1. stack \in Seq(Frames)
      BY DEF Typed
    <2>2. Top = stack[1] /\ Len(stack) \in Nat /\ Len(stack) >= 1
      BY <1>0, <2>1, PopIs DEF Top
    <2> QED
      BY <1>0, <2>2 DEF Calls, FramesOK, Running
  <1>2. /\ \A x \in Entities : Pool(x) \in Pools /\ Pool(x)' = Pool(x)
        /\ tracked \in [Flushers -> SUBSET Entities]
    BY SetupIs DEF Typed, TypeOK, Pool, PoolOf
  <1>3. tracked[cur] # {} /\ tracked[cur] \subseteq Entities /\ PoolsOf(tracked[cur]) \subseteq Pools
    BY <1>0, <1>2 DEF Calls, PoolsOf
  <1>4. /\ \A p \in Pools : tx[p] # "none" => tx'[p] = tx[p]
        /\ InTransaction => InTransaction'
        /\ Inside => InTransaction
    <2>1. \A p \in Pools : tx[p] # "none" => tx'[p] = tx[p]
      BY <1>0
    <2>2. InTransaction => InTransaction'
      BY <2>1 DEF InTransaction
    <2>3. Inside => InTransaction
      BY <1>0, <1>1, <1>2 DEF Inside, FrameOK, InTransaction
    <2> QED
      BY <2>1, <2>2, <2>3
  <1>5. ASSUME Starts, CanStart(cur)
        PROVE  /\ Top.depth = 0 /\ Len(stack) = 1 /\ Top.root /\ Top.ents = tracked[cur] /\ useTx'
               /\ \A p \in PoolsOf(tracked[cur]) : tx'[p] = "open" /\ p \notin outer
               /\ InTransaction'
    BY <1>5, OutermostStarts
  <1>6. \A f \in Flushers : deletes'[f] \subseteq tracked'[f]
    <2>1. \A x \in Ready : state[x] = "delete" => x \in tracked[cur]
      BY <1>0, <1>1 DEF FrameOK
    <2> QED
      BY <1>0, <2>1 DEF Calls
  <1>7. \A p \in outer' : tx'[p] # "none"
    BY <1>0, <1>4 DEF Calls, Running, Typed, TypeOK
  <1>8. (Starts => CanStart(cur)) /\ useTx' => \A p \in PoolsOf(tracked[cur])' : tx'[p] = "open" /\ p \notin outer'
    <2> SUFFICES ASSUME Starts => CanStart(cur), useTx'
                 PROVE  \A p \in PoolsOf(tracked[cur]) : tx'[p] = "open" /\ p \notin outer
      <3>1. PoolsOf(tracked[cur])' = PoolsOf(tracked[cur])
        BY <1>0, <1>2, <1>3 DEF PoolsOf
      <3> QED
        BY <1>0, <3>1
    <2>1. CASE Starts
      BY <1>5, <2>1
    <2>2. CASE ~Starts
      <3>1. useTx
        BY <1>0, <2>2
      <3> QED
        BY <1>0, <1>3, <1>4, <3>1 DEF Calls, Running
    <2> QED
      BY <1>0, <2>1, <2>2
  <1>12. \A i \in 1 .. Len(stack) :
           /\ stack[i] \in Frames
           /\ stack[i].inside => InTransaction'
           /\ \A x \in stack[i].ents : state'[x] \in {"new", "clean"}
                                        \/ (i = Len(stack) /\ stack[i].root /\ x \in tracked[cur])
           /\ Top.depth # 0 =>
                /\ useTx' = useTx
                /\ stack[i].depth > 0
                /\ \/ stack[i].inside
                   \/ useTx /\ (stack[i].ents \cap tracked[cur] # {} \/ (~stack[i].root /\ i < Len(stack)))
           /\ Top.depth = 0 => i = 1 /\ Len(stack) = 1 /\ Top.root /\ Top.ents = tracked[cur]
    <2> SUFFICES ASSUME NEW i \in 1 .. Len(stack)
                 PROVE  /\ stack[i] \in Frames
                        /\ stack[i].inside => InTransaction'
                        /\ \A x \in stack[i].ents : \/ state'[x] \in {"new", "clean"}
                                                    \/ (i = Len(stack) /\ stack[i].root /\ x \in tracked[cur])
                        /\ Top.depth # 0 =>
                             /\ useTx' = useTx
                             /\ stack[i].depth > 0
                             /\ \/ stack[i].inside
                                \/ useTx /\ (stack[i].ents \cap tracked[cur] # {} \/ (~stack[i].root /\ i < Len(stack)))
                        /\ Top.depth = 0 => i = 1 /\ Len(stack) = 1 /\ Top.root /\ Top.ents = tracked[cur]
      OBVIOUS
    <2>1. FrameOK(i)
      BY <1>0 DEF Calls, FramesOK, Running
    <2>2. stack[i] \in Frames
      BY ElementOfSeq DEF Typed
    <2>3. stack[i].ents \subseteq Entities
      BY <2>2 DEF Frames
    <2>4. Top.depth = 0 => Len(stack) = 1 /\ Top.root /\ Top.ents = tracked[cur]
      BY <1>1 DEF FrameOK
    <2>5. Top.depth # 0 => stack[i].depth > 0
      <3>1. CASE Len(stack) = 1
        BY <1>0, <1>1, <3>1 DEF Frames
      <3>2. CASE Len(stack) # 1
        BY <2>1, <3>2 DEF FrameOK
      <3> QED
        BY <3>1, <3>2
    <2>6. stack[i].depth > 0 =>
            \/ stack[i].inside
            \/ useTx /\ (stack[i].ents \cap tracked[cur] # {} \/ (~stack[i].root /\ i < Len(stack)))
      BY <2>1 DEF FrameOK
    <2>7. stack[i].inside => InTransaction'
      BY <1>4, <2>1 DEF FrameOK
    <2>8. \A x \in stack[i].ents : state'[x] \in {"new", "clean"}
                                        \/ (i = Len(stack) /\ stack[i].root /\ x \in tracked[cur])
      BY <1>0, <2>1, <2>3 DEF FrameOK
    <2> QED
      BY <1>0, <1>1, <2>2, <2>4, <2>5, <2>6, <2>7, <2>8
  <1>9. CASE Refused
    BY <1>0, <1>6, <1>9, CallsOutside, <1>3 DEF Refused, Running
  <1>10. CASE Collects
    <2>1. pc' = "insert" /\ stack' = stack /\ inTx' = (Inside \/ Starts) /\ batch' = Collected
          /\ (Starts => CanStart(cur))
      BY <1>10 DEF Collects
    <2>2. Top' = Top
      BY <2>1 DEF Top
    <2>3. FramesOK'
      <3> SUFFICES ASSUME NEW i \in 1 .. Len(stack) PROVE FrameOK(i)'
        BY <2>1 DEF FramesOK
      <3>1. CASE Top.depth = 0
        BY <1>0, <1>1, <1>12, <2>1, <3>1 DEF FrameOK
      <3>2. CASE Top.depth # 0
        BY <1>0, <1>12, <2>1, <3>2 DEF FrameOK
      <3> QED
        BY <3>1, <3>2
    <2>4. TopOK'
      <3>1. CASE inTx'
        <4>1. CASE Inside
          BY <1>4, <3>1, <4>1 DEF TopOK
        <4>2. CASE Starts
          BY <1>5, <2>1, <3>1, <4>2 DEF TopOK
        <4> QED
          BY <2>1, <3>1, <4>1, <4>2
      <3>2. CASE ~inTx'
        <4>1. ~Inside /\ ~Starts
          BY <2>1, <3>2
        <4>2. /\ ~Top.inside /\ \A x \in Top.ents : tx[Pool(x)] = "none"
          BY <4>1 DEF Inside
        <4>3. \A p \in PoolsOf(Top.ents)' : tx'[p] = "none"
          BY <1>0, <1>2, <2>2, <4>1, <4>2 DEF PoolsOf
        <4>4. CASE Top.depth = 0
          BY <2>2, <3>2, <4>3, <4>4 DEF TopOK
        <4>5. CASE Top.depth # 0
          <5>1. useTx /\ (Top.ents \cap tracked[cur] # {} \/ (~Top.root /\ 1 < Len(stack)))
            BY <1>1, <4>2, <4>5 DEF FrameOK
          <5>2. Top.ents \cap tracked[cur] = {}
            BY <1>0, <4>2, <5>1 DEF Calls, Running, PoolsOf
          <5>3. ~Top.root /\ 1 < Len(stack)
            BY <5>1, <5>2
          <5> QED
            BY <1>1, <2>1, <2>2, <3>2, <5>3 DEF TopOK
        <4> QED
          BY <4>4, <4>5
      <3> QED
        BY <3>1, <3>2
    <2>5. batch' \subseteq Top'.ents
      BY <1>0, <2>1, <2>2
    <2> QED
      BY <1>0, <1>3, <1>6, <1>7, <1>8, <2>1, <2>3, <2>4, <2>5 DEF Calls
  <1>11. CASE Split
    <2>1. pc' = "build" /\ (Starts => CanStart(cur)) /\ Referred # {}
      BY <1>0, <1>11 DEF Split
    <2>3. /\ stack' \in Seq(Frames)
          /\ stack'[1] = Frame(Top.depth + 1, FALSE, Inside, Referred)
          /\ Rest = {} => /\ Len(stack') = Len(stack)
                          /\ \A i \in 2 .. Len(stack') : stack'[i] = stack[i]
          /\ Rest # {} => /\ Len(stack') = Len(stack) + 1
                          /\ stack'[2] = Frame(Top.depth + 1, TRUE, Inside, Rest)
                          /\ \A i \in 3 .. Len(stack') : stack'[i] = stack[i - 1]
      BY <1>0, <1>11, PushedIs
    <2>4. Top.depth \in Nat
      BY <1>0 DEF Frames
    <2>5. Rest = Top.ents \ Referred
      BY DEF Rest
    <2>6. ~Inside => /\ Starts /\ useTx' /\ Len(stack) = 1 /\ Top.ents = tracked[cur]
      BY <1>0, <1>5, <2>1
    <2>7. FrameOK(1)'
      <3>1. \A x \in Referred : state'[x] = "new"
        BY <1>0
      <3>2. ~Inside => Referred \cap tracked[cur] # {} \/ 1 < Len(stack')
        <4>1. CASE Rest = {}
          BY <1>3, <2>5, <2>6, <4>1
        <4>2. CASE Rest # {}
          <5>1. Len(stack') = Len(stack) + 1
            BY <2>3, <4>2
          <5> QED
            BY <2>6, <5>1
        <4> QED
          BY <4>1, <4>2
      <3> QED
        BY <1>0, <1>4, <2>3, <2>4, <2>6, <3>1, <3>2 DEF FrameOK, Frame
    <2>8. Rest # {} => FrameOK(2)'
      <3> SUFFICES ASSUME Rest # {} PROVE FrameOK(2)'
        OBVIOUS
      <3>1. stack'[2] = Frame(Top.depth + 1, TRUE, Inside, Rest) /\ Len(stack') = Len(stack) + 1
        BY <2>3
      <3>2. \A x \in Rest : state'[x] \in {"new", "clean"} \/ (2 = Len(stack') /\ x \in tracked[cur])
        BY <1>1, <1>12, <2>5, <3>1
      <3>3. ~Inside => Rest \cap tracked[cur] # {}
        BY <2>5, <2>6
      <3> QED
        BY <1>0, <1>4, <2>4, <2>6, <3>1, <3>2, <3>3 DEF FrameOK, Frame
    <2>9. ASSUME NEW i \in 2 .. Len(stack), NEW j \in 1 .. Len(stack'), stack'[j] = stack[i],
                 j = Len(stack') <=> i = Len(stack)
          PROVE  FrameOK(j)'
      <3>1. Top.depth # 0 /\ i \in 1 .. Len(stack)
        BY <1>1, <1>12
      <3>2. i < Len(stack) => j < Len(stack')
        BY <1>1, <2>3, <2>9
      <3> QED
        BY <1>0, <1>12, <2>9, <3>1, <3>2 DEF FrameOK
    <2>2. FramesOK'
      <3> SUFFICES ASSUME NEW k \in 1 .. Len(stack') PROVE FrameOK(k)'
        BY DEF FramesOK
      <3>1. CASE k = 1
        BY <2>7, <3>1
      <3>2. CASE k = 2 /\ Rest # {}
        BY <2>8, <3>2
      <3>3. CASE k > 1 /\ Rest = {}
        <4>1. k \in 2 .. Len(stack) /\ stack'[k] = stack[k] /\ Len(stack') = Len(stack)
          BY <1>1, <2>3, <3>3
        <4> QED
          BY <2>9, <4>1
      <3>4. CASE k > 2 /\ Rest # {}
        <4>1. k \in 3 .. Len(stack')
          BY <3>4
        <4>2. k - 1 \in 2 .. Len(stack) /\ stack'[k] = stack[k - 1] /\ (k = Len(stack') <=> k - 1 = Len(stack))
          <5>1. Len(stack') = Len(stack) + 1
            BY <2>3, <3>4
          <5>2. k - 1 \in 2 .. Len(stack) /\ (k = Len(stack') <=> k - 1 = Len(stack))
            BY <1>1, <4>1, <5>1
          <5>3. stack'[k] = stack[k - 1]
            BY <2>3, <3>4, <4>1
          <5> QED
            BY <5>2, <5>3
        <4> QED
          BY <2>9, <4>2
      <3> QED
        BY <1>1, <2>3, <3>1, <3>2, <3>3, <3>4
    <2> QED
      BY <1>0, <1>3, <1>6, <1>7, <1>8, <2>1, <2>2 DEF Calls, Running
  <1> QED
    BY <1>0, <1>9, <1>10, <1>11

LEMMA CallsFlush ==
  ASSUME Typed, Calls, setup' = setup, NEW f \in Flushers, NEW X \in SUBSET Entities, Flush(f, X)
  PROVE  Calls'
  <1> DEFINE fr == Frame(0, TRUE, FALSE, tracked'[f])
  <1>1. /\ cur' = f /\ pc' = "build" /\ useTx' = FALSE /\ stack' = <<fr>>
        /\ outer' = {p \in Pools : tx[p] # "none"} /\ tx' = tx /\ deletes' = deletes
        /\ tracked' = [tracked EXCEPT ![f] = @ \cup X] /\ tracked[f] \cup X # {}
    BY DEF Flush, poolVars
  <1>2. \A g \in Flushers : tracked[g] \subseteq tracked'[g]
    BY <1>1 DEF Typed, TypeOK
  <1>3. tracked'[f] = tracked[f] \cup X
    BY <1>1 DEF Typed, TypeOK
  <1>4. fr.depth = 0 /\ fr.root /\ ~fr.inside /\ fr.ents = tracked'[f]
    BY DEF Frame
  <1> HIDE DEF fr
  <1>5. Len(stack') = 1 /\ stack'[1] = fr
    BY <1>1
  <1>6. FramesOK'
    BY <1>1, <1>4, <1>5 DEF FramesOK, FrameOK
  <1>7. \A g \in Flushers : deletes'[g] \subseteq tracked'[g]
    BY <1>1, <1>2 DEF Calls
  <1> QED
    BY <1>1, <1>3, <1>6, <1>7 DEF Calls

LEMMA CallsCaches ==
  ASSUME Typed, Calls, setup' = setup, Caches
  PROVE  Calls'
  <1>1. /\ pc = "caches" /\ cur \in Flushers
        /\ stack' \in Seq(Frames) /\ Len(stack') = Len(stack) - 1
        /\ Len(stack) \in Nat /\ Len(stack) >= 1
        /\ (\A i \in 1 .. Len(stack') : stack'[i] = stack[i + 1])
        /\ (stack' = << >> <=> Len(stack) = 1)
        /\ pc' = IF stack' = << >> THEN "commit" ELSE "build"
        /\ UNCHANGED <<state, tx, tracked, deletes, cur, useTx, outer>>
    BY CachesIs
  <1>2. CASE stack' = << >>
    BY <1>1, <1>2, CallsOutside DEF Calls, Running
  <1>3. CASE stack' # << >>
    <2>1. pc' = "build" /\ Len(stack) > 1 /\ FramesOK
      BY <1>1, <1>3 DEF Calls, Running
    <2>2. ASSUME NEW i \in 1 .. Len(stack') PROVE FrameOK(i)'
      <3>1. /\ i + 1 \in 1 .. Len(stack) /\ stack'[i] = stack[i + 1] /\ Len(stack) # 1
            /\ (i = Len(stack') <=> i + 1 = Len(stack)) /\ (i + 1 < Len(stack) => i < Len(stack'))
        BY <1>1, <2>1
      <3>2. FrameOK(i + 1)
        BY <2>1, <3>1 DEF FramesOK
      <3> QED
        BY <1>1, <3>1, <3>2 DEF FrameOK, InTransaction
    <2>3. FramesOK'
      BY <2>2 DEF FramesOK
    <2>4. useTx' => \A p \in PoolsOf(tracked[cur])' : tx'[p] = "open" /\ p \notin outer'
      BY <1>1 DEF Calls, Running, PoolsOf, Pool, PoolOf
    <2> QED
      BY <1>1, <2>1, <2>3, <2>4 DEF Calls, Running
  <1> QED
    BY <1>2, <1>3

LEMMA CallsInit == Init => Calls
  BY DEF Init, Calls, Running

LEMMA CallsNext == Typed /\ Calls /\ [Next]_vars => Calls'
  <1> SUFFICES ASSUME Typed, Calls, [Next]_vars PROVE Calls'
    OBVIOUS
  <1> USE DEF entityVars, poolVars, flusherVars, engineVars, callVars, countVars, whyVars, Running
  <1>0. setup' = setup
    BY StepIs
  <1>1. ASSUME NEW x \in Entities, Change(x) PROVE Calls'
    BY <1>1, CallsOutside DEF Change, Calls
  <1>2. ASSUME NEW f \in Flushers, NewFlusher(f) PROVE Calls'
    BY <1>2, CallsOutside DEF NewFlusher, Fresh, Calls, Typed, TypeOK
  <1>3. ASSUME NEW f \in Flushers, NEW X \in SUBSET Entities, Flush(f, X) PROVE Calls'
    BY <1>0, <1>3, CallsFlush
  <1>4. ASSUME NEW p \in Pools, Begin(p) \/ Commit(p) \/ Rollback(p) \/ CommitFails(p) PROVE Calls'
    <2>1. pc' = "idle" /\ deletes' = deletes /\ tracked' = tracked
      BY <1>4 DEF Begin, Commit, Rollback, CommitFails
    <2> QED
      BY <2>1, CallsOutside DEF Calls
  <1>5. ASSUME NEW p \in Pools, FlushCommit(p) PROVE Calls'
    <2>1. pc = "commit" /\ pc' \in {"commit", "fail"} /\ deletes' = deletes /\ tracked' = tracked /\ cur' = cur
      BY <1>5 DEF FlushCommit
    <2> QED
      BY <2>1, CallsOutside DEF Calls
  <1>6. CASE Executes
    <2>1. PICK p \in Pools, W \in SUBSET Writes, V \in SUBSET Writes : Statement(p, W, V)
      BY <1>0, <1>6, StatementIs
    <2>2. /\ pc \in Running /\ pc' \in {pc, "fail"} /\ tx' = tx
          /\ (\A x \in Entities : state'[x] \in {state[x], "clean"})
          /\ UNCHANGED <<tracked, deletes, cur, stack, batch, inTx, useTx, outer>>
      BY <2>1 DEF Statement
    <2>3. pc' \in {"update", "delete"} => Top.root
      BY <2>2 DEF Calls
    <2> QED
      BY <1>0, <2>2, <2>3, CallsWithin
  <1>7. CASE Moves
    <2>1. /\ pc \in {"insert", "update", "delete"} /\ pc' \in {"update", "delete", "caches"}
          /\ UNCHANGED <<state, tracked, deletes, cur, tx, stack, inTx, useTx, outer>>
      BY <1>7 DEF Moves, Inserted, Updated, Deleted
    <2>2. pc' \in {"update", "delete"} => Top.root
      BY <1>7 DEF Moves, Inserted, Updated, Deleted, Calls
    <2>3. \A x \in Entities : state'[x] \in {state[x], "clean"}
      BY <2>1
    <2> QED
      BY <1>0, <2>1, <2>2, <2>3, CallsWithin
  <1>8. CASE Build
    BY <1>0, <1>8, CallsBuild
  <1>9. CASE Caches
    BY <1>0, <1>9, CallsCaches
  <1>10. CASE Return
    <2>1. pc' = "idle"
      BY <1>10 DEF Return
    <2>2. \A f \in Flushers : deletes'[f] \subseteq tracked'[f]
      BY <1>10 DEF Return, Fresh, Calls, Typed, TypeOK
    <2> QED
      BY <2>1, <2>2, CallsOutside
  <1>11. CASE FlushPanics
    <2>1. pc' = "idle"
      BY <1>11, PanicIs
    <2>2. \A f \in Flushers : deletes'[f] \subseteq tracked'[f]
      <3>1. /\ cur \in Flushers
            /\ \A g \in Flushers \ {cur} : tracked'[g] = tracked[g] /\ deletes'[g] = deletes[g]
            /\ deletes'[cur] = {} \/ (deletes' = deletes /\ tracked' = tracked)
        BY <1>11, PanicIs
      <3> QED
        BY <3>1 DEF Calls
    <2> QED
      BY <2>1, <2>2, CallsOutside
  <1>12. CASE Overflow
    <2>1. pc' = "idle" /\ tracked' = [f \in Flushers |-> {}] /\ deletes' = tracked'
      BY <1>12, OverflowIs
    <2> QED
      BY <2>1, CallsOutside
  <1>13. CASE UNCHANGED vars
    <2>1. UNCHANGED <<setup, state, tracked, cur, tx, useTx, inTx, stack, deletes, outer, pc, batch>>
      BY <1>13 DEF vars
    <2>2. CASE pc = "idle"
      BY <2>1, <2>2, CallsOutside DEF Calls
    <2>3. CASE pc # "idle"
      <3>1. pc' \in {"update", "delete"} => Top.root
        BY <2>1 DEF Calls
      <3>2. \A x \in Entities : state'[x] \in {state[x], "clean"}
        BY <2>1
      <3> QED
        BY <2>1, <2>3, <3>1, <3>2, CallsWithin
    <2> QED
      BY <2>2, <2>3
  <1> QED
    BY <1>1, <1>2, <1>3, <1>4, <1>5, <1>6, <1>7, <1>8, <1>9, <1>10, <1>11, <1>12, <1>13, StepIs

-----------------------------------------------------------------------------
(* The transactions of the pools.                                          *)

\* A pool has writes open in its own transaction only.
PoolsApart ==
    \A p \in Pools : /\ \A w \in open[p] : Pool(w.x) = p
                     /\ tx[p] # "open" => open[p] = {}

\* During a flush the pools in a transaction are those of the program and those of
\* the entities that the flusher tracks, of which commit has those in left to do.
OpenedBy ==
    /\ pc # "idle" => \A p \in Pools : tx[p] = "open" => p \in outer \cup PoolsOf(tracked[cur])
    /\ pc \in Running => \A p \in Pools : tx[p] = "open" => p \in outer \/ useTx
    /\ pc = "build" /\ Top.depth = 0 => ~useTx
    /\ pc = "commit" => /\ left \cap outer = {} /\ left \subseteq PoolsOf(tracked[cur])
                        /\ \A p \in Pools : tx[p] = "open" => p \in outer \cup left

\* The engine holds a redisFlusher for a commit to come.
HeldForCommit == afterRedis # None => InTransaction

LEMMA ApartInit == Init => PoolsApart
  BY DEF Init, PoolsApart

LEMMA ApartNext == Typed /\ PoolsApart /\ [Next]_vars => PoolsApart'
  <1> SUFFICES ASSUME Typed, PoolsApart, [Next]_vars PROVE PoolsApart'
    OBVIOUS
  <1> USE DEF entityVars, poolVars, flusherVars, engineVars, callVars, countVars, whyVars
  <1>0. setup' = setup
    BY StepIs
  <1>1. /\ tx \in [Pools -> {"none", "open", "broken"}] /\ open \in [Pools -> SUBSET Writes]
        /\ \A w \in Writes : w.x \in Entities
    BY DEF Typed, TypeOK, Writes
  <1>2. ASSUME \A p \in Pools : /\ open'[p] \subseteq open[p]
                                /\ tx'[p] # "open" => tx[p] # "open" \/ open'[p] = {}
        PROVE  PoolsApart'
    BY <1>0, <1>2 DEF PoolsApart, Pool, PoolOf
  <1>3. ASSUME NEW p \in Pools,
               Begin(p) \/ Commit(p) \/ Rollback(p) \/ CommitFails(p) \/ FlushCommit(p)
        PROVE  PoolsApart'
    <2>1. CASE Begin(p)
      BY <1>1, <1>2, <2>1 DEF Begin, Begun
    <2>2. CASE Commit(p) \/ Rollback(p) \/ CommitFails(p) \/ FlushCommit(p)
      BY <1>1, <1>2, <2>2 DEF Commit, Committed, Rollback, Undone, CommitFails, CommitError, FlushCommit
    <2> QED
      BY <1>3, <2>1, <2>2
  <1>4. CASE Executes
    <2>1. PICK p \in Pools, W \in SUBSET Writes, V \in SUBSET Writes : Statement(p, W, V)
      BY <1>0, <1>4, StatementIs
    <2>2. /\ tx' = tx /\ (\A w \in W : Pool(w.x) = p)
          /\ (\A q \in Pools \ {p} : open'[q] = open[q])
          /\ open'[p] = IF tx[p] = "open" THEN open[p] \cup W ELSE open[p]
      BY <2>1 DEF Statement
    <2>3. \A w : Pool(w.x)' = Pool(w.x)
      BY <1>0 DEF Pool, PoolOf
    <2> QED
      BY <2>2, <2>3 DEF PoolsApart
  <1>5. CASE Build
    <2>1. /\ open' = open /\ (\A p \in Pools : tx'[p] = tx[p] \/ tx'[p] = "open")
      BY <1>5, BuildIs
    <2> QED
      BY <1>2, <2>1
  <1>6. CASE FlushPanics
    <2>1. PICK Q : \A p \in Pools : /\ tx'[p] = IF p \in Q THEN "none" ELSE tx[p]
                                    /\ open'[p] = IF p \in Q THEN {} ELSE open[p]
      BY <1>6, PanicIs
    <2> QED
      BY <1>2, <2>1
  <1>7. CASE Overflow
    BY <1>2, <1>7, OverflowIs
  <1>8. CASE Caches
    BY <1>2, <1>8, CachesIs
  <1>9. ASSUME UNCHANGED <<tx, open>> PROVE PoolsApart'
    BY <1>2, <1>9
  <1>10. ASSUME NEW x \in Entities, Change(x) PROVE PoolsApart'
    BY <1>9, <1>10 DEF Change
  <1>11. ASSUME NEW f \in Flushers, NewFlusher(f) \/ \E X \in SUBSET Entities : Flush(f, X)
         PROVE  PoolsApart'
    BY <1>9, <1>11 DEF NewFlusher, Flush
  <1>12. CASE Moves \/ Return \/ UNCHANGED vars
    BY <1>9, <1>12 DEF Moves, Inserted, Updated, Deleted, Return, vars
  <1> QED
    BY <1>3, <1>4, <1>5, <1>6, <1>7, <1>8, <1>10, <1>11, <1>12, StepIs

LEMMA OpenedInit == Init => OpenedBy
  BY DEF Init, OpenedBy, Running

LEMMA OpenedNext == Typed /\ Calls /\ OpenedBy /\ [Next]_vars => OpenedBy'
  <1> SUFFICES ASSUME Typed, Calls, OpenedBy, [Next]_vars PROVE OpenedBy'
    OBVIOUS
  <1> USE DEF entityVars, poolVars, flusherVars, engineVars, callVars, countVars, whyVars, Running
  <1>0. setup' = setup
    BY StepIs
  <1>1. /\ tx \in [Pools -> {"none", "open", "broken"}]
    BY DEF Typed, TypeOK
  <1>2. ASSUME pc' = "idle" PROVE OpenedBy'
    BY <1>2 DEF OpenedBy
  <1>3. ASSUME NEW f \in Flushers, NEW X \in SUBSET Entities, Flush(f, X) PROVE OpenedBy'
    <2>1. /\ cur' = f /\ pc' = "build" /\ useTx' = FALSE /\ tx' = tx
          /\ outer' = {p \in Pools : tx[p] # "none"}
      BY <1>3 DEF Flush
    <2> QED
      BY <2>1 DEF OpenedBy
  <1>4. ASSUME NEW p \in Pools, FlushCommit(p) PROVE OpenedBy'
    <2>1. /\ pc = "commit" /\ p \in left /\ left' = left \ {p}
          /\ UNCHANGED <<tracked, cur, outer>>
          /\ \A q \in Pools : q # p => tx'[q] = tx[q]
          /\ pc' = "fail" \/ (pc' = "commit" /\ tx'[p] = "none")
          /\ tx'[p] = "open" => tx[p] = "open"
      BY <1>1, <1>4 DEF FlushCommit, Committed, CommitError
    <2>2. PoolsOf(tracked[cur])' = PoolsOf(tracked[cur])
      BY <1>0, <2>1 DEF PoolsOf, Pool, PoolOf
    <2> QED
      BY <2>1, <2>2 DEF OpenedBy
  <1>5. ASSUME pc # "idle", pc' \in Running \cup {"fail"},
               pc' \in Running => pc \in Running, pc' = "build" => pc = "build" /\ stack' = stack,
               UNCHANGED <<tx, tracked, cur, outer, useTx>>
        PROVE  OpenedBy'
    <2>1. PoolsOf(tracked[cur])' = PoolsOf(tracked[cur])
      BY <1>0, <1>5 DEF PoolsOf, Pool, PoolOf
    <2> QED
      BY <1>5, <2>1 DEF OpenedBy, Top
  <1>6. CASE Executes
    <2>1. PICK p \in Pools, W \in SUBSET Writes, V \in SUBSET Writes : Statement(p, W, V)
      BY <1>0, <1>6, StatementIs
    <2>2. pc \in Running /\ pc' \in {pc, "fail"} /\ UNCHANGED <<tx, tracked, cur, outer, useTx, stack>>
      BY <2>1 DEF Statement
    <2> QED
      BY <1>5, <2>2
  <1>7. CASE Moves
    BY <1>5, <1>7 DEF Moves, Inserted, Updated, Deleted
  <1>8. CASE Build
    <2>1. /\ pc = "build" /\ cur \in Flushers /\ Top \in Frames
          /\ (\A p \in Pools : tx'[p] = IF Starts /\ tx[p] = "none" /\ p \in PoolsOf(tracked[cur])
                                        THEN "open" ELSE tx[p])
          /\ useTx' = (IF Top.depth = 0 THEN Starts ELSE useTx) /\ useTx' \in BOOLEAN
          /\ Starts \in BOOLEAN
          /\ Refused \/ Split \/ Collects
          /\ UNCHANGED <<tracked, cur, outer>>
      BY <1>8, BuildIs
    <2>2. PoolsOf(tracked[cur])' = PoolsOf(tracked[cur])
      BY <1>0, <2>1 DEF PoolsOf, Pool, PoolOf
    <2>3. \A p \in Pools : tx'[p] = "open" => p \in outer' \cup PoolsOf(tracked[cur])'
      BY <2>1, <2>2 DEF OpenedBy
    <2>4. CASE Refused
      BY <2>3, <2>4 DEF Refused, OpenedBy
    <2>5. CASE Split \/ Collects
      <3>1. Starts => CanStart(cur) /\ Top.depth = 0
        <4> SUFFICES ASSUME Starts PROVE CanStart(cur) /\ Top.depth = 0
          OBVIOUS
        <4>1. CanStart(cur)
          BY <2>5 DEF Split, Collects
        <4>2. Top.depth = 0
          BY <1>0, <1>8, <4>1, OutermostStarts
        <4> QED
          BY <4>1, <4>2
      <3>2. \A p \in Pools : tx'[p] = "open" => p \in outer' \/ useTx'
        BY <2>1, <3>1 DEF OpenedBy
      <3>3. pc' = "build" => Top'.depth # 0
        <4> SUFFICES ASSUME Split PROVE Top'.depth # 0
          BY <2>1, <2>5 DEF Collects
        <4>1. Top' = Frame(Top.depth + 1, FALSE, Inside, Referred)
          BY <1>8, PushedIs DEF Top
        <4> QED
          BY <2>1, <4>1 DEF Frame, Frames
      <3> QED
        BY <2>1, <2>3, <2>5, <3>2, <3>3 DEF Split, Collects, OpenedBy
    <2> QED
      BY <2>1, <2>4, <2>5
  <1>9. CASE Caches
    <2>1. /\ pc = "caches" /\ cur \in Flushers
          /\ stack' \in Seq(Frames) /\ Len(stack') = Len(stack) - 1
          /\ Len(stack) \in Nat /\ Len(stack) >= 1
          /\ (\A i \in 1 .. Len(stack') : stack'[i] = stack[i + 1])
          /\ (stack' = << >> <=> Len(stack) = 1)
          /\ pc' = (IF stack' = << >> THEN "commit" ELSE "build")
          /\ left' = (IF stack' = << >> /\ useTx THEN PoolsOf(tracked[cur]) ELSE {})
          /\ UNCHANGED <<tx, tracked, cur, useTx, outer>>
      BY <1>9, CachesIs
    <2>2. PoolsOf(tracked[cur])' = PoolsOf(tracked[cur])
      BY <1>0, <2>1 DEF PoolsOf, Pool, PoolOf
    <2>3. CASE stack' = << >>
      <3>1. useTx => \A p \in PoolsOf(tracked[cur]) : p \notin outer
        BY <2>1 DEF Calls
      <3> QED
        BY <2>1, <2>2, <2>3, <3>1 DEF OpenedBy
    <2>4. CASE stack' # << >>
      <3>1. Top' = stack'[1] /\ 1 \in 1 .. Len(stack') /\ 2 \in 1 .. Len(stack) /\ stack'[1] = stack[2]
        <4>1. Head(stack') = stack'[1]
          BY <2>1, <2>4, PopIs
        <4> QED
          BY <2>1, <2>4, <4>1 DEF Top
      <3>2. stack[2].depth # 0
        <4>1. FrameOK(2) /\ Len(stack) # 1
          BY <2>1, <3>1 DEF Calls, FramesOK
        <4> QED
          BY <4>1 DEF FrameOK
      <3> QED
        BY <2>1, <2>2, <2>4, <3>1, <3>2 DEF OpenedBy
    <2> QED
      BY <2>3, <2>4
  <1>10. CASE UNCHANGED vars
    BY <1>0, <1>10 DEF vars, OpenedBy, PoolsOf, Pool, PoolOf, Top
  <1>11. CASE Return \/ FlushPanics \/ Overflow
    BY <1>2, <1>11 DEF Return, FlushPanics, Overflow
  <1>12. ASSUME NEW x \in Entities, Change(x) PROVE OpenedBy'
    BY <1>2, <1>12 DEF Change
  <1>13. ASSUME NEW f \in Flushers, NewFlusher(f) PROVE OpenedBy'
    BY <1>2, <1>13 DEF NewFlusher
  <1>14. ASSUME NEW p \in Pools, Begin(p) \/ Commit(p) \/ Rollback(p) \/ CommitFails(p) PROVE OpenedBy'
    BY <1>2, <1>14 DEF Begin, Commit, Rollback, CommitFails
  <1> QED
    BY <1>3, <1>4, <1>6, <1>7, <1>8, <1>9, <1>10, <1>11, <1>12, <1>13, <1>14, StepIs

LEMMA HeldInit == Init => HeldForCommit
  BY DEF Init, HeldForCommit

LEMMA HeldNext == Typed /\ Calls /\ HeldForCommit /\ [Next]_vars => HeldForCommit'
  <1> SUFFICES ASSUME Typed, Calls, HeldForCommit, [Next]_vars, afterRedis' # None PROVE InTransaction'
    BY DEF HeldForCommit
  <1> USE DEF entityVars, poolVars, flusherVars, engineVars, callVars, countVars, whyVars, Running
  <1>0. setup' = setup
    BY StepIs
  <1>1. tx \in [Pools -> {"none", "open", "broken"}]
    BY DEF Typed, TypeOK
  <1>2. ASSUME afterRedis' = afterRedis, \A p \in Pools : tx[p] # "none" => tx'[p] # "none"
        PROVE  InTransaction'
    BY <1>2 DEF HeldForCommit, InTransaction
  <1>3. ASSUME NEW p \in Pools, Begin(p) \/ CommitFails(p) PROVE InTransaction'
    BY <1>1, <1>2, <1>3 DEF Begin, Begun, CommitFails, CommitError
  <1>4. ASSUME NEW p \in Pools, Commit(p) \/ Rollback(p) PROVE InTransaction'
    BY <1>4 DEF Commit, Committed, Rollback, LetGo
  <1>5. ASSUME NEW p \in Pools, FlushCommit(p) PROVE InTransaction'
    <2>1. CASE Committed(p)
      BY <2>1 DEF Committed
    <2>2. CASE CommitError(p) /\ UNCHANGED engineVars
      BY <1>1, <1>2, <2>2 DEF CommitError
    <2>3. CASE UNCHANGED <<poolVars, engineVars>>
      BY <1>2, <2>3
    <2> QED
      BY <1>5, <2>1, <2>2, <2>3 DEF FlushCommit
  <1>6. CASE Executes
    <2>1. PICK p \in Pools, W \in SUBSET Writes, V \in SUBSET Writes : Statement(p, W, V)
      BY <1>0, <1>6, StatementIs
    <2> QED
      BY <1>2, <2>1 DEF Statement
  <1>7. CASE Build
    <2>1. /\ afterRedis' = afterRedis
          /\ (\A p \in Pools : tx'[p] = tx[p] \/ tx'[p] = "open")
      BY <1>7, BuildIs
    <2> QED
      BY <1>2, <2>1
  <1>8. CASE Caches
    <2>1. pc = "caches" /\ tx' = tx /\ (~inTx => afterRedis' = afterRedis)
      BY <1>8, CachesIs
    <2>2. CASE inTx
      BY <2>1, <2>2 DEF Calls, TopOK, InTransaction
    <2>3. CASE ~inTx
      BY <1>2, <2>1, <2>3
    <2> QED
      BY <2>2, <2>3
  <1>9. CASE FlushPanics
    <2>1. PICK Q : /\ \A p \in Pools : tx'[p] = IF p \in Q THEN "none" ELSE tx[p]
                   /\ IF Q = {} THEN UNCHANGED <<afterRedis, afterLocal>> ELSE afterRedis' = None /\ afterLocal' = {}
      BY <1>9, PanicIs
    <2> QED
      BY <1>2, <2>1
  <1>10. CASE Overflow
    BY <1>10, OverflowIs
  <1>11. ASSUME NEW x \in Entities, Change(x) PROVE InTransaction'
    BY <1>2, <1>11 DEF Change
  <1>12. ASSUME NEW f \in Flushers, NewFlusher(f) \/ \E X \in SUBSET Entities : Flush(f, X)
         PROVE  InTransaction'
    BY <1>2, <1>12 DEF NewFlusher, Flush
  <1>13. CASE Moves \/ Return \/ UNCHANGED vars
    BY <1>2, <1>13 DEF Moves, Inserted, Updated, Deleted, Return, vars
  <1> QED
    BY <1>3, <1>4, <1>5, <1>6, <1>7, <1>8, <1>9, <1>10, <1>11, <1>12, <1>13, StepIs

-----------------------------------------------------------------------------
(* Flush leaves the transactions of the program alone.                     *)

\* The step of LeavesTransactionsAlone.
Alone ==
    pc # "idle" =>
      /\ \A p \in outer : committed \cap open[p] = committed' \cap open[p]
      /\ pc' = "idle" => \A p \in Pools : \/ tx'[p] # "open" \/ p \in outer
                                          \/ \E q \in Pools : tx[q] = "broken"

LEMMA AloneNext == Typed /\ Calls /\ PoolsApart /\ OpenedBy /\ [Next]_vars => Alone
  <1> SUFFICES ASSUME Typed, PoolsApart, OpenedBy, [Next]_vars, pc # "idle"
               PROVE  /\ \A p \in outer : committed \cap open[p] = committed' \cap open[p]
                      /\ pc' = "idle" => \A p \in Pools : \/ tx'[p] # "open" \/ p \in outer
                                                          \/ \E q \in Pools : tx[q] = "broken"
    BY DEF Alone
  <1> USE DEF entityVars, poolVars, flusherVars, engineVars, callVars, countVars, whyVars, Running
  <1>0. setup' = setup /\ outer \subseteq Pools
    BY StepIs DEF Typed, TypeOK
  <1>1. tx \in [Pools -> {"none", "open", "broken"}]
    BY DEF Typed, TypeOK
  <1>2. \A p \in outer : committed \cap open[p] = committed' \cap open[p]
    <2>1. CASE Executes
      <3>1. PICK p \in Pools, W \in SUBSET Writes, V \in SUBSET Writes : Statement(p, W, V)
        BY <1>0, <2>1, StatementIs
      <3>2. /\ \A w \in W : Pool(w.x) = p
            /\ committed' = IF tx[p] = "open" THEN committed ELSE committed \cup W
        BY <3>1 DEF Statement
      <3>3. CASE tx[p] = "open"
        BY <3>2, <3>3
      <3>4. CASE tx[p] # "open"
        <4>1. \A q \in Pools : W \cap open[q] = {}
          BY <3>2, <3>4 DEF PoolsApart
        <4> QED
          BY <1>0, <3>2, <3>4, <4>1
      <3> QED
        BY <3>3, <3>4
    <2>2. ASSUME NEW p \in Pools, FlushCommit(p)
          PROVE  \A q \in outer : committed \cap open[q] = committed' \cap open[q]
      <3>1. p \notin outer
        BY <2>2 DEF FlushCommit, OpenedBy
      <3>2. committed' = committed \/ committed' = committed \cup open[p]
        BY <2>2 DEF FlushCommit, Committed, CommitError
      <3>3. \A q \in outer : open[p] \cap open[q] = {}
        BY <1>0, <3>1 DEF PoolsApart
      <3> QED
        BY <3>2, <3>3
    <2>3. ASSUME committed' = committed
          PROVE  \A q \in outer : committed \cap open[q] = committed' \cap open[q]
      BY <2>3
    <2>4. CASE Build
      BY <2>3, <2>4, BuildIs
    <2>5. CASE Caches
      BY <2>3, <2>5, CachesIs
    <2>6. CASE FlushPanics
      BY <2>3, <2>6, PanicIs
    <2>7. CASE Overflow
      BY <2>3, <2>7, OverflowIs
    <2>8. CASE Moves \/ Return \/ UNCHANGED vars
      BY <2>3, <2>8 DEF Moves, Inserted, Updated, Deleted, Return, vars
    <2>9. /\ \A x \in Entities : ~Change(x)
          /\ \A f \in Flushers : ~NewFlusher(f) /\ \A X \in SUBSET Entities : ~Flush(f, X)
          /\ \A p \in Pools : ~Begin(p) /\ ~Commit(p) /\ ~Rollback(p) /\ ~CommitFails(p)
      BY DEF Change, NewFlusher, Flush, Begin, Commit, Rollback, CommitFails
    <2> QED
      BY <2>1, <2>2, <2>4, <2>5, <2>6, <2>7, <2>8, <2>9, StepIs
  <1>3. ASSUME pc' = "idle", NEW p \in Pools, tx'[p] = "open", p \notin outer
        PROVE  \E q \in Pools : tx[q] = "broken"
    <2>1. CASE Return
      <3>1. tx' = tx /\ pc = "commit" /\ left = {}
        BY <2>1 DEF Return
      <3> QED
        BY <1>3, <3>1 DEF OpenedBy
    <2>2. CASE FlushPanics
      <3>1. PICK Q \in SUBSET PoolsOf(tracked[cur]) :
              /\ (\A q \in PoolsOf(tracked[cur]) : tx[q] # "broken") => Q = PoolsOf(tracked[cur])
              /\ \A q \in Pools : tx'[q] = IF q \in Q THEN "none" ELSE tx[q]
        BY <2>2, PanicIs
      <3>2. PoolsOf(tracked[cur]) \subseteq Pools
        <4>1. cur \in Flushers /\ tracked \in [Flushers -> SUBSET Entities]
          BY <2>2, PanicIs DEF Typed, TypeOK
        <4>2. \A x \in Entities : Pool(x) \in Pools
          BY SetupIs DEF Typed, TypeOK
        <4> QED
          BY <4>1, <4>2 DEF PoolsOf
      <3>3. p \notin Q /\ tx[p] = "open"
        BY <1>3, <3>1
      <3>4. p \in PoolsOf(tracked[cur])
        BY <1>3, <3>3 DEF OpenedBy
      <3> QED
        BY <3>1, <3>2, <3>3, <3>4
    <2>3. CASE Overflow
      BY <1>3, <2>3, OverflowIs
    <2>4. CASE Executes
      <3>1. PICK q \in Pools, W \in SUBSET Writes, V \in SUBSET Writes : Statement(q, W, V)
        BY <1>0, <2>4, StatementIs
      <3> QED
        BY <1>3, <3>1 DEF Statement
    <2>5. CASE Build
      BY <1>3, <2>5, BuildIs DEF Refused, Split, Collects
    <2>6. CASE Caches
      BY <1>3, <2>6, CachesIs
    <2>7. CASE Moves \/ UNCHANGED vars
      BY <1>3, <2>7 DEF Moves, Inserted, Updated, Deleted, vars
    <2>8. /\ \A x \in Entities : ~Change(x)
          /\ \A f \in Flushers : ~NewFlusher(f) /\ \A X \in SUBSET Entities : ~Flush(f, X)
          /\ \A q \in Pools : ~Begin(q) /\ ~Commit(q) /\ ~Rollback(q) /\ ~CommitFails(q)
      BY DEF Change, NewFlusher, Flush, Begin, Commit, Rollback, CommitFails
    <2>9. \A q \in Pools : ~FlushCommit(q)
      BY <1>3 DEF FlushCommit
    <2> QED
      BY <2>1, <2>2, <2>3, <2>4, <2>5, <2>6, <2>7, <2>8, <2>9, StepIs
  <1> QED
    BY <1>2, <1>3

\* The transactions and calls of flush, always.
Transactions == Typed /\ Calls /\ PoolsApart /\ OpenedBy /\ HeldForCommit

LEMMA TransactionsAlways == Spec => []Transactions
  <1>1. Init => Transactions
    BY TypedInit, CallsInit, ApartInit, OpenedInit, HeldInit DEF Transactions
  <1>2. Transactions /\ [Next]_vars => Transactions'
    BY TypedNext, CallsNext, ApartNext, OpenedNext, HeldNext DEF Transactions
  <1> QED
    BY <1>1, <1>2, PTL DEF Spec

\* Flush commits no transaction that the program began around it, and when it is
\* over, by a return or a panic, it has left none of its own open, unless one was
\* broken by a COMMIT that failed (flushTrackedEntities, its deferred function).
THEOREM FlushLeavesTransactionsAlone == Spec => LeavesTransactionsAlone
  <1>1. Transactions /\ [Next]_vars => [Alone]_vars
    BY AloneNext DEF Transactions
  <1>2. Spec => [][Alone]_vars
    BY <1>1, TransactionsAlways, PTL DEF Spec
  <1> QED
    BY <1>2 DEF LeavesTransactionsAlone, Alone

-----------------------------------------------------------------------------
(* What the queues hold has been, or will be, executed.                    *)

AllOpen == UNION {open[p] : p \in Pools}

\* MySQL has taken w, or w is lost and both kinds of queues are known to keep it.
Done(w) == w \in committed \cup AllOpen \/ (w \in kept.queue /\ w \in kept.sets)

\* The last call on the stack is to execute w.
Waits(w) == LET c == stack[Len(stack)] IN c.root /\ w.x \in c.ents /\ state[w.x] # "new"

Statements ==
    /\ pc \in {"build", "insert"} => \A w \in updates[cur] : Done(w) \/ Waits(w)
    /\ pc = "update" => \A w \in updates[cur] : Done(w) \/ Pool(w.x) \in left
    /\ pc \in {"delete", "commit"} => \A w \in updates[cur] : Done(w)
    /\ pc = "caches" => \A w \in updates[cur] : Done(w) \/ (~Top.root /\ Waits(w))

\* Updates that a panic has left to a flusher.
LeftOver ==
    /\ \A f \in Flushers \ {cur} : \A w \in updates[f] :
          w \in committed \/ (w \in kept.queue /\ w \in kept.sets)
    /\ \A f \in Flushers : updates[f] \subseteq localSets[f]

\* The updates that the flusher that flushes has not lost, when o is its own.
OwnUpdates(o) == IF cur # None /\ rf[cur] = o THEN updates[cur] ELSE {}

QueuesBacked ==
    /\ \A o \in Objects :
          o = afterRedis \/ (\E f \in Flushers : rf[f] = o) =>
            queue[o] \subseteq committed \cup AllOpen \cup kept.queue \cup OwnUpdates(o)
    /\ cur # None => updates[cur] \subseteq committed \cup kept.queue \cup Holds(rf[cur])

SetsBacked ==
    /\ \A f \in Flushers : localSets[f] \subseteq
          committed \cup kept.sets \cup (IF f = cur THEN AllOpen \cup updates[f] ELSE {})
    /\ afterLocal \subseteq committed \cup AllOpen \cup kept.sets
    /\ pc \in Running /\ Top.depth = 0 =>
          \A w \in localSets[cur] : w \in committed \cup kept.sets \/ w.x \in tracked[cur]

\* Nothing that was done is undone.
Grows ==
    /\ committed \subseteq committed' /\ kept.queue \subseteq kept'.queue /\ kept.sets \subseteq kept'.sets
    /\ AllOpen \subseteq committed' \cup AllOpen' \cup (kept'.queue \cap kept'.sets)

\* Rollbacks, a panic and the end of the process undo what was open.
Undoes == (\E p \in Pools : Rollback(p)) \/ FlushPanics \/ Overflow

\* Steps of a pool.
LEMMA GrowsPool ==
  ASSUME Typed, NEW p \in Pools, Begin(p) \/ Commit(p) \/ CommitFails(p) \/ FlushCommit(p)
  PROVE  Grows
  <1> USE DEF entityVars, poolVars, flusherVars, engineVars, callVars, countVars, whyVars, Running
  <1>1. open \in [Pools -> SUBSET Writes] /\ kept \in [queue : SUBSET Writes, sets : SUBSET Writes]
    BY DEF Typed, TypeOK
  <1>2. ASSUME UNCHANGED <<open, committed, kept>> PROVE Grows
    BY <1>2 DEF Grows, AllOpen
  <1>3. ASSUME Committed(p) PROVE Grows
    <2>1. /\ open' = [open EXCEPT ![p] = {}] /\ committed' = committed \cup open[p]
          /\ kept'.queue = kept.queue \cup ((published' \ published) \cap Elsewhere(p))
          /\ kept'.sets = kept.sets \cup (afterLocal \cap Elsewhere(p))
      BY <1>3, CommittedIs
    <2> QED
      BY <1>1, <2>1 DEF Grows, AllOpen
  <1>4. ASSUME CommitError(p), committed' = committed PROVE Grows
    <2>1. /\ open' = [open EXCEPT ![p] = {}]
          /\ kept'.queue = kept.queue \cup open[p] /\ kept'.sets = kept.sets \cup open[p]
      BY <1>4 DEF CommitError
    <2> QED
      BY <1>1, <1>4, <2>1 DEF Grows, AllOpen
  <1> QED
    BY <1>2, <1>3, <1>4 DEF Begin, Commit, CommitFails, FlushCommit

LEMMA GrowsNext ==
  ASSUME Typed, [Next]_vars, ~Undoes
  PROVE  Grows
  <1> USE DEF entityVars, poolVars, flusherVars, engineVars, callVars, countVars, whyVars, Running
  <1>0. setup' = setup
    BY StepIs
  <1>1. open \in [Pools -> SUBSET Writes] /\ kept \in [queue : SUBSET Writes, sets : SUBSET Writes]
    BY DEF Typed, TypeOK
  <1>2. ASSUME UNCHANGED <<open, committed>>, kept.queue \subseteq kept'.queue, kept.sets \subseteq kept'.sets
        PROVE  Grows
    BY <1>2 DEF Grows, AllOpen
  <1>5. ASSUME NEW p \in Pools, Begin(p) \/ Commit(p) \/ CommitFails(p) \/ FlushCommit(p) PROVE Grows
    BY <1>5, GrowsPool
  <1>6. CASE Executes
    <2>1. PICK p \in Pools, W \in SUBSET Writes, V \in SUBSET Writes : Statement(p, W, V)
      BY <1>0, <1>6, StatementIs
    <2>2. /\ (\A q \in Pools : open[q] \subseteq open'[q]) /\ committed \subseteq committed' /\ kept' = kept
      BY <2>1 DEF Statement
    <2> QED
      BY <2>2 DEF Grows, AllOpen
  <1>7. CASE Build
    BY <1>2, <1>7, BuildIs
  <1>8. CASE Caches
    <2>1. UNCHANGED <<open, committed>> /\ kept.queue \subseteq kept'.queue /\ kept.sets \subseteq kept'.sets
      BY <1>8, CachesIs
    <2> QED
      BY <1>2, <2>1
  <1>9. ASSUME NEW x \in Entities, Change(x) PROVE Grows
    BY <1>2, <1>9 DEF Change
  <1>10. ASSUME NEW f \in Flushers, NewFlusher(f) \/ \E X \in SUBSET Entities : Flush(f, X)
         PROVE  Grows
    BY <1>2, <1>10 DEF NewFlusher, Flush
  <1>11. CASE Moves \/ Return \/ UNCHANGED vars
    BY <1>2, <1>11 DEF Moves, Inserted, Updated, Deleted, Return, vars
  <1> QED
    BY <1>5, <1>6, <1>7, <1>8, <1>9, <1>10, <1>11, StepIs DEF Undoes

LEMMA KeptGrows ==
  ASSUME Typed, [Next]_vars
  PROVE  committed \subseteq committed' /\ kept.queue \subseteq kept'.queue /\ kept.sets \subseteq kept'.sets
  <1>1. CASE ~Undoes
    BY <1>1, GrowsNext DEF Grows
  <1>2. ASSUME NEW p \in Pools, Rollback(p)
        PROVE  committed \subseteq committed' /\ kept.queue \subseteq kept'.queue /\ kept.sets \subseteq kept'.sets
    <2>1. kept' = [kept EXCEPT !.queue = @ \cup Surviving] /\ committed' = committed
      BY <1>2 DEF Rollback
    <2>2. kept \in [queue : SUBSET Writes, sets : SUBSET Writes]
      BY DEF Typed
    <2> QED
      BY <2>1, <2>2
  <1>3. CASE FlushPanics
    <2>1. /\ committed' = committed /\ kept.queue \subseteq kept'.queue
          /\ kept'.sets = kept.sets \/ kept'.sets = kept.sets \cup (localSets[cur] \ committed)
      BY <1>3, PanicIs
    <2> QED
      BY <2>1
  <1>4. CASE Overflow
    BY <1>4, OverflowIs
  <1> QED
    BY <1>1, <1>2, <1>3, <1>4 DEF Undoes

LEMMA DoneStays ==
  ASSUME Grows, NEW w, Done(w)
  PROVE  Done(w)'
  BY DEF Grows, Done

LEMMA StatementsInit == Init => Statements /\ LeftOver
  BY DEF Init, Statements, LeftOver

LEMMA StatementsBuild ==
  ASSUME Typed, Calls, Statements, Build, setup' = setup, Grows
  PROVE  Statements'
  <1>0. /\ pc = "build" /\ cur \in Flushers /\ Top \in Frames /\ stack # << >>
        /\ Ready \subseteq Top.ents /\ Top.ents \subseteq Entities
        /\ (\A w \in DirtyWrites : w.x \in Ready /\ state[w.x] = "dirty" /\ w.op = "U")
        /\ (\A x \in Referred : state[x] = "new")
        /\ (\A x \in Entities : state'[x] = IF x \in Ready /\ state[x] = "dirty" THEN "clean" ELSE state[x])
        /\ updates' = [updates EXCEPT ![cur] = @ \cup DirtyWrites]
        /\ Refused \/ Split \/ Collects
        /\ UNCHANGED <<tracked, cur>>
    BY BuildIs
  <1>1. updates'[cur] = updates[cur] \cup DirtyWrites /\ updates[cur] \subseteq Writes
    BY <1>0 DEF Typed, TypeOK
  <1>2. /\ stack \in Seq(Frames) /\ Len(stack) \in Nat /\ Len(stack) >= 1 /\ Top = stack[1] /\ FrameOK(1)
    <2>1. stack \in Seq(Frames)
      BY DEF Typed
    <2>2. Top = stack[1] /\ Len(stack) \in Nat /\ Len(stack) >= 1
      BY <1>0, <2>1, PopIs DEF Top
    <2> QED
      BY <1>0, <2>1, <2>2 DEF Calls, FramesOK, Running
  \* Entities with updates to build are those of the last call.
  <1>3. \A w \in DirtyWrites : Len(stack) = 1 /\ Top.root
    <2> SUFFICES ASSUME NEW w \in DirtyWrites PROVE Len(stack) = 1 /\ Top.root
      OBVIOUS
    <2>1. w.x \in stack[1].ents /\ state[w.x] = "dirty"
      BY <1>0, <1>2
    <2> QED
      BY <1>2, <2>1 DEF FrameOK
  <1>4. \A w \in updates'[cur] : Done(w)' \/ (stack[Len(stack)].root /\ w.x \in stack[Len(stack)].ents
                                               /\ w.x \in Entities /\ state[w.x] # "new" /\ state'[w.x] # "new")
    <2> SUFFICES ASSUME NEW w \in updates'[cur], ~Done(w)'
                 PROVE  stack[Len(stack)].root /\ w.x \in stack[Len(stack)].ents
                          /\ w.x \in Entities /\ state[w.x] # "new" /\ state'[w.x] # "new"
      OBVIOUS
    <2>1. CASE w \in updates[cur]
      <3>1. Waits(w)
        BY <1>0, <2>1, DoneStays DEF Statements
      <3>2. w.x \in Entities
        BY <1>1, <2>1 DEF Writes
      <3> QED
        BY <1>0, <3>1, <3>2 DEF Waits
    <2>2. CASE w \in DirtyWrites
      BY <1>0, <1>2, <1>3, <2>2
    <2> QED
      BY <1>1, <2>1, <2>2
  <1>5. CASE Refused
    BY <1>5 DEF Refused, Statements
  <1>6. CASE Collects
    <2>1. pc' = "insert" /\ stack' = stack
      BY <1>6 DEF Collects
    <2> QED
      BY <1>0, <1>4, <2>1 DEF Statements, Waits
  <1>7. CASE Split
    <2>1. /\ pc' = "build"
          /\ Rest = {} => /\ Len(stack') = Len(stack)
                          /\ \A i \in 2 .. Len(stack') : stack'[i] = stack[i]
          /\ Rest # {} => /\ Len(stack') = Len(stack) + 1
                          /\ stack'[2] = Frame(Top.depth + 1, TRUE, Inside, Rest)
                          /\ \A i \in 3 .. Len(stack') : stack'[i] = stack[i - 1]
      BY <1>0, <1>7, PushedIs DEF Split
    <2>2. ASSUME NEW w, stack[Len(stack)].root, w.x \in stack[Len(stack)].ents, state[w.x] # "new"
          PROVE  stack'[Len(stack')].root /\ w.x \in stack'[Len(stack')].ents
      <3>1. CASE Len(stack) = 1
        <4>1. w.x \in Rest
          BY <1>0, <1>2, <2>2, <3>1 DEF Rest
        <4>2. Rest # {}
          BY <4>1
        <4>3. Len(stack') = Len(stack) + 1 /\ stack'[2] = Frame(Top.depth + 1, TRUE, Inside, Rest)
          BY <2>1, <4>2
        <4>4. Len(stack') = 2 /\ stack'[2] = Frame(Top.depth + 1, TRUE, Inside, Rest)
          BY <3>1, <4>3
        <4> QED
          BY <4>1, <4>4 DEF Frame
      <3>2. CASE Len(stack) # 1
        <4>1. CASE Rest = {}
          <5>1. Len(stack') = Len(stack) /\ Len(stack) \in 2 .. Len(stack)
            BY <1>2, <2>1, <3>2, <4>1
          <5>2. stack'[Len(stack')] = stack[Len(stack)]
            BY <2>1, <4>1, <5>1
          <5> QED
            BY <2>2, <5>2
        <4>2. CASE Rest # {}
          <5>1. Len(stack') = Len(stack) + 1
            BY <2>1, <4>2
          <5>2. \A n \in Nat : n >= 1 /\ n # 1 => n + 1 \in 3 .. n + 1
            OBVIOUS
          <5>3. Len(stack') = Len(stack) + 1 /\ Len(stack) + 1 \in 3 .. Len(stack')
            BY <1>2, <3>2, <5>1, <5>2
          <5>4. stack'[Len(stack')] = stack[(Len(stack) + 1) - 1]
            BY <2>1, <4>2, <5>3
          <5>5. (Len(stack) + 1) - 1 = Len(stack)
            BY <1>2
          <5> QED
            BY <2>2, <5>4, <5>5
        <4> QED
          BY <4>1, <4>2
      <3> QED
        BY <3>1, <3>2
    <2>3. \A w \in updates'[cur] : Done(w)' \/ Waits(w)'
      BY <1>4, <2>2 DEF Waits
    <2> QED
      BY <1>0, <2>1, <2>3 DEF Statements
  <1> QED
    BY <1>0, <1>5, <1>6, <1>7

LEMMA StatementsNext == Typed /\ Calls /\ Statements /\ LeftOver /\ [Next]_vars => Statements'
  <1> SUFFICES ASSUME Typed, Calls, Statements, LeftOver, [Next]_vars PROVE Statements'
    OBVIOUS
  <1> USE DEF entityVars, poolVars, flusherVars, engineVars, callVars, countVars, whyVars, Running
  <1>0. setup' = setup
    BY StepIs
  <1>1. ASSUME pc' \in {"idle", "fail"} PROVE Statements'
    BY <1>1 DEF Statements
  <1>2. CASE Undoes
    BY <1>1, <1>2 DEF Undoes, Rollback, FlushPanics, Overflow
  <1>3. CASE ~Undoes
    <2>0. Grows
      BY <1>3, GrowsNext
    <2>1. ASSUME NEW f \in Flushers, NEW X \in SUBSET Entities, Flush(f, X) PROVE Statements'
      <3>1. pc = "idle" /\ pc' = "build" /\ cur' = f /\ updates' = updates
        BY <2>1 DEF Flush
      <3>2. cur = None /\ f # None
        BY <3>1, ObjectsAssumption DEF Typed, TypeOK
      <3>3. \A w \in updates[f] : Done(w)
        BY <3>2 DEF LeftOver, Done
      <3> QED
        BY <2>0, <3>1, <3>3, DoneStays DEF Statements
    <2>2. ASSUME NEW p \in Pools, FlushCommit(p) PROVE Statements'
      <3>1. pc = "commit" /\ pc' \in {"commit", "fail"} /\ cur' = cur /\ updates' = updates
        BY <2>2 DEF FlushCommit
      <3> QED
        BY <2>0, <3>1, DoneStays DEF Statements
    <2>3. CASE Executes
      <3>1. PICK p \in Pools, W \in SUBSET Writes, V \in SUBSET Writes : Statement(p, W, V)
        BY <1>0, <2>3, StatementIs
      <3>2. /\ pc \in Running /\ pc' \in {pc, "fail"} /\ pc # "caches" /\ cur \in Flushers
            /\ UNCHANGED <<cur, updates, stack, tx>>
            /\ (\A x \in Entities : state'[x] \in {state[x], "clean"})
            /\ (pc' = "update" => left' = left \ {p} /\ \A w \in updates[cur] : Pool(w.x) = p => w \in W)
            /\ (\A w \in W : Pool(w.x) = p)
            /\ W \subseteq committed' \cup AllOpen'
        <4>1. W \subseteq committed' \cup AllOpen'
          BY <3>1 DEF Statement, AllOpen
        <4> QED
          BY <3>1, <4>1 DEF Statement
      <3>3. updates[cur] \subseteq Writes /\ \A w \in Writes : w.x \in Entities
        BY <3>2 DEF Typed, TypeOK, Writes
      <3>4. \A w \in updates[cur] : Waits(w) => Waits(w)'
        BY <3>2, <3>3 DEF Waits
      <3>5. \A w : Pool(w.x)' = Pool(w.x)
        BY <1>0 DEF Pool, PoolOf
      <3>6. CASE pc' = "fail"
        BY <1>1, <3>6
      <3>7. CASE pc' \in {"build", "insert"}
        BY <2>0, <3>2, <3>4, <3>7, DoneStays DEF Statements
      <3>8. CASE pc' = "update"
        <4>1. \A w \in updates[cur] : w \in W => Done(w)'
          BY <3>2 DEF Done
        <4>2. \A w \in updates[cur] : Done(w)' \/ Pool(w.x) \in left'
          BY <2>0, <3>2, <3>8, <4>1, DoneStays DEF Statements
        <4> QED
          BY <3>2, <3>5, <3>8, <4>2 DEF Statements
      <3>9. CASE pc' = "delete"
        BY <2>0, <3>2, <3>9, DoneStays DEF Statements
      <3> QED
        BY <3>2, <3>6, <3>7, <3>8, <3>9
    <2>4. CASE Build
      BY <1>0, <2>0, <2>4, StatementsBuild
    <2>5. CASE Inserted
      <3>1. /\ pc = "insert" /\ pc' = (IF Top.root THEN "update" ELSE "caches")
            /\ left' = (IF Top.root THEN PoolsOf(EntitiesOf(updates[cur])) ELSE {})
            /\ UNCHANGED <<state, updates, cur, stack>>
        BY <2>5 DEF Inserted
      <3>2. \A w \in updates[cur] : Top.root => Pool(w.x)' \in left'
        BY <1>0, <3>1 DEF PoolsOf, EntitiesOf, Pool, PoolOf
      <3>3. \A w \in updates[cur] : Waits(w) => Waits(w)'
        BY <3>1 DEF Waits
      <3>4. Top' = Top
        BY <3>1 DEF Top
      <3>5. CASE Top.root
        BY <3>1, <3>2, <3>5 DEF Statements
      <3>6. CASE ~Top.root
        BY <2>0, <3>1, <3>3, <3>4, <3>6, DoneStays DEF Statements
      <3> QED
        BY <3>5, <3>6
    <2>6. CASE Updated
      <3>1. pc = "update" /\ left = {} /\ pc' = "delete" /\ UNCHANGED <<updates, cur>>
        BY <2>6 DEF Updated
      <3> QED
        BY <2>0, <3>1, DoneStays DEF Statements
    <2>7. CASE Deleted
      <3>1. pc = "delete" /\ pc' = "caches" /\ UNCHANGED <<updates, cur>>
        BY <2>7 DEF Deleted
      <3> QED
        BY <2>0, <3>1, DoneStays DEF Statements
    <2>8. CASE Caches
      <3>1. /\ pc = "caches" /\ cur \in Flushers
            /\ stack' \in Seq(Frames) /\ Len(stack') = Len(stack) - 1
            /\ Len(stack) \in Nat /\ Len(stack) >= 1 /\ Top = stack[1]
            /\ (\A i \in 1 .. Len(stack') : stack'[i] = stack[i + 1])
            /\ (stack' = << >> <=> Len(stack) = 1)
            /\ pc' = (IF stack' = << >> THEN "commit" ELSE "build")
            /\ UNCHANGED <<state, updates, cur>>
        BY <2>8, CachesIs
      <3>2. CASE stack' = << >>
        <4>1. \A w \in updates[cur] : Done(w)
          BY <3>1, <3>2 DEF Statements, Waits
        <4> QED
          BY <2>0, <3>1, <3>2, <4>1, DoneStays DEF Statements
      <3>3. CASE stack' # << >>
        <4>1. Len(stack') \in 1 .. Len(stack') /\ Len(stack') + 1 = Len(stack)
          BY <3>1, <3>3
        <4>2. stack'[Len(stack')] = stack[Len(stack)]
          BY <3>1, <4>1
        <4>3. \A w \in updates[cur] : Waits(w) => Waits(w)'
          BY <3>1, <4>2 DEF Waits
        <4> QED
          BY <2>0, <3>1, <3>3, <4>3, DoneStays DEF Statements
      <3> QED
        BY <3>2, <3>3
    <2>9. CASE UNCHANGED vars
      <3>1. UNCHANGED <<setup, state, updates, cur, stack, left, pc, committed, open, kept>>
        BY <2>9 DEF vars
      <3> QED
        BY <3>1 DEF Statements, Done, Waits, AllOpen, Top, Pool, PoolOf
    <2>10. ASSUME NEW x \in Entities, Change(x) PROVE Statements'
      BY <1>1, <2>10 DEF Change
    <2>11. ASSUME NEW f \in Flushers, NewFlusher(f) PROVE Statements'
      BY <1>1, <2>11 DEF NewFlusher
    <2>12. ASSUME NEW p \in Pools, Begin(p) \/ Commit(p) \/ CommitFails(p) PROVE Statements'
      BY <1>1, <2>12 DEF Begin, Commit, CommitFails
    <2>13. CASE Return
      BY <1>1, <2>13 DEF Return
    <2> QED
      BY <1>3, <2>1, <2>2, <2>3, <2>4, <2>5, <2>6, <2>7, <2>8, <2>9, <2>10, <2>11, <2>12, <2>13, StepIs
         DEF Moves, Undoes
  <1> QED
    BY <1>2, <1>3

\* What the updates and cached rows of the flushers become in a step.
LEMMA LeftOverNext ==
  Typed /\ LeftOver /\ QueuesBacked /\ SetsBacked /\ [Next]_vars => LeftOver'
  <1> SUFFICES ASSUME Typed, LeftOver, QueuesBacked, SetsBacked, [Next]_vars PROVE LeftOver'
    OBVIOUS
  <1> USE DEF entityVars, poolVars, flusherVars, engineVars, callVars, countVars, whyVars, Running
  <1>0. setup' = setup
    BY StepIs
  <1>1. /\ updates \in [Flushers -> SUBSET Writes] /\ localSets \in [Flushers -> SUBSET Writes]
        /\ kept \in [queue : SUBSET Writes, sets : SUBSET Writes]
    BY DEF Typed, TypeOK
  <1>2. ASSUME committed \subseteq committed', kept.queue \subseteq kept'.queue, kept.sets \subseteq kept'.sets,
               updates' = updates, cur' = cur \/ cur = None, \A f \in Flushers : localSets[f] \subseteq localSets'[f]
        PROVE  LeftOver'
    <2>1. \A f \in Flushers : f # cur' => f # cur
      BY <1>2, ObjectsAssumption
    <2> QED
      BY <1>2, <2>1 DEF LeftOver
  <1>3. CASE Executes
    <2>1. PICK p \in Pools, W \in SUBSET Writes, V \in SUBSET Writes : Statement(p, W, V)
      BY <1>0, <1>3, StatementIs
    <2>2. /\ cur \in Flushers /\ localSets' = [localSets EXCEPT ![cur] = @ \cup V]
          /\ UNCHANGED <<updates, cur, kept>> /\ committed \subseteq committed'
      BY <2>1 DEF Statement, Enqueued
    <2> QED
      BY <1>1, <1>2, <2>2
  <1>4. CASE Build
    <2>1. /\ cur \in Flushers /\ updates' = [updates EXCEPT ![cur] = @ \cup DirtyWrites]
          /\ UNCHANGED <<committed, kept, cur>> /\ DirtyWrites \in SUBSET Writes /\ Queued(cur, DirtyWrites)
      BY <1>4, BuildIs
    <2>2. localSets' = [localSets EXCEPT ![cur] = @ \cup DirtyWrites]
      BY <2>1, QueuedIs DEF Enqueued
    <2> QED
      BY <1>1, <2>1, <2>2 DEF LeftOver
  <1>5. CASE Caches
    <2>1. /\ UNCHANGED <<committed, updates, localSets, cur>>
          /\ kept.queue \subseteq kept'.queue /\ kept.sets \subseteq kept'.sets
      BY <1>5, CachesIs
    <2> QED
      BY <1>2, <2>1
  <1>6. ASSUME NEW p \in Pools, Begin(p) \/ Commit(p) \/ Rollback(p) \/ CommitFails(p) \/ FlushCommit(p)
        PROVE  LeftOver'
    <2>1. updates' = updates /\ localSets' = localSets /\ cur' = cur
      BY <1>6 DEF Begin, Commit, Rollback, CommitFails, FlushCommit
    <2> QED
      BY <1>2, <2>1, KeptGrows
  <1>7. ASSUME \A f \in Flushers : updates'[f] = {} \/ (updates'[f] = updates[f] /\ localSets'[f] = localSets[f] /\ f # cur),
               cur' = cur \/ cur' = None
        PROVE  LeftOver'
    BY <1>7, KeptGrows DEF LeftOver
  <1>8. ASSUME NEW f \in Flushers, NewFlusher(f) PROVE LeftOver'
    <2>1. pc = "idle" /\ updates' = [updates EXCEPT ![f] = {}] /\ localSets' = [localSets EXCEPT ![f] = {}] /\ cur' = cur
      BY <1>8 DEF NewFlusher, Fresh
    <2>2. cur = None
      BY <2>1 DEF Typed, TypeOK
    <2> QED
      BY <1>1, <1>7, <2>1, <2>2, ObjectsAssumption
  <1>9. CASE Return
    <2>1. /\ cur' = None /\ updates' = [updates EXCEPT ![cur] = {}] /\ localSets' = [localSets EXCEPT ![cur] = {}]
      BY <1>9 DEF Return, Fresh
    <2> QED
      BY <1>1, <1>7, <2>1
  <1>10. CASE FlushPanics
    <2>1. /\ cur \in Flushers /\ cur' = None
          /\ (\A g \in Flushers \ {cur} : updates'[g] = updates[g] /\ localSets'[g] = localSets[g])
          /\ kept'.queue = kept.queue \cup Surviving /\ committed' = committed
          /\ \/ updates'[cur] = {}
             \/ /\ updates' = updates /\ localSets' = localSets
                /\ kept'.sets = kept.sets \cup (localSets[cur] \ committed)
      BY <1>10, PanicIs
    <2>2. CASE updates'[cur] = {}
      BY <1>7, <2>1, <2>2
    <2>3. CASE /\ updates' = updates /\ localSets' = localSets
               /\ kept'.sets = kept.sets \cup (localSets[cur] \ committed)
      <3>1. updates[cur] \subseteq committed \cup kept'.queue
        <4>1. Holds(rf[cur]) \subseteq Surviving \cup committed
          BY <2>1, SurvivingIs
        <4>2. cur # None
          BY <2>1, ObjectsAssumption
        <4> QED
          BY <2>1, <4>1, <4>2 DEF QueuesBacked
      <3>2. updates[cur] \subseteq committed \cup kept'.sets
        BY <2>1, <2>3 DEF LeftOver
      <3>3. \A f \in Flushers : \A w \in updates[f] : w \in committed' \/ (w \in kept'.queue /\ w \in kept'.sets)
        BY <2>1, <3>1, <3>2, KeptGrows DEF LeftOver
      <3> QED
        BY <2>1, <2>3, <3>3 DEF LeftOver
    <2> QED
      BY <2>1, <2>2, <2>3
  <1>11. CASE Overflow
    <2>1. cur' = None /\ \A f \in Flushers : updates'[f] = {}
      BY <1>11, OverflowIs
    <2> QED
      BY <1>7, <2>1
  <1>12. ASSUME UNCHANGED <<updates, localSets>>, cur' = cur \/ cur = None
         PROVE  LeftOver'
    BY <1>2, <1>12, KeptGrows
  <1>13. ASSUME NEW f \in Flushers, NEW X \in SUBSET Entities, Flush(f, X) PROVE LeftOver'
    <2>1. pc = "idle" /\ UNCHANGED <<updates, localSets>>
      BY <1>13 DEF Flush
    <2> QED
      BY <1>12, <2>1 DEF Typed, TypeOK
  <1>14. CASE Moves \/ UNCHANGED vars
    BY <1>12, <1>14 DEF Moves, Inserted, Updated, Deleted, vars
  <1>15. ASSUME NEW x \in Entities, Change(x) PROVE LeftOver'
    BY <1>12, <1>15 DEF Change
  <1> QED
    BY <1>3, <1>4, <1>5, <1>6, <1>8, <1>9, <1>10, <1>11, <1>13, <1>14, <1>15, StepIs

LEMMA QueuesInit == Init => QueuesBacked
  BY DEF Init, QueuesBacked, Holds

\* Queues that are left alone, or that nobody holds any more.
LEMMA QueuesStay ==
  ASSUME Typed, QueuesBacked, Grows, UNCHANGED <<queue, cur>>,
         afterRedis' \in {afterRedis, None}, \A f \in Flushers : rf'[f] \in {rf[f], None},
         cur # None => rf'[cur] = rf[cur] /\ updates'[cur] = updates[cur]
  PROVE  QueuesBacked'
  <1>1. \A o \in Objects : OwnUpdates(o)' = OwnUpdates(o)
    BY DEF OwnUpdates
  <1>2. ASSUME NEW o \in Objects, o = afterRedis' \/ \E f \in Flushers : rf'[f] = o
        PROVE  queue'[o] \subseteq committed' \cup AllOpen' \cup kept'.queue \cup OwnUpdates(o)'
    <2>1. o # None
      BY ObjectsAssumption
    <2>2. o = afterRedis \/ \E f \in Flushers : rf[f] = o
      BY <1>2, <2>1
    <2> QED
      BY <1>1, <2>2 DEF QueuesBacked, Grows
  <1>3. cur # None => Holds(rf[cur])' = Holds(rf[cur])
    BY DEF Holds
  <1>4. cur' # None => updates'[cur'] \subseteq committed' \cup kept'.queue \cup Holds(rf[cur])'
    BY <1>3 DEF QueuesBacked, Grows
  <1> QED
    BY <1>2, <1>4 DEF QueuesBacked

\* What a flush queues it has executed, or is to execute.
LEMMA QueuesGrow ==
  ASSUME Typed, QueuesBacked, Grows, cur \in Flushers, UNCHANGED <<cur, afterRedis>>,
         NEW V \in SUBSET Writes, NEW U \in SUBSET V, Enqueued(cur, V),
         updates'[cur] = updates[cur] \cup U, V \subseteq committed' \cup AllOpen' \cup U
  PROVE  QueuesBacked'
  <1>0. cur # None /\ queue \in [Objects -> SUBSET Writes] /\ rf \in [Flushers -> Objects \cup {None}]
    BY ObjectsAssumption DEF Typed, TypeOK
  <1>1. CASE V = {} /\ rf' = rf /\ queue' = queue
    <2>1. updates'[cur] = updates[cur]
      BY <1>1
    <2> QED
      BY <1>1, <2>1, QueuesStay
  <1>2. CASE /\ rf'[cur] \in Objects
             /\ rf[cur] = None => IF afterRedis # None THEN rf'[cur] = afterRedis
                                  ELSE \A g \in Flushers : rf[g] # rf'[cur]
             /\ \A o \in Objects \ {rf'[cur]} : queue'[o] = queue[o]
             /\ queue'[rf'[cur]] = IF rf[cur] = None /\ afterRedis = None THEN V
                                   ELSE queue[rf'[cur]] \cup V
    <2>1. rf'[cur] # None /\ (rf[cur] # None => rf'[cur] = rf[cur])
          /\ \A g \in Flushers \ {cur} : rf'[g] = rf[g]
      BY <1>2, ObjectsAssumption DEF Enqueued
    <2>2. ASSUME NEW o \in Objects, o # rf'[cur], o = afterRedis' \/ \E f \in Flushers : rf'[f] = o
          PROVE  queue'[o] \subseteq committed' \cup AllOpen' \cup kept'.queue \cup OwnUpdates(o)'
      <3>1. o = afterRedis \/ \E f \in Flushers : rf[f] = o
        BY <2>1, <2>2
      <3>2. rf[cur] # o
        BY <2>1, <2>2, ObjectsAssumption
      <3>3. OwnUpdates(o) = {}
        BY <3>2 DEF OwnUpdates
      <3> QED
        BY <1>2, <2>2, <3>1, <3>3 DEF QueuesBacked, Grows
    <2>3. ASSUME NEW o \in Objects, o = rf'[cur]
          PROVE  queue'[o] \subseteq committed' \cup AllOpen' \cup kept'.queue \cup OwnUpdates(o)'
      <3>1. OwnUpdates(o)' = updates[cur] \cup U
        BY <1>0, <2>3 DEF OwnUpdates
      <3>2. CASE rf[cur] = None /\ afterRedis = None
        BY <1>2, <2>3, <3>1, <3>2
      <3>3. CASE ~(rf[cur] = None /\ afterRedis = None)
        <4>1. o = afterRedis \/ \E f \in Flushers : rf[f] = o
          BY <1>2, <2>1, <2>3, <3>3
        <4>2. OwnUpdates(o) \subseteq updates[cur]
          BY DEF OwnUpdates
        <4>3. queue[o] \subseteq committed \cup AllOpen \cup kept.queue \cup updates[cur]
          BY <4>1, <4>2 DEF QueuesBacked
        <4> QED
          BY <1>2, <2>3, <3>1, <3>3, <4>3 DEF Grows
      <3> QED
        BY <3>2, <3>3
    <2>4. updates'[cur'] \subseteq committed' \cup kept'.queue \cup Holds(rf[cur])'
      <3>1. Holds(rf[cur])' = queue'[rf'[cur]]
        BY <2>1 DEF Holds
      <3>2. Holds(rf[cur]) \subseteq queue'[rf'[cur]] /\ U \subseteq queue'[rf'[cur]]
        BY <1>0, <1>2, <2>1 DEF Holds
      <3> QED
        BY <1>0, <3>1, <3>2 DEF QueuesBacked, Grows
    <2> QED
      BY <2>2, <2>3, <2>4 DEF QueuesBacked
  <1> QED
    BY <1>1, <1>2 DEF Enqueued

\* A call that shows its writes right away is the outermost, with no transaction
\* open in the pools of the entities that the flusher tracks.
LEMMA OutermostShows ==
  ASSUME Typed, Calls, PoolsApart, pc = "caches", Top.root, ~inTx
  PROVE  Top.depth = 0 /\ AllOpen \subseteq Early /\ \A p \in PoolsOf(tracked[cur]) : open[p] = {}
  <1>1. /\ stack \in Seq(Frames) /\ stack # << >> /\ cur \in Flushers
        /\ open \in [Pools -> SUBSET Writes] /\ tracked \in [Flushers -> SUBSET Entities]
        /\ \A x \in Entities : Pool(x) \in Pools
    BY SetupIs DEF Typed, TypeOK, Running
  <1>2. Top = stack[1] /\ Len(stack) \in Nat /\ Len(stack) >= 1
    BY <1>1, PopIs DEF Top
  <1>3. FrameOK(1)
    BY <1>2 DEF Calls, FramesOK, Running
  <1>4. Top.depth = 0 /\ \A p \in PoolsOf(Top.ents) : tx[p] = "none"
    BY DEF Calls, TopOK, Running
  <1>5. Top.ents = tracked[cur]
    BY <1>2, <1>3, <1>4 DEF FrameOK
  <1>6. \A p \in PoolsOf(tracked[cur]) : p \in Pools /\ open[p] = {}
    <2>1. PoolsOf(tracked[cur]) \subseteq Pools
      BY <1>1 DEF PoolsOf
    <2> QED
      BY <1>4, <1>5, <2>1 DEF PoolsApart
  <1> QED
    BY <1>4, <1>6 DEF AllOpen, Early

LEMMA QueuesCaches ==
  ASSUME Typed, Calls, PoolsApart, Statements, QueuesBacked, ShownIsCommitted, Caches, Grows
  PROVE  QueuesBacked'
  <1>0. /\ pc = "caches" /\ cur \in Flushers /\ cur # None
        /\ kept'.queue = kept.queue \cup ((published' \ published) \cap Early)
        /\ (~inTx => /\ rf' = rf /\ afterRedis' = afterRedis
                     /\ published' = published \cup (IF Top.root THEN Holds(rf[cur]) ELSE {})
                     /\ \A o \in Objects : queue'[o] = IF Top.root /\ o = rf[cur] THEN {} ELSE queue[o])
        /\ (inTx => UpdateRedisCache)
        /\ UNCHANGED <<committed, open, updates, cur>>
    BY CachesIs, ObjectsAssumption
  <1>1. /\ queue \in [Objects -> SUBSET Writes] /\ rf \in [Flushers -> Objects \cup {None}]
        /\ updates[cur] \subseteq Writes
    BY <1>0 DEF Typed, TypeOK
  <1>2. \A o \in Objects : OwnUpdates(o) \subseteq updates[cur] /\ (rf[cur] # o => OwnUpdates(o) = {})
    BY DEF OwnUpdates
  <1>3. CASE inTx
    <2>1. /\ (\A g \in Flushers \ {cur} : rf'[g] = rf[g])
          /\ rf'[cur] \in Objects /\ afterRedis' = rf'[cur]
          /\ (rf[cur] # None => rf'[cur] = rf[cur])
          /\ (rf[cur] = None => IF afterRedis # None THEN rf'[cur] = afterRedis
                                ELSE \A g \in Flushers : rf[g] # rf'[cur])
          /\ (\A o \in Objects \ {rf'[cur]} : queue'[o] = queue[o])
          /\ queue'[rf'[cur]] = IF rf[cur] = None /\ afterRedis = None THEN {} ELSE queue[rf'[cur]]
      BY <1>0, <1>3, HandedOver
    <2>2. ASSUME NEW o \in Objects, o = afterRedis' \/ \E f \in Flushers : rf'[f] = o
          PROVE  queue'[o] \subseteq committed' \cup AllOpen' \cup kept'.queue \cup OwnUpdates(o)'
      <3>1. CASE o = rf'[cur]
        <4>1. OwnUpdates(o)' = updates[cur]
          BY <1>0, <3>1 DEF OwnUpdates
        <4>2. CASE rf[cur] = None /\ afterRedis = None
          BY <2>1, <3>1, <4>2
        <4>3. CASE ~(rf[cur] = None /\ afterRedis = None)
          <5>1. o = afterRedis \/ \E f \in Flushers : rf[f] = o
            BY <1>0, <2>1, <3>1, <4>3
          <5>2. queue[o] \subseteq committed \cup AllOpen \cup kept.queue \cup updates[cur]
            BY <1>2, <5>1 DEF QueuesBacked
          <5> QED
            BY <2>1, <3>1, <4>1, <4>3, <5>2 DEF Grows
        <4> QED
          BY <4>2, <4>3
      <3>2. CASE o # rf'[cur]
        <4>1. rf[cur] # o
          BY <2>1, <3>2, ObjectsAssumption
        <4>2. \E f \in Flushers : rf[f] = o
          BY <2>1, <2>2, <3>2
        <4>3. queue[o] \subseteq committed \cup AllOpen \cup kept.queue
          BY <1>2, <4>1, <4>2 DEF QueuesBacked
        <4> QED
          BY <2>1, <3>2, <4>3 DEF Grows
      <3> QED
        BY <3>1, <3>2
    <2>3. updates'[cur'] \subseteq committed' \cup kept'.queue \cup Holds(rf[cur])'
      <3>1. Holds(rf[cur])' = queue'[rf'[cur]]
        BY <1>0, <2>1, ObjectsAssumption DEF Holds
      <3>2. Holds(rf[cur]) \subseteq queue'[rf'[cur]]
        BY <2>1 DEF Holds
      <3> QED
        BY <1>0, <3>1, <3>2 DEF QueuesBacked, Grows
    <2> QED
      BY <2>2, <2>3 DEF QueuesBacked
  <1>4. CASE ~inTx /\ ~Top.root
    <2>1. \A o \in Objects : queue'[o] = queue[o]
      BY <1>0, <1>4
    <2>2. ASSUME NEW o \in Objects, o = afterRedis' \/ \E f \in Flushers : rf'[f] = o
          PROVE  queue'[o] \subseteq committed' \cup AllOpen' \cup kept'.queue \cup OwnUpdates(o)'
      <3>1. OwnUpdates(o)' = OwnUpdates(o)
        BY <1>0, <1>4 DEF OwnUpdates
      <3> QED
        BY <1>0, <1>4, <2>1, <2>2, <3>1 DEF QueuesBacked, Grows
    <2>3. updates'[cur'] \subseteq committed' \cup kept'.queue \cup Holds(rf[cur])'
      <3>1. Holds(rf[cur])' = Holds(rf[cur])
        BY <1>0, <1>1, <1>4, <2>1 DEF Holds
      <3> QED
        BY <1>0, <3>1 DEF QueuesBacked, Grows
    <2> QED
      BY <2>2, <2>3 DEF QueuesBacked
  <1>5. CASE ~inTx /\ Top.root
    <2>1. AllOpen \subseteq Early
      BY <1>0, <1>5, OutermostShows
    <2>2. updates[cur] \subseteq committed' \cup kept'.queue
      <3> SUFFICES ASSUME NEW w \in updates[cur], w \notin committed, w \notin kept'.queue
                   PROVE  FALSE
        BY <1>0
      <3>1. w \notin kept.queue
        BY DEF Grows
      <3>2. w \in AllOpen
        BY <1>0, <1>5, <3>1 DEF Statements, Done
      <3>3. w \in Holds(rf[cur])
        BY <1>0, <3>1 DEF QueuesBacked
      <3>4. w \in published' /\ w \notin published
        BY <1>0, <1>5, <3>1, <3>3 DEF ShownIsCommitted
      <3> QED
        BY <1>0, <2>1, <3>2, <3>4
    <2>3. ASSUME NEW o \in Objects, o = afterRedis' \/ \E f \in Flushers : rf'[f] = o
          PROVE  queue'[o] \subseteq committed' \cup AllOpen' \cup kept'.queue \cup OwnUpdates(o)'
      <3>1. CASE o = rf[cur]
        BY <1>0, <1>5, <3>1
      <3>2. CASE o # rf[cur]
        <4>1. queue[o] \subseteq committed \cup AllOpen \cup kept.queue
          BY <1>0, <1>2, <1>5, <2>3, <3>2 DEF QueuesBacked
        <4> QED
          BY <1>0, <1>5, <3>2, <4>1 DEF Grows
      <3> QED
        BY <3>1, <3>2
    <2> QED
      BY <1>0, <2>2, <2>3 DEF QueuesBacked
  <1> QED
    BY <1>3, <1>4, <1>5

\* COMMIT of a pool publishes what the engine holds.
LEMMA QueuesCommitted ==
  ASSUME Typed, QueuesBacked, ShownIsCommitted, Grows, UNCHANGED <<rf, updates, cur>>,
         NEW p \in Pools, Committed(p), cur # None => \A w \in updates[cur] : Done(w)
  PROVE  QueuesBacked'
  <1>0. /\ open' = [open EXCEPT ![p] = {}] /\ committed' = committed \cup open[p]
        /\ afterRedis' = None
        /\ (\A o \in Objects : queue'[o] = IF o = afterRedis THEN {} ELSE queue[o])
        /\ published' = published \cup Holds(afterRedis)
        /\ kept'.queue = kept.queue \cup ((published' \ published) \cap Elsewhere(p))
    BY CommittedIs
  <1>1. /\ open \in [Pools -> SUBSET Writes] /\ rf \in [Flushers -> Objects \cup {None}]
        /\ cur \in Flushers \cup {None}
    BY DEF Typed, TypeOK
  <1>2. AllOpen \subseteq open[p] \cup Elsewhere(p)
    BY DEF AllOpen, Elsewhere
  <1>3. ASSUME NEW o \in Objects, o = afterRedis' \/ \E f \in Flushers : rf'[f] = o
        PROVE  queue'[o] \subseteq committed' \cup AllOpen' \cup kept'.queue \cup OwnUpdates(o)'
    <2>1. CASE o = afterRedis
      BY <1>0, <2>1
    <2>2. CASE o # afterRedis
      <3>1. \E f \in Flushers : rf[f] = o
        BY <1>0, <1>3, ObjectsAssumption
      <3>2. OwnUpdates(o)' = OwnUpdates(o)
        BY DEF OwnUpdates
      <3> QED
        BY <1>0, <2>2, <3>1, <3>2 DEF QueuesBacked, Grows
    <2> QED
      BY <2>1, <2>2
  <1>4. ASSUME cur # None
        PROVE  updates[cur] \subseteq committed' \cup kept'.queue \cup Holds(rf[cur])'
    <2>1. CASE rf[cur] = None \/ rf[cur] # afterRedis
      <3>1. rf[cur] # None => Holds(rf[cur])' = Holds(rf[cur])
        BY <1>0, <1>1, <1>4, <2>1 DEF Holds
      <3>2. rf[cur] = None => Holds(rf[cur]) = {}
        BY DEF Holds
      <3> QED
        BY <1>4, <3>1, <3>2 DEF QueuesBacked, Grows
    <2>2. CASE rf[cur] # None /\ rf[cur] = afterRedis
      <3> SUFFICES ASSUME NEW w \in updates[cur], w \notin committed', w \notin kept'.queue
                   PROVE  FALSE
        OBVIOUS
      <3>1. w \notin committed /\ w \notin kept.queue
        BY DEF Grows
      <3>2. w \in AllOpen
        BY <1>4, <3>1 DEF Done
      <3>3. w \in Holds(afterRedis)
        BY <1>4, <2>2, <3>1 DEF QueuesBacked
      <3>4. w \in published' /\ w \notin published
        BY <1>0, <3>1, <3>3 DEF ShownIsCommitted
      <3> QED
        BY <1>0, <1>2, <3>2, <3>4
    <2> QED
      BY <2>1, <2>2
  <1> QED
    BY <1>3, <1>4 DEF QueuesBacked

\* A panic leaves the queues to their flushers, and kept knows of it.
LEMMA QueuesPanic ==
  ASSUME Typed, QueuesBacked, FlushPanics
  PROVE  QueuesBacked'
  <1>1. /\ cur \in Flushers /\ cur' = None
        /\ (\A f \in Flushers : rf'[f] \in {rf[f], None})
        /\ kept'.queue = kept.queue \cup Surviving
        /\ UNCHANGED <<committed, queue>>
    BY PanicIs
  <1>2. PICK Q \in SUBSET PoolsOf(tracked[cur]) :
          /\ \A p \in Pools : open'[p] = IF p \in Q THEN {} ELSE open[p]
          /\ IF Q = {} THEN UNCHANGED <<afterRedis, afterLocal>> ELSE afterRedis' = None /\ afterLocal' = {}
    BY PanicIs
  <1>3. \A f \in Flushers : Holds(rf[f]) \subseteq committed \cup kept'.queue
    BY <1>1, SurvivingIs
  <1>4. \A f \in Flushers : rf[f] \in Objects => queue[rf[f]] \subseteq committed \cup kept'.queue
    BY <1>3, ObjectsAssumption DEF Holds
  <1>5. ASSUME NEW o \in Objects, o = afterRedis' \/ \E f \in Flushers : rf'[f] = o
        PROVE  queue'[o] \subseteq committed' \cup AllOpen' \cup kept'.queue \cup OwnUpdates(o)'
    <2>1. CASE \E f \in Flushers : rf[f] = o
      BY <1>1, <1>4, <2>1
    <2>2. CASE ~\E f \in Flushers : rf[f] = o
      <3>1. o = afterRedis /\ Q = {}
        BY <1>1, <1>2, <1>5, <2>2, ObjectsAssumption
      <3>2. OwnUpdates(o) = {}
        BY <1>1, <2>2 DEF OwnUpdates
      <3>3. AllOpen \subseteq AllOpen'
        BY <1>2, <3>1 DEF AllOpen
      <3> QED
        BY <1>1, <3>1, <3>2, <3>3 DEF QueuesBacked
    <2> QED
      BY <2>1, <2>2
  <1> QED
    BY <1>1, <1>5 DEF QueuesBacked

LEMMA QueuesNext ==
  Typed /\ Calls /\ PoolsApart /\ Statements /\ LeftOver /\ QueuesBacked /\ ShownIsCommitted /\ [Next]_vars
    => QueuesBacked'
  <1> SUFFICES ASSUME Typed, Calls, PoolsApart, Statements, LeftOver, QueuesBacked, ShownIsCommitted,
                      [Next]_vars
               PROVE  QueuesBacked'
    OBVIOUS
  <1> USE DEF entityVars, poolVars, flusherVars, engineVars, callVars, countVars, whyVars, Running
  <1>0. setup' = setup /\ (~Undoes => Grows)
    BY StepIs, GrowsNext
  <1>1. /\ updates \in [Flushers -> SUBSET Writes] /\ rf \in [Flushers -> Objects \cup {None}]
        /\ cur \in Flushers \cup {None} /\ (cur = None <=> pc = "idle") /\ None \notin Flushers
        /\ kept \in [queue : SUBSET Writes, sets : SUBSET Writes]
    BY ObjectsAssumption DEF Typed, TypeOK
  <1>2. ASSUME Grows, UNCHANGED <<queue, cur, afterRedis, rf, updates>> PROVE QueuesBacked'
    BY <1>2, QueuesStay
  <1>3. CASE Executes
    <2>1. PICK p \in Pools, W \in SUBSET Writes, V \in SUBSET Writes : Statement(p, W, V)
      BY <1>0, <1>3, StatementIs
    <2>2. /\ cur \in Flushers /\ Enqueued(cur, V) /\ V \subseteq W
          /\ (IF tx[p] = "open" THEN open'[p] = open[p] \cup W /\ committed' = committed
                                ELSE open' = open /\ committed' = committed \cup W)
          /\ UNCHANGED <<updates, cur, afterRedis>>
      BY <2>1 DEF Statement
    <2>3. V \subseteq committed' \cup AllOpen' \cup {}
      BY <2>2 DEF AllOpen
    <2>4. Grows
      BY <1>0, <1>3 DEF Undoes, Executes, Upsert, Insert, Update, Delete, Rollback, FlushPanics, Overflow
    <2>5. updates'[cur] = updates[cur] \cup {} /\ {} \in SUBSET V
      BY <2>2
    <2> QED
      BY <2>2, <2>3, <2>4, <2>5, QueuesGrow
  <1>4. CASE Build
    <2>1. /\ cur \in Flushers /\ updates' = [updates EXCEPT ![cur] = @ \cup DirtyWrites]
          /\ DirtyWrites \in SUBSET Writes /\ Queued(cur, DirtyWrites)
          /\ UNCHANGED <<committed, open, kept, afterRedis, cur>>
      BY <1>4, BuildIs
    <2>2. Enqueued(cur, DirtyWrites)
      BY <2>1, QueuedIs
    <2>3. Grows
      BY <2>1 DEF Grows, AllOpen
    <2>4. updates'[cur] = updates[cur] \cup DirtyWrites
      BY <1>1, <2>1
    <2> QED
      BY <2>1, <2>2, <2>3, <2>4, QueuesGrow
  <1>5. CASE Caches
    <2>1. Grows
      BY <1>0, <1>5 DEF Undoes, Caches, Rollback, FlushPanics, Overflow
    <2> QED
      BY <1>5, <2>1, QueuesCaches
  <1>6. ASSUME NEW p \in Pools, Committed(p), UNCHANGED <<rf, updates, cur>>, Grows,
               pc \in {"idle", "commit"}
        PROVE  QueuesBacked'
    <2>1. cur # None => \A w \in updates[cur] : Done(w)
      BY <1>1, <1>6 DEF Statements
    <2> QED
      BY <1>6, <2>1, QueuesCommitted
  <1>7. ASSUME NEW p \in Pools, Commit(p) PROVE QueuesBacked'
    <2>1. Grows
      BY <1>7, GrowsPool
    <2> QED
      BY <1>6, <1>7, <2>1 DEF Commit
  <1>8. ASSUME NEW p \in Pools, Begin(p) \/ CommitFails(p) PROVE QueuesBacked'
    <2>1. Grows
      BY <1>8, GrowsPool
    <2> QED
      BY <1>2, <1>8, <2>1 DEF Begin, CommitFails
  <1>9. ASSUME NEW p \in Pools, FlushCommit(p) PROVE QueuesBacked'
    <2>1. Grows
      BY <1>9, GrowsPool
    <2> QED
      BY <1>2, <1>6, <1>9, <2>1 DEF FlushCommit
  <1>10. ASSUME NEW p \in Pools, Rollback(p) PROVE QueuesBacked'
    <2>1. /\ pc = "idle" /\ afterRedis' = None /\ kept'.queue = kept.queue \cup Surviving
          /\ UNCHANGED <<committed, queue, rf, updates, cur>>
      BY <1>1, <1>10 DEF Rollback, LetGo
    <2>2. \A f \in Flushers : rf[f] \in Objects => queue[rf[f]] \subseteq committed \cup kept'.queue
      BY <2>1, SurvivingIs, ObjectsAssumption DEF Holds
    <2>3. \A o \in Objects : o # None
      BY ObjectsAssumption
    <2> QED
      BY <1>1, <2>1, <2>2, <2>3 DEF QueuesBacked
  <1>11. CASE FlushPanics
    BY <1>11, QueuesPanic
  <1>12. CASE Overflow
    <2>1. cur' = None /\ rf' = [f \in Flushers |-> None] /\ afterRedis' = None
      BY <1>12, OverflowIs
    <2> QED
      BY <2>1, ObjectsAssumption DEF QueuesBacked
  <1>13. CASE Return
    <2>1. /\ pc = "commit" /\ cur' = None /\ (\A f \in Flushers : rf'[f] \in {rf[f], None})
          /\ UNCHANGED <<committed, open, queue, kept, afterRedis>>
      BY <1>1, <1>13 DEF Return, Fresh
    <2>2. AllOpen' = AllOpen
      BY <2>1 DEF AllOpen
    <2>3. \A w \in updates[cur] : Done(w)
      BY <2>1 DEF Statements
    <2>4. ASSUME NEW o \in Objects, o = afterRedis' \/ \E f \in Flushers : rf'[f] = o
          PROVE  queue'[o] \subseteq committed' \cup AllOpen' \cup kept'.queue \cup OwnUpdates(o)'
      <3>1. o = afterRedis \/ \E f \in Flushers : rf[f] = o
        BY <2>1, <2>4, ObjectsAssumption
      <3>2. OwnUpdates(o) \subseteq committed \cup AllOpen \cup kept.queue
        BY <2>3 DEF OwnUpdates, Done
      <3> QED
        BY <2>1, <2>2, <3>1, <3>2 DEF QueuesBacked
    <2> QED
      BY <2>1, <2>4 DEF QueuesBacked
  <1>14. ASSUME NEW f \in Flushers, NEW X \in SUBSET Entities, Flush(f, X) PROVE QueuesBacked'
    <2>1. pc = "idle" /\ cur' = f /\ UNCHANGED <<committed, open, queue, kept, afterRedis, rf, updates>>
      BY <1>14 DEF Flush
    <2>2. cur = None /\ AllOpen' = AllOpen
      BY <1>1, <2>1 DEF AllOpen
    <2>3. updates[f] \subseteq committed \cup kept.queue
      BY <1>1, <2>2 DEF LeftOver
    <2>4. \A o \in Objects : OwnUpdates(o) = {}
      BY <2>2 DEF OwnUpdates
    <2> QED
      BY <2>1, <2>2, <2>3, <2>4 DEF QueuesBacked
  <1>15. ASSUME NEW f \in Flushers, NewFlusher(f) PROVE QueuesBacked'
    <2>1. /\ pc = "idle" /\ rf' = [rf EXCEPT ![f] = None]
          /\ UNCHANGED <<committed, open, queue, kept, afterRedis, cur>>
      BY <1>15 DEF NewFlusher, Fresh
    <2>2. Grows /\ cur = None
      BY <1>1, <2>1 DEF Grows, AllOpen
    <2>3. \A g \in Flushers : rf'[g] \in {rf[g], None}
      BY <1>1, <2>1
    <2> QED
      BY <2>1, <2>2, <2>3, QueuesStay
  <1>16. ASSUME NEW x \in Entities, Change(x) PROVE QueuesBacked'
    BY <1>2, <1>16 DEF Change, Grows, AllOpen
  <1>17. CASE Moves \/ UNCHANGED vars
    BY <1>2, <1>17 DEF Moves, Inserted, Updated, Deleted, vars, Grows, AllOpen
  <1> QED
    BY <1>3, <1>4, <1>5, <1>7, <1>8, <1>9, <1>10, <1>11, <1>12, <1>13, <1>14, <1>15, <1>16, <1>17, StepIs

LEMMA SetsInit == Init => SetsBacked
  BY DEF Init, SetsBacked, Running

\* What is queued for the local cache that is left alone.
LEMMA SetsStay ==
  ASSUME Typed, SetsBacked, Grows, afterLocal' \in {afterLocal, {}},
         \A f \in Flushers : localSets'[f] \in {localSets[f], {}},
         UNCHANGED <<cur, updates, tracked>> \/ cur = None,
         pc' \in Running /\ Top'.depth = 0 => pc \in Running /\ Top.depth = 0 /\ UNCHANGED cur
  PROVE  SetsBacked'
  <1>1. ASSUME NEW f \in Flushers, f # cur
        PROVE  localSets'[f] \subseteq committed' \cup kept'.sets
    BY <1>1 DEF SetsBacked, Grows
  <1>2. ASSUME NEW f \in Flushers, f = cur
        PROVE  UNCHANGED <<cur, updates>> /\ localSets'[f] \subseteq committed' \cup kept'.sets \cup AllOpen' \cup updates'[f]
    <2>1. cur # None
      BY <1>2, ObjectsAssumption
    <2>2. UNCHANGED <<cur, updates>>
      BY <2>1
    <2> QED
      BY <1>2, <2>2 DEF SetsBacked, Grows
  <1>3. \A f \in Flushers : localSets'[f] \subseteq
          committed' \cup kept'.sets \cup (IF f = cur' THEN AllOpen' \cup updates'[f] ELSE {})
    BY <1>1, <1>2
  <1>4. afterLocal' \subseteq committed' \cup AllOpen' \cup kept'.sets
    BY DEF SetsBacked, Grows
  <1>5. ASSUME pc' \in Running, Top'.depth = 0
        PROVE  \A w \in localSets'[cur'] : w \in committed' \cup kept'.sets \/ w.x \in tracked'[cur']
    <2>1. pc \in Running /\ Top.depth = 0 /\ cur' = cur
      BY <1>5
    <2>2. cur \in Flushers /\ cur # None
      BY <2>1, ObjectsAssumption DEF Typed, TypeOK, Running
    <2> QED
      BY <2>1, <2>2 DEF SetsBacked, Grows
  <1> QED
    BY <1>3, <1>4, <1>5 DEF SetsBacked

\* What a flush queues for the local cache.
LEMMA SetsGrow ==
  ASSUME Typed, SetsBacked, Grows, cur \in Flushers, pc \in Running, UNCHANGED <<cur, afterLocal, tracked>>,
         NEW V \in SUBSET Writes, NEW U \in SUBSET Writes,
         localSets' = [localSets EXCEPT ![cur] = @ \cup V],
         updates'[cur] = updates[cur] \cup U, V \subseteq committed' \cup AllOpen' \cup U,
         pc' \in Running /\ Top'.depth = 0 => Top.depth = 0 /\ \A w \in V : w.x \in tracked[cur]
  PROVE  SetsBacked'
  <1>1. localSets \in [Flushers -> SUBSET Writes]
    BY DEF Typed, TypeOK
  <1>2. localSets'[cur] = localSets[cur] \cup V /\ \A f \in Flushers \ {cur} : localSets'[f] = localSets[f]
    BY <1>1
  <1>3. localSets'[cur] \subseteq committed' \cup kept'.sets \cup AllOpen' \cup updates'[cur]
    BY <1>2 DEF SetsBacked, Grows
  <1>4. \A f \in Flushers \ {cur} : localSets'[f] \subseteq committed' \cup kept'.sets
    BY <1>2 DEF SetsBacked, Grows
  <1>5. afterLocal' \subseteq committed' \cup AllOpen' \cup kept'.sets
    BY DEF SetsBacked, Grows
  <1>6. ASSUME pc' \in Running, Top'.depth = 0
        PROVE  \A w \in localSets'[cur] : w \in committed' \cup kept'.sets \/ w.x \in tracked'[cur]
    BY <1>2, <1>6 DEF SetsBacked, Grows
  <1> QED
    BY <1>3, <1>4, <1>5, <1>6 DEF SetsBacked

LEMMA SetsCommitted ==
  ASSUME Typed, SetsBacked, Grows, UNCHANGED <<localSets, updates, cur>>, pc' \notin Running,
         NEW p \in Pools, Committed(p)
  PROVE  SetsBacked'
  <1>1. afterLocal' = {}
    BY CommittedIs
  <1>2. \A f \in Flushers : localSets'[f] \subseteq
          committed' \cup kept'.sets \cup (IF f = cur' THEN AllOpen' \cup updates'[f] ELSE {})
    BY DEF SetsBacked, Grows
  <1> QED
    BY <1>1, <1>2 DEF SetsBacked

LEMMA OutermostTracks ==
  ASSUME Typed, Calls, pc \in Running, Top.depth = 0
  PROVE  Top.ents = tracked[cur] /\ Top.root
  <1>1. stack \in Seq(Frames) /\ stack # << >>
    BY DEF Typed
  <1>2. Top = stack[1] /\ Len(stack) \in Nat /\ Len(stack) >= 1
    BY <1>1, PopIs DEF Top
  <1>3. FrameOK(1)
    BY <1>2 DEF Calls, FramesOK
  <1> QED
    BY <1>2, <1>3 DEF FrameOK

\* The call after one that is done is not the outermost.
LEMMA PoppedIsWithin ==
  ASSUME Typed, Calls, Caches
  PROVE  pc' = "commit" \/ (pc' = "build" /\ Top'.depth # 0)
  <1>1. /\ pc = "caches"
        /\ stack' \in Seq(Frames) /\ Len(stack') = Len(stack) - 1
        /\ Len(stack) \in Nat /\ Len(stack) >= 1
        /\ (\A i \in 1 .. Len(stack') : stack'[i] = stack[i + 1])
        /\ (stack' = << >> <=> Len(stack) = 1)
        /\ pc' = (IF stack' = << >> THEN "commit" ELSE "build")
    BY CachesIs
  <1>2. CASE stack' # << >>
    <2>1. Top' = stack'[1] /\ 1 \in 1 .. Len(stack') /\ 2 \in 1 .. Len(stack) /\ stack'[1] = stack[2]
      <3>1. Head(stack') = stack'[1]
        BY <1>1, <1>2, PopIs
      <3> QED
        BY <1>1, <1>2, <3>1 DEF Top
    <2>2. FrameOK(2) /\ Len(stack) # 1
      BY <1>1, <2>1 DEF Calls, FramesOK, Running
    <2> QED
      BY <1>1, <1>2, <2>1, <2>2 DEF FrameOK
  <1> QED
    BY <1>1, <1>2

LEMMA SetsCaches ==
  ASSUME Typed, Calls, Statements, SetsBacked, Caches, Grows
  PROVE  SetsBacked'
  <1>1. /\ pc = "caches" /\ cur \in Flushers
        /\ afterLocal' = afterLocal \cup (IF Top.root /\ inTx THEN localSets[cur] ELSE {})
        /\ UNCHANGED <<updates, localSets, cur, tracked>>
    BY CachesIs
  <1>2. pc' \in Running => Top'.depth # 0
    BY PoppedIsWithin DEF Running
  <1>3. Top.root => localSets[cur] \subseteq committed \cup kept.sets \cup AllOpen
    BY <1>1 DEF SetsBacked, Statements, Done
  <1>4. afterLocal' \subseteq committed' \cup AllOpen' \cup kept'.sets
    BY <1>1, <1>3 DEF SetsBacked, Grows
  <1>5. \A f \in Flushers : localSets'[f] \subseteq
          committed' \cup kept'.sets \cup (IF f = cur' THEN AllOpen' \cup updates'[f] ELSE {})
    BY <1>1 DEF SetsBacked, Grows
  <1> QED
    BY <1>2, <1>4, <1>5 DEF SetsBacked

LEMMA SetsBuild ==
  ASSUME Typed, Calls, SetsBacked, Build, Grows
  PROVE  SetsBacked'
  <1>1. /\ pc = "build" /\ cur \in Flushers /\ updates' = [updates EXCEPT ![cur] = @ \cup DirtyWrites]
        /\ DirtyWrites \in SUBSET Writes /\ Queued(cur, DirtyWrites) /\ Top \in Frames
        /\ (\A w \in DirtyWrites : w.x \in Ready) /\ Ready \subseteq Top.ents
        /\ Refused \/ Split \/ Collects
        /\ UNCHANGED <<afterLocal, tracked, cur>>
    BY BuildIs
  <1>2. localSets' = [localSets EXCEPT ![cur] = @ \cup DirtyWrites]
    BY <1>1, QueuedIs DEF Enqueued
  <1>3. updates'[cur] = updates[cur] \cup DirtyWrites
    BY <1>1 DEF Typed, TypeOK
  <1>4. pc' \in Running /\ Top'.depth = 0 => Top.depth = 0
    <2>1. CASE Refused
      BY <2>1 DEF Refused, Running
    <2>2. CASE Collects
      BY <2>2 DEF Collects, Top
    <2>3. CASE Split
      <3>1. Top' = Frame(Top.depth + 1, FALSE, Inside, Referred)
        BY <2>3, PushedIs DEF Top
      <3>2. Top'.depth = Top.depth + 1 /\ Top.depth \in Nat
        BY <1>1, <3>1 DEF Frame, Frames
      <3> QED
        BY <3>2
    <2> QED
      BY <1>1, <2>1, <2>2, <2>3
  <1>5. Top.depth = 0 => \A w \in DirtyWrites : w.x \in tracked[cur]
    BY <1>1, OutermostTracks DEF Running
  <1>6. pc \in Running
    BY <1>1 DEF Running
  <1> QED
    BY <1>1, <1>2, <1>3, <1>4, <1>5, <1>6, SetsGrow

LEMMA SetsNext ==
  Typed /\ Calls /\ Statements /\ SetsBacked /\ [Next]_vars => SetsBacked'
  <1> SUFFICES ASSUME Typed, Calls, Statements, SetsBacked, [Next]_vars PROVE SetsBacked'
    OBVIOUS
  <1> USE DEF entityVars, poolVars, flusherVars, engineVars, callVars, countVars, whyVars
  <1>0. setup' = setup /\ (~Undoes => Grows)
    BY StepIs, GrowsNext
  <1>1. /\ updates \in [Flushers -> SUBSET Writes] /\ localSets \in [Flushers -> SUBSET Writes]
        /\ cur \in Flushers \cup {None} /\ (cur = None <=> pc = "idle") /\ None \notin Flushers
        /\ kept \in [queue : SUBSET Writes, sets : SUBSET Writes]
    BY ObjectsAssumption DEF Typed, TypeOK
  <1>2. ASSUME Grows, UNCHANGED <<localSets, updates, tracked, cur, afterLocal, stack>>,
               pc' \in Running => pc \in Running
        PROVE  SetsBacked'
    <2>1. Top' = Top
      BY <1>2 DEF Top
    <2> QED
      BY <1>2, <2>1, SetsStay
  <1>3. CASE Executes
    <2>1. PICK p \in Pools, W \in SUBSET Writes, V \in SUBSET Writes : Statement(p, W, V)
      BY <1>0, <1>3, StatementIs
    <2>2. /\ cur \in Flushers /\ localSets' = [localSets EXCEPT ![cur] = @ \cup V] /\ V \subseteq W
          /\ (IF tx[p] = "open" THEN open'[p] = open[p] \cup W /\ committed' = committed
                                ELSE open' = open /\ committed' = committed \cup W)
          /\ (\A q \in Pools \ {p} : open'[q] = open[q])
          /\ pc \in Running /\ UNCHANGED <<updates, cur, afterLocal, tracked, kept, stack>>
      BY <2>1 DEF Statement, Enqueued
    <2>3. V \subseteq committed' \cup AllOpen' \cup {} /\ Grows
      BY <2>2 DEF AllOpen, Grows
    <2>4. updates'[cur] = updates[cur] \cup {} /\ {} \in SUBSET Writes /\ Top' = Top
      BY <2>2 DEF Top
    <2>5. Top.depth = 0 => \A w \in V : w.x \in tracked[cur]
      <3>1. \A w \in V : w.x \in Top.ents \cup deletes[cur] \cup (IF pc = "insert" THEN batch ELSE {})
        BY <2>1 DEF Statement
      <3>2. deletes[cur] \subseteq tracked[cur] /\ (pc = "insert" => batch \subseteq Top.ents)
        BY <2>2 DEF Calls
      <3> QED
        BY <2>2, <3>1, <3>2, OutermostTracks
    <2> QED
      BY <2>2, <2>3, <2>4, <2>5, SetsGrow
  <1>4. CASE Build
    <2>1. UNCHANGED <<committed, open, kept>>
      BY <1>4, BuildIs
    <2> QED
      BY <1>4, <2>1, SetsBuild DEF Grows, AllOpen
  <1>5. CASE Caches
    <2>1. Grows
      BY <1>0, <1>5 DEF Undoes, Caches, Rollback, FlushPanics, Overflow
    <2> QED
      BY <1>5, <2>1, SetsCaches
  <1>6. ASSUME NEW p \in Pools, Commit(p) \/ Begin(p) \/ CommitFails(p) \/ FlushCommit(p) PROVE SetsBacked'
    <2>1. Grows
      BY <1>6, GrowsPool
    <2>2. pc' \notin Running /\ UNCHANGED <<localSets, updates, tracked, cur, stack>>
      BY <1>6 DEF Commit, Begin, CommitFails, FlushCommit, Running
    <2>3. Committed(p) \/ afterLocal' = afterLocal
      BY <1>6 DEF Commit, Begin, CommitFails, FlushCommit
    <2> QED
      BY <1>2, <2>1, <2>2, <2>3, SetsCommitted
  <1>7. ASSUME NEW p \in Pools, Rollback(p) PROVE SetsBacked'
    <2>1. /\ pc = "idle" /\ pc' = "idle" /\ afterLocal' = {} /\ kept'.sets = kept.sets
          /\ UNCHANGED <<committed, localSets, cur>>
      BY <1>1, <1>7 DEF Rollback, LetGo
    <2> QED
      BY <1>1, <2>1 DEF SetsBacked, Running
  <1>8. CASE FlushPanics
    <2>1. /\ pc' = "idle" /\ cur \in Flushers /\ cur' = None /\ committed' = committed
          /\ (\A g \in Flushers \ {cur} : localSets'[g] = localSets[g])
          /\ \/ localSets'[cur] = {} /\ kept'.sets = kept.sets
             \/ localSets' = localSets /\ kept'.sets = kept.sets \cup (localSets[cur] \ committed)
      BY <1>8, PanicIs
    <2>2. PICK Q \in SUBSET PoolsOf(tracked[cur]) :
            /\ \A p \in Pools : open'[p] = IF p \in Q THEN {} ELSE open[p]
            /\ IF Q = {} THEN UNCHANGED <<afterRedis, afterLocal>> ELSE afterRedis' = None /\ afterLocal' = {}
      BY <1>8, PanicIs
    <2>3. afterLocal' \subseteq committed' \cup AllOpen' \cup kept'.sets
      <3>1. CASE Q = {}
        BY <2>1, <2>2, <3>1 DEF SetsBacked, AllOpen
      <3>2. CASE Q # {}
        BY <2>2, <3>2
      <3> QED
        BY <3>1, <3>2
    <2>4. \A f \in Flushers : localSets'[f] \subseteq committed' \cup kept'.sets
      BY <2>1 DEF SetsBacked
    <2> QED
      BY <2>1, <2>3, <2>4 DEF SetsBacked, Running
  <1>9. CASE Overflow
    <2>1. pc' = "idle" /\ localSets' = [f \in Flushers |-> {}] /\ afterLocal' = {}
      BY <1>9, OverflowIs
    <2> QED
      BY <2>1 DEF SetsBacked, Running
  <1>10. CASE Return
    <2>1. /\ pc' = "idle" /\ cur' = None /\ localSets' = [localSets EXCEPT ![cur] = {}]
          /\ UNCHANGED <<committed, open, kept, afterLocal>>
      BY <1>10 DEF Return, Fresh
    <2>2. \A f \in Flushers : localSets'[f] \subseteq committed' \cup kept'.sets
      BY <1>1, <2>1 DEF SetsBacked
    <2> QED
      BY <2>1, <2>2 DEF SetsBacked, Running, AllOpen
  <1>11. ASSUME NEW f \in Flushers, NEW X \in SUBSET Entities, Flush(f, X) PROVE SetsBacked'
    <2>1. /\ pc = "idle" /\ cur' = f /\ tracked' = [tracked EXCEPT ![f] = @ \cup X]
          /\ UNCHANGED <<committed, open, kept, afterLocal, localSets>>
      BY <1>11 DEF Flush
    <2>2. cur = None
      BY <1>1, <2>1
    <2>3. \A g \in Flushers : localSets'[g] \subseteq committed' \cup kept'.sets
      BY <1>1, <2>1, <2>2 DEF SetsBacked
    <2> QED
      BY <2>1, <2>3 DEF SetsBacked, AllOpen
  <1>12. ASSUME NEW f \in Flushers, NewFlusher(f) PROVE SetsBacked'
    <2>1. /\ pc = "idle" /\ pc' = "idle" /\ localSets' = [localSets EXCEPT ![f] = {}]
          /\ UNCHANGED <<committed, open, kept, afterLocal, cur>>
      BY <1>12 DEF NewFlusher, Fresh
    <2>2. \A g \in Flushers : localSets'[g] \subseteq committed' \cup kept'.sets
      BY <1>1, <2>1 DEF SetsBacked
    <2> QED
      BY <2>1, <2>2 DEF SetsBacked, Running, AllOpen
  <1>13. ASSUME NEW x \in Entities, Change(x) PROVE SetsBacked'
    BY <1>2, <1>13 DEF Change, Grows, AllOpen
  <1>14. CASE Moves \/ UNCHANGED vars
    BY <1>2, <1>14 DEF Moves, Inserted, Updated, Deleted, vars, Grows, AllOpen, Running
  <1> QED
    BY <1>3, <1>4, <1>5, <1>6, <1>7, <1>8, <1>9, <1>10, <1>11, <1>12, <1>13, <1>14, StepIs

LEMMA ShownNext ==
  Typed /\ Calls /\ PoolsApart /\ Statements /\ QueuesBacked /\ SetsBacked /\ ShownIsCommitted /\ [Next]_vars
    => ShownIsCommitted'
  <1> SUFFICES ASSUME Typed, Calls, PoolsApart, Statements, QueuesBacked, SetsBacked, ShownIsCommitted,
                      [Next]_vars
               PROVE  ShownIsCommitted'
    OBVIOUS
  <1> USE DEF entityVars, poolVars, flusherVars, engineVars, callVars, countVars, whyVars
  <1>0. setup' = setup /\ committed \subseteq committed'
        /\ kept.queue \subseteq kept'.queue /\ kept.sets \subseteq kept'.sets
    BY StepIs, KeptGrows
  <1>1. ASSUME UNCHANGED <<published, shown>> PROVE ShownIsCommitted'
    BY <1>0, <1>1 DEF ShownIsCommitted
  <1>2. cur \in Flushers \cup {None} /\ (cur = None <=> pc = "idle") /\ afterRedis \in Objects \cup {None}
        /\ rf \in [Flushers -> Objects \cup {None}] /\ None \notin Flushers /\ None \notin Objects
    BY ObjectsAssumption DEF Typed, TypeOK
  <1>3. ASSUME NEW p \in Pools, Committed(p), pc \in {"idle", "commit"} PROVE ShownIsCommitted'
    <2>1. /\ committed' = committed \cup open[p]
          /\ published' = published \cup Holds(afterRedis)
          /\ shown' = shown \cup afterLocal
          /\ kept'.queue = kept.queue \cup ((published' \ published) \cap Elsewhere(p))
          /\ kept'.sets = kept.sets \cup (afterLocal \cap Elsewhere(p))
      BY <1>3, CommittedIs
    <2>2. AllOpen \subseteq open[p] \cup Elsewhere(p)
      BY DEF AllOpen, Elsewhere
    <2>3. Holds(afterRedis) \subseteq committed \cup AllOpen \cup kept.queue
      <3>1. CASE afterRedis = None
        BY <3>1 DEF Holds
      <3>2. CASE afterRedis # None
        <4>1. queue[afterRedis] \subseteq committed \cup AllOpen \cup kept.queue \cup OwnUpdates(afterRedis)
          BY <1>2, <3>2 DEF QueuesBacked
        <4>2. OwnUpdates(afterRedis) \subseteq committed \cup AllOpen \cup kept.queue
          BY <1>2, <1>3 DEF OwnUpdates, Statements, Done
        <4> QED
          BY <3>2, <4>1, <4>2 DEF Holds
      <3> QED
        BY <3>1, <3>2
    <2>4. afterLocal \subseteq committed \cup AllOpen \cup kept.sets
      BY DEF SetsBacked
    <2> QED
      BY <2>1, <2>2, <2>3, <2>4 DEF ShownIsCommitted
  <1>4. ASSUME NEW p \in Pools, Begin(p) \/ Commit(p) \/ Rollback(p) \/ CommitFails(p) \/ FlushCommit(p)
        PROVE  ShownIsCommitted'
    BY <1>1, <1>3, <1>4 DEF Begin, Commit, Rollback, LetGo, CommitFails, FlushCommit
  <1>5. CASE Caches
    <2>1. /\ pc = "caches" /\ cur \in Flushers
          /\ kept'.queue = kept.queue \cup ((published' \ published) \cap Early)
          /\ shown' = shown \cup (IF Top.root /\ ~inTx THEN localSets[cur] ELSE {})
          /\ (~inTx => published' = published \cup (IF Top.root THEN Holds(rf[cur]) ELSE {}))
          /\ (inTx => UpdateRedisCache)
      BY <1>5, CachesIs
    <2>2. CASE inTx
      <3>1. published' = published
        BY <2>1, <2>2, HandedOver
      <3> QED
        BY <1>1, <2>1, <2>2, <3>1
    <2>3. CASE ~Top.root /\ ~inTx
      BY <1>1, <2>1, <2>3
    <2>4. CASE Top.root /\ ~inTx
      <3>1. /\ Top.depth = 0 /\ AllOpen \subseteq Early
            /\ \A p \in PoolsOf(tracked[cur]) : open[p] = {}
        BY <2>1, <2>4, OutermostShows
      <3>2. \A w \in updates[cur] : w \in committed \cup AllOpen \/ (w \in kept.queue /\ w \in kept.sets)
        BY <2>1, <2>4 DEF Statements, Done
      <3>3. Holds(rf[cur]) \subseteq committed \cup AllOpen \cup kept.queue
        <4>1. CASE rf[cur] = None
          BY <4>1 DEF Holds
        <4>2. CASE rf[cur] # None
          <5>1. queue[rf[cur]] \subseteq committed \cup AllOpen \cup kept.queue \cup OwnUpdates(rf[cur])
            BY <1>2, <2>1, <4>2 DEF QueuesBacked
          <5> QED
            BY <3>2, <4>2, <5>1 DEF Holds, OwnUpdates
        <4> QED
          BY <4>1, <4>2
      <3>4. localSets[cur] \subseteq committed \cup kept.sets
        <4> SUFFICES ASSUME NEW w \in localSets[cur], w \notin committed, w \notin kept.sets
                     PROVE  FALSE
          OBVIOUS
        <4>1. w \in AllOpen
          BY <2>1, <3>2 DEF SetsBacked
        <4>2. w.x \in tracked[cur]
          BY <2>1, <3>1 DEF SetsBacked, Running
        <4>3. Pool(w.x) \in PoolsOf(tracked[cur])
          BY <4>2 DEF PoolsOf
        <4>4. PICK p \in Pools : w \in open[p]
          BY <4>1 DEF AllOpen
        <4>5. Pool(w.x) = p
          BY <4>4 DEF PoolsApart
        <4> QED
          BY <3>1, <4>3, <4>4, <4>5
      <3>5. published' \subseteq committed \cup kept'.queue
        BY <1>0, <2>1, <2>4, <3>1, <3>3 DEF ShownIsCommitted
      <3>6. shown' \subseteq committed \cup kept.sets
        BY <2>1, <2>4, <3>4 DEF ShownIsCommitted
      <3> QED
        BY <1>0, <3>5, <3>6 DEF ShownIsCommitted
    <2> QED
      BY <2>2, <2>3, <2>4
  <1>6. CASE Executes
    <2>1. PICK p \in Pools, W \in SUBSET Writes, V \in SUBSET Writes : Statement(p, W, V)
      BY <1>0, <1>6, StatementIs
    <2> QED
      BY <1>1, <2>1 DEF Statement
  <1>7. CASE Build
    BY <1>1, <1>7, BuildIs
  <1>8. CASE FlushPanics
    BY <1>1, <1>8, PanicIs
  <1>9. CASE Overflow
    BY <1>1, <1>9, OverflowIs
  <1>10. CASE Return \/ Moves \/ UNCHANGED vars
    BY <1>1, <1>10 DEF Return, Moves, Inserted, Updated, Deleted, vars
  <1>11. ASSUME NEW x \in Entities, Change(x) PROVE ShownIsCommitted'
    BY <1>1, <1>11 DEF Change
  <1>12. ASSUME NEW f \in Flushers, NewFlusher(f) \/ \E X \in SUBSET Entities : Flush(f, X)
         PROVE  ShownIsCommitted'
    BY <1>1, <1>12 DEF NewFlusher, Flush
  <1> QED
    BY <1>4, <1>5, <1>6, <1>7, <1>8, <1>9, <1>10, <1>11, <1>12, StepIs

\* What is queued, and what is shown, always.
Backed == Statements /\ LeftOver /\ QueuesBacked /\ SetsBacked /\ ShownIsCommitted

LEMMA BackedAlways == Spec => [](Transactions /\ Backed)
  <1>1. Init => Backed
    BY StatementsInit, QueuesInit, SetsInit DEF Init, Backed, ShownIsCommitted
  <1>2. Transactions /\ Backed /\ [Next]_vars => Backed'
    BY StatementsNext, LeftOverNext, QueuesNext, SetsNext, ShownNext DEF Transactions, Backed
  <1> QED
    BY <1>1, <1>2, TransactionsAlways, PTL DEF Spec

\* The state of the flushers, pools and queues is well typed (Flusher, DB, Engine).
THEOREM TypeCorrect == Spec => []TypeOK
  <1>1. Typed => TypeOK
    BY DEF Typed
  <1> QED
    BY <1>1, TypedAlways, PTL

\* The local cache and Redis, with the consumers of its streams, are told of
\* committed rows only (updateLocalCache, updateRedisCache, DB.Commit), but for the
\* writes that a queue kept over a rollback or a panic, and those of pools whose
\* transaction was still open when another pool's commit or flush showed them.
THEOREM OnlyCommittedIsShown == Spec => []ShownIsCommitted
  <1>1. Transactions /\ Backed => ShownIsCommitted
    BY DEF Backed
  <1> QED
    BY <1>1, BackedAlways, PTL

-----------------------------------------------------------------------------
(* No committed write is forgotten.                                        *)

\* What the flusher that flushes still has to publish.
Flushing == IF cur = None THEN {} ELSE Holds(rf[cur])

\* Writes that have been published, are queued where they will be, or were let go of.
Told == published \cup unsent \cup Holds(afterRedis) \cup Flushing

Telling ==
    /\ committed \cup AllOpen \subseteq Told
    /\ \A f \in Flushers : updates[f] \subseteq Told
    /\ pc = "commit" => rf[cur] \in {None, afterRedis} \/ queue[rf[cur]] = {}

LEMMA TellingInit == Init => Telling
  BY DEF Init, Telling, AllOpen

\* Writes are told of that a queue had before.
LEMMA TellingStays ==
  ASSUME Telling, Told \subseteq Told', committed' \cup AllOpen' \subseteq committed \cup AllOpen,
         \A f \in Flushers : updates'[f] \in {updates[f], {}}, pc' # "commit"
  PROVE  Telling'
  BY DEF Telling

\* New writes, with a place in the queue of the flusher that flushes.
LEMMA TellingGrows ==
  ASSUME Typed, Telling, pc \in Running, pc' # "commit",
         cur \in Flushers, UNCHANGED <<published, unsent, afterRedis, cur>>,
         NEW V \in SUBSET Writes, Enqueued(cur, V),
         committed' \cup AllOpen' \subseteq committed \cup AllOpen \cup V \cup updates[cur],
         \A f \in Flushers : updates'[f] \subseteq updates[f] \cup V
  PROVE  Telling'
  <1>0. /\ cur # None /\ None \notin Objects /\ rf \in [Flushers -> Objects \cup {None}]
        /\ afterRedis \in Objects \cup {None}
    BY ObjectsAssumption DEF Typed, TypeOK
  <1>1. Holds(afterRedis) \subseteq Holds(afterRedis)' /\ Flushing \subseteq Flushing' /\ V \subseteq Flushing'
    <2>1. CASE V = {} /\ rf' = rf /\ queue' = queue
      BY <2>1 DEF Holds, Flushing
    <2>2. CASE /\ rf'[cur] \in Objects
               /\ \A o \in Objects \ {rf'[cur]} : queue'[o] = queue[o]
               /\ queue'[rf'[cur]] = IF rf[cur] = None /\ afterRedis = None THEN V
                                     ELSE queue[rf'[cur]] \cup V
      <3>1. rf[cur] # None => rf'[cur] = rf[cur]
        BY DEF Enqueued
      <3>2. Flushing' = queue'[rf'[cur]]
        BY <1>0, <2>2 DEF Holds, Flushing
      <3>3. Flushing \subseteq queue'[rf'[cur]]
        BY <1>0, <2>2, <3>1 DEF Holds, Flushing
      <3>4. afterRedis # None => queue[afterRedis] \subseteq queue'[afterRedis]
        BY <1>0, <2>2
      <3>5. Holds(afterRedis) \subseteq Holds(afterRedis)'
        BY <3>4 DEF Holds
      <3> QED
        BY <2>2, <3>2, <3>3, <3>5
    <2> QED
      BY <2>1, <2>2 DEF Enqueued
  <1>2. Told \cup V \subseteq Told'
    BY <1>1 DEF Told
  <1> QED
    BY <1>2 DEF Telling

LEMMA TellingCommitted ==
  ASSUME Typed, Telling, NEW p \in Pools, Committed(p), UNCHANGED <<rf, updates, cur, unsent>>,
         pc' = "commit" => pc = "commit"
  PROVE  Telling'
  <1>1. /\ open' = [open EXCEPT ![p] = {}] /\ committed' = committed \cup open[p] /\ afterRedis' = None
        /\ (\A o \in Objects : queue'[o] = IF o = afterRedis THEN {} ELSE queue[o])
        /\ published' = published \cup Holds(afterRedis)
    BY CommittedIs
  <1>2. /\ open \in [Pools -> SUBSET Writes] /\ rf \in [Flushers -> Objects \cup {None}]
        /\ cur \in Flushers \cup {None} /\ (pc = "commit" => cur \in Flushers)
    BY DEF Typed, TypeOK
  <1>3. Flushing \subseteq Flushing' \cup Holds(afterRedis)
    BY <1>1, <1>2 DEF Flushing, Holds
  <1>4. Told \subseteq Told'
    BY <1>1, <1>3 DEF Told
  <1>5. committed' \cup AllOpen' \subseteq committed \cup AllOpen
    BY <1>1, <1>2 DEF AllOpen
  <1>6. ASSUME pc' = "commit" PROVE rf[cur] = None \/ queue'[rf[cur]] = {}
    <2>1. rf[cur] \in {None, afterRedis} \/ queue[rf[cur]] = {}
      BY <1>6 DEF Telling
    <2> QED
      BY <1>1, <1>2, <1>6, <2>1
  <1> QED
    BY <1>4, <1>5, <1>6 DEF Telling

LEMMA TellingCaches ==
  ASSUME Typed, Calls, Telling, Caches
  PROVE  Telling'
  <1>1. /\ pc = "caches" /\ cur \in Flushers /\ cur # None
        /\ (~inTx => /\ rf' = rf /\ afterRedis' = afterRedis /\ unsent' = unsent
                     /\ published' = published \cup (IF Top.root THEN Holds(rf[cur]) ELSE {})
                     /\ \A o \in Objects : queue'[o] = IF Top.root /\ o = rf[cur] THEN {} ELSE queue[o])
        /\ (inTx => UpdateRedisCache)
        /\ (stack' = << >> <=> Len(stack) = 1)
        /\ pc' = (IF stack' = << >> THEN "commit" ELSE "build")
        /\ UNCHANGED <<committed, open, updates, cur>>
    BY CachesIs, ObjectsAssumption
  <1>2. /\ rf \in [Flushers -> Objects \cup {None}] /\ afterRedis \in Objects \cup {None}
        /\ None \notin Objects
    BY ObjectsAssumption DEF Typed, TypeOK
  <1>3. AllOpen' = AllOpen
    BY <1>1 DEF AllOpen
  <1>4. CASE inTx
    <2>1. /\ rf'[cur] \in Objects /\ afterRedis' = rf'[cur]
          /\ (rf[cur] # None => rf'[cur] = rf[cur])
          /\ (rf[cur] = None => IF afterRedis # None THEN rf'[cur] = afterRedis
                                ELSE \A g \in Flushers : rf[g] # rf'[cur])
          /\ queue'[rf'[cur]] = (IF rf[cur] = None /\ afterRedis = None THEN {} ELSE queue[rf'[cur]])
          /\ unsent' = unsent \cup (IF afterRedis \in {None, rf'[cur]} THEN {} ELSE queue[afterRedis])
          /\ published' = published
      BY <1>1, <1>4, HandedOver
    <2>2. Flushing' = queue'[rf'[cur]]
      BY <1>1, <1>2, <2>1 DEF Flushing, Holds
    <2>3. Flushing \subseteq Flushing'
      BY <1>1, <1>2, <2>1, <2>2 DEF Flushing, Holds
    <2>4. Holds(afterRedis) \subseteq unsent' \cup Flushing'
      BY <1>2, <2>1, <2>2 DEF Holds
    <2>5. Told \subseteq Told'
      BY <2>1, <2>3, <2>4 DEF Told
    <2> QED
      BY <1>1, <1>3, <2>1, <2>5 DEF Telling
  <1>5. CASE ~inTx
    <2>1. rf[cur] \in Objects \cup {None}
      BY <1>1, <1>2
    <2>2. Holds(afterRedis) \subseteq published' \cup Holds(afterRedis)'
      BY <1>1, <1>2, <1>5 DEF Holds
    <2>3. Flushing \subseteq published' \cup Flushing'
      BY <1>1, <1>2, <1>5, <2>1 DEF Flushing, Holds
    <2>4. Told \subseteq Told'
      BY <1>1, <1>5, <2>2, <2>3 DEF Told
    <2>5. ASSUME pc' = "commit" PROVE rf[cur] = None \/ queue'[rf[cur]] = {}
      <3>1. Len(stack) = 1
        BY <1>1, <2>5
      <3>2. Top.root
        <4>1. Top.depth = 0 \/ (~Top.root /\ Len(stack) > 1)
          BY <1>1, <1>5 DEF Calls, TopOK, Running
        <4> QED
          BY <1>1, <3>1, <4>1, OutermostTracks DEF Running
      <3> QED
        BY <1>1, <1>5, <2>1, <3>2
    <2> QED
      BY <1>1, <1>3, <1>5, <2>4, <2>5 DEF Telling
  <1> QED
    BY <1>4, <1>5

LEMMA TellingNext ==
  Typed /\ Calls /\ Telling /\ [Next]_vars => Telling'
  <1> SUFFICES ASSUME Typed, Calls, Telling, [Next]_vars PROVE Telling'
    OBVIOUS
  <1> USE DEF entityVars, poolVars, flusherVars, engineVars, callVars, countVars, whyVars
  <1>0. setup' = setup
    BY StepIs
  <1>1. /\ updates \in [Flushers -> SUBSET Writes] /\ rf \in [Flushers -> Objects \cup {None}]
        /\ cur \in Flushers \cup {None} /\ (cur = None <=> pc = "idle") /\ None \notin Flushers
        /\ open \in [Pools -> SUBSET Writes]
    BY ObjectsAssumption DEF Typed, TypeOK
  <1>2. ASSUME UNCHANGED <<committed, open, updates, published, unsent, afterRedis, queue, rf, cur>>,
               pc' = "commit" => pc = "commit"
        PROVE  Telling'
    BY <1>2 DEF Telling, Told, Flushing, Holds, AllOpen
  <1>3. CASE Executes
    <2>1. PICK p \in Pools, W \in SUBSET Writes, V \in SUBSET Writes : Statement(p, W, V)
      BY <1>0, <1>3, StatementIs
    <2>2. /\ cur \in Flushers /\ Enqueued(cur, V) /\ W \subseteq V \cup updates[cur]
          /\ (IF tx[p] = "open" THEN open'[p] = open[p] \cup W /\ committed' = committed
                                ELSE open' = open /\ committed' = committed \cup W)
          /\ (\A q \in Pools \ {p} : open'[q] = open[q])
          /\ pc \in Running /\ pc' \in {pc, "fail"}
          /\ UNCHANGED <<updates, cur, published, unsent, afterRedis>>
      BY <2>1 DEF Statement
    <2>3. committed' \cup AllOpen' \subseteq committed \cup AllOpen \cup V \cup updates[cur]
      BY <2>2 DEF AllOpen
    <2>4. pc' # "commit" /\ \A f \in Flushers : updates'[f] \subseteq updates[f] \cup V
      BY <2>2 DEF Running
    <2> QED
      BY <2>2, <2>3, <2>4, TellingGrows
  <1>4. CASE Build
    <2>1. /\ pc = "build" /\ cur \in Flushers /\ updates' = [updates EXCEPT ![cur] = @ \cup DirtyWrites]
          /\ DirtyWrites \in SUBSET Writes /\ Queued(cur, DirtyWrites)
          /\ Refused \/ Split \/ Collects
          /\ UNCHANGED <<committed, open, published, unsent, afterRedis, cur>>
      BY <1>4, BuildIs
    <2>2. Enqueued(cur, DirtyWrites)
      BY <2>1, QueuedIs
    <2>3. pc' # "commit"
      BY <2>1 DEF Refused, Split, Collects
    <2>4. committed' \cup AllOpen' \subseteq committed \cup AllOpen \cup DirtyWrites \cup updates[cur]
      BY <2>1 DEF AllOpen
    <2>5. pc \in Running /\ \A f \in Flushers : updates'[f] \subseteq updates[f] \cup DirtyWrites
      BY <1>1, <2>1 DEF Running
    <2> QED
      BY <2>1, <2>2, <2>3, <2>4, <2>5, TellingGrows
  <1>5. CASE Caches
    BY <1>5, TellingCaches
  <1>6. ASSUME NEW p \in Pools, CommitError(p),
               UNCHANGED <<committed, updates, published, unsent, afterRedis, queue, rf, cur>>,
               pc' = "commit" => pc = "commit"
        PROVE  Telling'
    <2>1. AllOpen' \subseteq AllOpen
      BY <1>1, <1>6 DEF CommitError, AllOpen
    <2> QED
      BY <1>6, <2>1 DEF Telling, Told, Flushing, Holds
  <1>7. ASSUME NEW p \in Pools, Begin(p) \/ Commit(p) \/ CommitFails(p) PROVE Telling'
    BY <1>2, <1>6, <1>7, TellingCommitted DEF Begin, Commit, CommitFails
  <1>8. ASSUME NEW p \in Pools, FlushCommit(p) PROVE Telling'
    BY <1>2, <1>6, <1>8, TellingCommitted DEF FlushCommit
  <1>9. ASSUME NEW p \in Pools, Rollback(p) PROVE Telling'
    <2>1. /\ pc = "idle" /\ pc' = "idle" /\ afterRedis' = None
          /\ open' = [q \in Pools |-> IF q \in {p} THEN {} ELSE open[q]]
          /\ unsent' = unsent \cup Holds(afterRedis)
          /\ UNCHANGED <<committed, published, updates, cur>>
      BY <1>9 DEF Rollback, LetGo, Undone
    <2>2. AllOpen' \subseteq AllOpen /\ Flushing = {}
      BY <1>1, <2>1 DEF AllOpen, Flushing
    <2>3. Told \subseteq Told'
      BY <2>1, <2>2 DEF Told
    <2>4. \A f \in Flushers : updates'[f] \in {updates[f], {}}
      BY <2>1
    <2> QED
      BY <2>1, <2>2, <2>3, <2>4, TellingStays
  <1>10. CASE FlushPanics
    <2>1. /\ cur \in Flushers /\ cur # None /\ pc' = "idle"
          /\ (\A g \in Flushers \ {cur} : updates'[g] = updates[g])
          /\ (updates'[cur] = {} \/ updates' = updates)
          /\ UNCHANGED <<committed, published, queue>>
      BY <1>1, <1>10, PanicIs
    <2>2. PICK Q \in SUBSET PoolsOf(tracked[cur]) :
            /\ \A p \in Pools : open'[p] = IF p \in Q THEN {} ELSE open[p]
            /\ unsent' = unsent \cup Holds(rf[cur]) \cup IF Q = {} THEN {} ELSE Holds(afterRedis)
            /\ IF Q = {} THEN UNCHANGED <<afterRedis, afterLocal>> ELSE afterRedis' = None /\ afterLocal' = {}
      BY <1>10, PanicIs
    <2>3. Flushing \subseteq unsent'
      BY <2>1, <2>2 DEF Flushing
    <2>4. Holds(afterRedis) \subseteq unsent' \cup Holds(afterRedis)'
      <3>1. CASE Q = {}
        BY <2>1, <2>2, <3>1 DEF Holds
      <3>2. CASE Q # {}
        BY <2>2, <3>2
      <3> QED
        BY <3>1, <3>2
    <2>5. Told \subseteq Told'
      BY <2>1, <2>2, <2>3, <2>4 DEF Told
    <2>6. AllOpen' \subseteq AllOpen
      BY <2>2 DEF AllOpen
    <2>7. \A f \in Flushers : updates'[f] \in {updates[f], {}}
      BY <2>1
    <2> QED
      BY <2>1, <2>5, <2>6, <2>7, TellingStays
  <1>11. CASE Overflow
    <2>1. /\ pc' = "idle" /\ open' = [p \in Pools |-> {}] /\ unsent' = unsent \cup committed
          /\ (\A f \in Flushers : updates'[f] = {}) /\ committed' = committed
      BY <1>11, OverflowIs
    <2>2. AllOpen' = {}
      BY <2>1 DEF AllOpen
    <2> QED
      BY <2>1, <2>2 DEF Telling, Told
  <1>12. CASE Return
    <2>1. /\ pc = "commit" /\ pc' = "idle" /\ cur' = None /\ cur \in Flushers
          /\ updates' = [updates EXCEPT ![cur] = {}]
          /\ UNCHANGED <<committed, open, published, unsent, queue, afterRedis>>
      BY <1>1, <1>12 DEF Return, Fresh
    <2>2. Flushing \subseteq Holds(afterRedis)
      BY <2>1 DEF Flushing, Holds, Telling
    <2>3. Told \subseteq Told'
      BY <2>1, <2>2 DEF Told, Holds
    <2>4. AllOpen' = AllOpen /\ \A f \in Flushers : updates'[f] \in {updates[f], {}}
      BY <1>1, <2>1 DEF AllOpen
    <2> QED
      BY <2>1, <2>3, <2>4, TellingStays
  <1>13. ASSUME NEW f \in Flushers, NEW X \in SUBSET Entities, Flush(f, X) PROVE Telling'
    <2>1. /\ pc = "idle" /\ pc' = "build"
          /\ UNCHANGED <<committed, open, published, unsent, queue, afterRedis, updates>>
      BY <1>13 DEF Flush
    <2>2. Flushing = {}
      BY <1>1, <2>1 DEF Flushing
    <2>3. Told \subseteq Told'
      BY <2>1, <2>2 DEF Told, Holds
    <2>4. AllOpen' = AllOpen /\ \A g \in Flushers : updates'[g] \in {updates[g], {}}
      BY <2>1 DEF AllOpen
    <2> QED
      BY <2>1, <2>3, <2>4, TellingStays
  <1>14. ASSUME NEW f \in Flushers, NewFlusher(f) PROVE Telling'
    <2>1. /\ pc = "idle" /\ pc' = "idle" /\ updates' = [updates EXCEPT ![f] = {}]
          /\ UNCHANGED <<committed, open, published, unsent, queue, afterRedis, cur>>
      BY <1>14 DEF NewFlusher, Fresh
    <2>2. Flushing = {}
      BY <1>1, <2>1 DEF Flushing
    <2>3. Told \subseteq Told'
      BY <2>1, <2>2 DEF Told, Holds
    <2>4. AllOpen' = AllOpen /\ \A g \in Flushers : updates'[g] \in {updates[g], {}}
      BY <1>1, <2>1 DEF AllOpen
    <2> QED
      BY <2>1, <2>3, <2>4, TellingStays
  <1>15. ASSUME NEW x \in Entities, Change(x) PROVE Telling'
    BY <1>2, <1>15 DEF Change
  <1>16. CASE Moves \/ UNCHANGED vars
    BY <1>2, <1>16 DEF Moves, Inserted, Updated, Deleted, vars
  <1> QED
    BY <1>3, <1>4, <1>5, <1>7, <1>8, <1>9, <1>10, <1>11, <1>12, <1>13, <1>14, <1>15, <1>16, StepIs

\* When no transaction is open, Redis has been told of every committed write
\* (updateRedisCache, DB.Commit), unless a rollback or a panic let go of the queue
\* that it was in, or the redisFlusher of another flusher took its place.
THEOREM CommitsReachRedis == Spec => []CommittedIsPublished
  <1>1. Init => Telling
    BY TellingInit
  <1>2. Transactions /\ Telling /\ [Next]_vars => Telling'
    BY TellingNext DEF Transactions
  <1>3. Transactions /\ Telling => CommittedIsPublished
    <2> SUFFICES ASSUME Transactions, Telling, AtRest PROVE committed \subseteq published \cup unsent
      BY DEF CommittedIsPublished
    <2>1. afterRedis = None
      BY DEF Transactions, HeldForCommit, InTransaction, AtRest
    <2>2. cur = None
      BY DEF Transactions, Typed, TypeOK, AtRest
    <2> QED
      BY <2>1, <2>2 DEF Telling, Told, Flushing, Holds
  <1> QED
    BY <1>1, <1>2, <1>3, TransactionsAlways, PTL DEF Spec

-----------------------------------------------------------------------------
(* A flush is written as a whole or not at all, and ends: the inductive     *)
(* invariant.                                                               *)

\* What flush n has written to pool p, the upserts apart.
Part(n, p) == {w \in built : w.n = n /\ Pool(w.x) = p /\ ~(w.op = "I" /\ w.x \in Upserts)}

\* It is committed, or in the open transaction, or gone; never in two pieces.
Settled(n, p) ==
    \/ Part(n, p) \subseteq committed
    \/ /\ Part(n, p) \cap committed = {}
       /\ Part(n, p) \subseteq open[p] \/ Part(n, p) \cap open[p] = {}

Outermost == pc = "build" /\ Top.depth = 0

\* Writes are numbered by their flush.  Updates that an earlier flush has left to a
\* flusher are those of a torn one.
Numbered ==
    /\ \A w \in built : w.n <= flushes
    /\ committed \cup AllOpen \cup afterLocal \cup kept.sets \subseteq built
    /\ \A f \in Flushers : localSets[f] \subseteq built
    /\ pc \in Running => \A w \in kept.sets : w.n < flushes
    /\ Outermost => \A p \in Pools : Part(flushes, p) = {}
    /\ \A f \in Flushers : \A w \in updates[f] :
          w.n \in torn \/ (f = cur /\ w.n = flushes /\ w.x \in tracked[f])

\* Nothing of the flush is committed: it is open, or an update that is not executed.
Pending == \A p \in Pools : \A w \in Part(flushes, p) :
    w \notin committed /\ (w \in updates[cur] \/ w \in open[p])

\* All that the flush deals with is in a transaction.
Covered ==
    /\ \A x \in tracked[cur] : tx[Pool(x)] # "none"
    /\ \A i \in 1 .. Len(stack) : \A x \in stack[i].ents : tx[Pool(x)] # "none"
    /\ Pending

\* What is left to insert or to delete: nothing, or one statement.
NoneLeft ==
    /\ pc \in {"insert", "delete"} => left = {}
    /\ pc \in {"insert", "update"} => deletes[cur] = {}
OneLeft == \E t \in Types :
    /\ pc = "insert" => \/ left \subseteq {t} /\ deletes[cur] = {}
                        \/ left = {} /\ TypesOf(deletes[cur]) \subseteq {t}
    /\ pc = "update" => TypesOf(deletes[cur]) \subseteq {t}
    /\ pc = "delete" => left \subseteq {t}

\* The flush does without a transaction: it has one update, or an insert or a delete
\* that is done, or is still to come.
OneUpdate ==
    /\ NoneLeft /\ \A u, v \in updates[cur] : u = v
    /\ \A p \in Pools : Part(flushes, p) \subseteq updates[cur]
OneDone == updates[cur] = {} /\ NoneLeft /\ \A p \in Pools : Part(flushes, p) \subseteq committed
OneToCome == updates[cur] = {} /\ OneLeft /\ \A p \in Pools : Part(flushes, p) = {}
Lone == ~inTx /\ ~useTx /\ Top.depth = 0 /\ (OneUpdate \/ OneDone \/ OneToCome)

\* The flush has failed, and what it has open will be rolled back.
Undoing(p) ==
    \/ Settled(flushes, p)
    \/ Part(flushes, p) \cap committed = {} /\ p \in PoolsOf(tracked[cur])

\* The flush that is under way, unless it is torn already, and those before.
Present == flushes \notin torn =>
    /\ pc \in Running /\ ~Outermost => Covered \/ (Lone /\ pc # "build")
    /\ pc = "commit" => \A p \in Pools : Settled(flushes, p)
    /\ pc = "fail" => \A p \in Pools : Undoing(p)
Past == \A n \in (1 .. flushes) \ torn :
    pc = "idle" \/ n < flushes => \A p \in Pools : Settled(n, p)

Whole == Numbered /\ Present /\ Past


-----------------------------------------------------------------------------
(* Lemmas on what a step leaves of the writes of a flush.                   *)

LEMMA WholeInit == Init => Whole
  <1> SUFFICES ASSUME Init PROVE Whole
    OBVIOUS
  <1>1. /\ built = {} /\ committed = {} /\ afterLocal = {} /\ kept.sets = {} /\ pc = "idle" /\ flushes = 0
        /\ open = [p \in Pools |-> {}]
        /\ localSets = [f \in Flushers |-> {}] /\ updates = [f \in Flushers |-> {}]
    BY DEF Init
  <1>2. AllOpen = {}
    BY <1>1 DEF AllOpen
  <1>3. Numbered
    BY <1>1, <1>2 DEF Numbered, Running, Outermost
  <1>4. Present /\ Past
    BY <1>1 DEF Present, Past, Running
  <1> QED
    BY <1>3, <1>4 DEF Whole

\* A settled part stays so when nothing happens to it, or the transaction of its pool
\* is over.
LEMMA SettledStays ==
  ASSUME NEW n, NEW p, Part(n, p)' = Part(n, p), Settled(n, p),
         \/ \A w \in Part(n, p) : (w \in committed' <=> w \in committed) /\ (w \in open'[p] <=> w \in open[p])
         \/ open'[p] = {} /\ \A w \in Part(n, p) : w \in committed' <=> w \in committed
         \/ open'[p] = {} /\ \A w \in Part(n, p) : w \in committed' <=> w \in committed \cup open[p]
  PROVE  Settled(n, p)'
  <1> DEFINE P == Part(n, p)
  <1>1. P' = P
    OBVIOUS
  <1>2. \/ P \subseteq committed
        \/ P \cap committed = {} /\ (P \subseteq open[p] \/ P \cap open[p] = {})
    BY DEF Settled
  <1> SUFFICES \/ P \subseteq committed'
               \/ P \cap committed' = {} /\ (P \subseteq open'[p] \/ P \cap open'[p] = {})
    BY <1>1 DEF Settled
  <1> HIDE DEF P
  <1>3. CASE \A w \in P : (w \in committed' <=> w \in committed) /\ (w \in open'[p] <=> w \in open[p])
    BY <1>2, <1>3
  <1>4. CASE open'[p] = {} /\ \A w \in P : w \in committed' <=> w \in committed
    BY <1>2, <1>4
  <1>5. CASE open'[p] = {} /\ \A w \in P : w \in committed' <=> w \in committed \cup open[p]
    BY <1>2, <1>5
  <1> QED
    BY <1>3, <1>4, <1>5 DEF P

\* The part of another flush is left alone.
LEMMA PartStays ==
  ASSUME setup' = setup, NEW n, NEW p, NEW V, built' = built \cup V, \A w \in V : w.n # n
  PROVE  Part(n, p)' = Part(n, p)
  BY DEF Part, Pool, PoolOf, Upserts

LEMMA PartIs ==
  ASSUME NEW n, NEW p, NEW w \in Part(n, p)
  PROVE  w \in built /\ w.n = n /\ Pool(w.x) = p
  BY DEF Part

\* A step of one pool is no step of the parts in the others.
LEMMA PoolEnds ==
  ASSUME Typed, PoolsApart, setup' = setup, built' = built, NEW p \in Pools, NEW q \in Pools, NEW n,
         Settled(n, q),
         \A r \in Pools \ {p} : open'[r] = open[r],
         open'[p] \in {{}, open[p]},
         \/ committed' = committed
         \/ open'[p] = {} /\ committed' = committed \cup open[p]
  PROVE  Settled(n, q)'
  <1>1. Part(n, q)' = Part(n, q)
    BY DEF Part, Pool, PoolOf, Upserts
  <1>2. \A w \in Part(n, q) : Pool(w.x) = q
    BY DEF Part
  <1>3. q # p => \A w \in Part(n, q) : w \notin open[p]
    BY <1>2 DEF PoolsApart
  <1>4. CASE q # p
    BY <1>1, <1>3, <1>4, SettledStays
  <1>5. CASE q = p
    BY <1>1, <1>5, SettledStays
  <1> QED
    BY <1>4, <1>5


-----------------------------------------------------------------------------
(* The numbers of the writes.                                               *)

LEMMA NumberedStays ==
  ASSUME Typed, Numbered, setup' = setup, flushes' = flushes,
         NEW V, built' = built \cup V, \A w \in V : w.n = flushes,
         committed' \cup AllOpen' \cup afterLocal' \cup kept'.sets \subseteq built',
         \A f \in Flushers : localSets'[f] \subseteq built',
         pc' \in Running => kept'.sets = kept.sets /\ pc \in Running,
         Outermost' => Outermost /\ \A w \in V : w.op = "I" /\ w.x \in Upserts,
         torn \subseteq torn',
         \A f \in Flushers : \A w \in updates'[f] :
            \/ w.n \in torn'
            \/ w \in updates[f] /\ (f = cur => cur' = cur /\ tracked'[f] = tracked[f])
            \/ f = cur' /\ w.n = flushes /\ w.x \in tracked'[f]
  PROVE  Numbered'
  <1>1. flushes \in Nat
    BY SetupIs DEF Typed, TypeOK
  <1>2. \A w \in built' : w.n <= flushes'
    BY <1>1 DEF Numbered
  <1>3. pc' \in Running => \A w \in kept'.sets : w.n < flushes'
    BY DEF Numbered
  <1>4. Outermost' => \A p \in Pools : Part(flushes, p)' = {}
    <2> SUFFICES ASSUME Outermost', NEW p \in Pools, NEW w \in Part(flushes, p)'
                 PROVE  FALSE
      OBVIOUS
    <2>1. w \in built \cup V /\ w.n = flushes /\ Pool(w.x) = p /\ ~(w.op = "I" /\ w.x \in Upserts)
      BY DEF Part, Pool, PoolOf, Upserts
    <2>2. w \in Part(flushes, p)
      BY <2>1 DEF Part
    <2> QED
      BY <2>2 DEF Numbered
  <1>5. \A f \in Flushers : \A w \in updates'[f] :
            w.n \in torn' \/ (f = cur' /\ w.n = flushes' /\ w.x \in tracked'[f])
    BY DEF Numbered
  <1> QED
    BY <1>2, <1>3, <1>4, <1>5 DEF Numbered

LEMMA NumberedFlush ==
  ASSUME Typed, Numbered, setup' = setup, NEW f \in Flushers, NEW X \in SUBSET Entities, Flush(f, X)
  PROVE  Numbered'
  <1> USE DEF entityVars, poolVars, engineVars
  <1>1. /\ pc = "idle" /\ flushes' = flushes + 1
        /\ UNCHANGED <<built, open, committed, updates, localSets, afterLocal, kept, torn>>
    BY DEF Flush
  <1>2. flushes \in Nat /\ kept.sets \subseteq built
    BY SetupIs DEF Typed, TypeOK, Numbered
  <1>3. \A w \in built : w.n < flushes' /\ w.n # flushes'
    <2> SUFFICES ASSUME NEW w \in built PROVE w.n < flushes' /\ w.n # flushes'
      OBVIOUS
    <2>1. w.n <= flushes /\ w.n \in Int
      BY DEF Numbered, Typed, TypeOK, Writes
    <2> QED
      BY <1>1, <1>2, <2>1
  <1>4. cur = None
    BY <1>1 DEF Typed, TypeOK
  <1>5. \A w \in built' : w.n <= flushes'
    <2> SUFFICES ASSUME NEW w \in built PROVE w.n <= flushes'
      BY <1>1
    <2>1. w.n <= flushes /\ w.n \in Int
      BY DEF Numbered, Typed, TypeOK, Writes
    <2> QED
      BY <1>1, <1>2, <2>1
  <1>6. AllOpen' = AllOpen
    BY <1>1 DEF AllOpen
  <1>7. \A p \in Pools : Part(flushes, p)' = {}
    BY <1>1, <1>3 DEF Part
  <1>8. \A g \in Flushers : \A w \in updates'[g] : w.n \in torn'
    BY <1>1, <1>4, ObjectsAssumption DEF Numbered
  <1> QED
    BY <1>1, <1>2, <1>3, <1>5, <1>6, <1>7, <1>8 DEF Numbered


\* Within calls the top of the stack is not the outermost call.
LEMMA WithinIsDeeper ==
  ASSUME Typed, Calls, setup' = setup, Build \/ Caches
  PROVE  ~Outermost'
  <1> SUFFICES ASSUME pc' = "build", Top'.depth = 0 PROVE FALSE
    BY DEF Outermost
  <1>1. CASE Build
    <2>1. Split
      BY <1>1, BuildIs DEF Refused, Collects
    <2>2. Top' = Frame(Top.depth + 1, FALSE, Inside, Referred) /\ Top \in Frames
      BY <1>1, <2>1, PushedIs, BuildIs DEF Top
    <2> QED
      BY <2>2 DEF Frame, Frames
  <1>2. CASE Caches
    <2>1. /\ pc = "caches"
          /\ stack' \in Seq(Frames) /\ Len(stack') = Len(stack) - 1
          /\ Len(stack) \in Nat /\ Len(stack) >= 1
          /\ (\A i \in 1 .. Len(stack') : stack'[i] = stack[i + 1])
          /\ (stack' = << >> <=> Len(stack) = 1)
          /\ pc' = (IF stack' = << >> THEN "commit" ELSE "build")
      BY <1>2, CachesIs
    <2>2. stack' # << >>
      BY <2>1
    <2>3. Top' = stack'[1] /\ 1 \in 1 .. Len(stack') /\ 2 \in 1 .. Len(stack) /\ stack'[1] = stack[2]
      <3>1. Head(stack') = stack'[1]
        BY <2>1, <2>2, PopIs
      <3> QED
        BY <2>1, <2>2, <3>1 DEF Top
    <2>4. FrameOK(2) /\ Len(stack) # 1
      BY <2>1, <2>3 DEF Calls, FramesOK, Running
    <2> QED
      BY <2>3, <2>4 DEF FrameOK
  <1> QED
    BY <1>1, <1>2

LEMMA NumberedExecutes ==
  ASSUME Typed, LeftOver, Numbered, setup' = setup,
         NEW p \in Pools, NEW W \in SUBSET Writes, NEW V \in SUBSET Writes, Statement(p, W, V)
  PROVE  Numbered'
  <1>1. /\ cur \in Flushers /\ W \subseteq V \cup updates[cur]
        /\ localSets' = [localSets EXCEPT ![cur] = @ \cup V]
        /\ localSets \in [Flushers -> SUBSET Writes]
        /\ pc \in Running /\ pc' \in {pc, "fail"}
        /\ UNCHANGED <<updates, tracked, cur, kept, afterLocal, stack>>
        /\ (\A q \in Pools : open'[q] \subseteq open[q] \cup W) /\ committed' \subseteq committed \cup W
    BY DEF Statement, Enqueued, Typed, TypeOK
  <1>2. /\ built' = built \cup V /\ (\A w \in V : w.n = flushes)
        /\ (pc = "build" => \A w \in V : w.op = "I" /\ w.x \in Upserts)
        /\ UNCHANGED <<torn, flushes>>
    BY DEF Statement, Written
  <1>3. W \subseteq built'
    BY <1>1, <1>2 DEF LeftOver, Numbered
  <1>4. committed' \cup AllOpen' \cup afterLocal' \cup kept'.sets \subseteq built'
    BY <1>1, <1>2, <1>3 DEF Numbered, AllOpen
  <1>5. \A f \in Flushers : localSets'[f] \subseteq built'
    BY <1>1, <1>2 DEF Numbered
  <1>6. Outermost' => Outermost /\ \A w \in V : w.op = "I" /\ w.x \in Upserts
    BY <1>1, <1>2 DEF Outermost, Top, Running
  <1>7. pc' \in Running => kept'.sets = kept.sets /\ pc \in Running
    BY <1>1
  <1> QED
    BY <1>1, <1>2, <1>4, <1>5, <1>6, <1>7, NumberedStays

\* Steps that write nothing, and at most let go of what is open.
LEMMA NumberedMoves ==
  ASSUME Typed, Numbered, setup' = setup, UNCHANGED <<built, flushes>>,
         committed' \subseteq built, \A p \in Pools : open'[p] \subseteq open[p],
         afterLocal' \subseteq built, kept'.sets \subseteq built,
         \A f \in Flushers : localSets'[f] \subseteq built,
         pc' \in Running => kept'.sets = kept.sets /\ pc \in Running,
         Outermost' => Outermost,
         torn \subseteq torn',
         \A f \in Flushers : \A w \in updates'[f] :
            w.n \in torn' \/ (w \in updates[f] /\ (f = cur => cur' = cur /\ tracked'[f] = tracked[f]))
  PROVE  Numbered'
  <1>1. AllOpen' \subseteq built
    BY DEF Numbered, AllOpen
  <1> DEFINE V == {}
  <1>2. /\ built' = built \cup V /\ (\A w \in V : w.n = flushes) /\ flushes' = flushes
        /\ committed' \cup AllOpen' \cup afterLocal' \cup kept'.sets \subseteq built'
        /\ (\A f \in Flushers : localSets'[f] \subseteq built')
        /\ (Outermost' => Outermost /\ \A w \in V : w.op = "I" /\ w.x \in Upserts)
    BY <1>1
  <1> HIDE DEF V
  <1>3. \A f \in Flushers : \A w \in updates'[f] :
            \/ w.n \in torn'
            \/ w \in updates[f] /\ (f = cur => cur' = cur /\ tracked'[f] = tracked[f])
            \/ f = cur' /\ w.n = flushes /\ w.x \in tracked'[f]
    OBVIOUS
  <1> QED
    BY <1>2, <1>3, NumberedStays

LEMMA NumberedPool ==
  ASSUME Typed, Numbered, setup' = setup, NEW p \in Pools,
         Begin(p) \/ Commit(p) \/ Rollback(p) \/ CommitFails(p) \/ FlushCommit(p)
  PROVE  Numbered'
  <1> USE DEF entityVars, poolVars, flusherVars, engineVars, callVars, countVars, whyVars
  <1>0. /\ open \in [Pools -> SUBSET Writes] /\ kept \in [queue : SUBSET Writes, sets : SUBSET Writes]
        /\ committed \cup afterLocal \cup kept.sets \subseteq built
        /\ \A q \in Pools : open[q] \subseteq built
    BY DEF Typed, TypeOK, Numbered, AllOpen
  <1>1. /\ pc' \notin Running /\ UNCHANGED <<built, flushes, torn, updates, localSets, tracked, cur>>
    BY DEF Begin, Commit, Rollback, CommitFails, FlushCommit, Running
  <1>2. ~Outermost'
    BY <1>1 DEF Outermost, Running
  <1>3. /\ committed' \subseteq built /\ (\A q \in Pools : open'[q] \subseteq open[q])
        /\ afterLocal' \subseteq built /\ kept'.sets \subseteq built
    <2>1. CASE Committed(p)
      <3>1. /\ open' = [open EXCEPT ![p] = {}] /\ committed' = committed \cup open[p]
            /\ afterLocal' = {} /\ kept'.sets = kept.sets \cup (afterLocal \cap Elsewhere(p))
        BY <2>1, CommittedIs
      <3> QED
        BY <1>0, <3>1
    <2>2. CASE CommitError(p) /\ UNCHANGED <<committed, engineVars>>
      BY <1>0, <2>2 DEF CommitError
    <2>3. CASE Rollback(p)
      BY <1>0, <2>3 DEF Rollback, Undone, LetGo
    <2>4. CASE UNCHANGED <<open, committed, afterLocal, kept>>
      BY <1>0, <2>4
    <2> QED
      BY <2>1, <2>2, <2>3, <2>4 DEF Begin, Commit, CommitFails, FlushCommit
  <1>4. \A f \in Flushers : localSets'[f] \subseteq built
    BY <1>1 DEF Numbered
  <1> QED
    BY <1>1, <1>2, <1>3, <1>4, NumberedMoves

\* A panic: the flushes that it tears.
LEMMA PanicTears ==
  ASSUME Typed, FlushPanics
  PROVE  \E Q \in SUBSET PoolsOf(tracked[cur]) :
           /\ \A p \in Pools : open'[p] = IF p \in Q THEN {} ELSE open[p]
           /\ torn' = torn \cup (IF Q = PoolsOf(tracked[cur]) THEN {} ELSE {flushes})
                           \cup {w.n : w \in updates'[cur]}
  <1>1. PICK Q \in SUBSET (PoolsOf(tracked[cur]) \ {p \in PoolsOf(tracked[cur]) : tx[p] = "broken"}) :
          /\ Undone(Q)
          /\ torn' = torn \cup (IF Q = PoolsOf(tracked[cur]) THEN {} ELSE {flushes}) \cup {w.n : w \in updates'[cur]}
    BY DEF FlushPanics
  <1> QED
    BY <1>1 DEF Undone


LEMMA NumberedNext ==
  ASSUME Typed, Calls, LeftOver, Numbered, [Next]_vars
  PROVE  Numbered'
  <1> USE DEF entityVars, poolVars, flusherVars, engineVars, callVars, countVars, whyVars
  <1>0. setup' = setup
    BY StepIs
  <1>1. /\ open \in [Pools -> SUBSET Writes] /\ kept \in [queue : SUBSET Writes, sets : SUBSET Writes]
        /\ updates \in [Flushers -> SUBSET Writes] /\ localSets \in [Flushers -> SUBSET Writes]
        /\ tracked \in [Flushers -> SUBSET Entities]
        /\ committed \cup afterLocal \cup kept.sets \subseteq built
        /\ (\A f \in Flushers : localSets[f] \subseteq built)
        /\ (pc # "idle" => cur \in Flushers) /\ (pc = "idle" => cur = None) /\ None \notin Flushers
    BY ObjectsAssumption DEF Typed, TypeOK, Numbered
  \* Steps that keep the queues and what MySQL has.
  <1>2. ASSUME UNCHANGED <<built, flushes, committed, open, afterLocal, localSets, kept, torn, updates>>,
               cur # None => UNCHANGED <<cur, tracked>>,
               pc' \in Running => pc \in Running, Outermost' => Outermost
        PROVE  Numbered'
    <2>1. \A f \in Flushers : \A w \in updates'[f] :
             w.n \in torn' \/ (w \in updates[f] /\ (f = cur => cur' = cur /\ tracked'[f] = tracked[f]))
      BY <1>1, <1>2
    <2> QED
      BY <1>0, <1>1, <1>2, <2>1, NumberedMoves
  <1>3. ASSUME NEW x \in Entities, Change(x) PROVE Numbered'
    BY <1>2, <1>3 DEF Change, Running, Outermost
  <1>4. ASSUME NEW f \in Flushers, NewFlusher(f) PROVE Numbered'
    <2>1. /\ pc = "idle" /\ pc' = "idle" /\ cur = None /\ cur' = cur
          /\ UNCHANGED <<built, flushes, committed, open, afterLocal, kept, torn>>
          /\ updates' = [updates EXCEPT ![f] = {}] /\ localSets' = [localSets EXCEPT ![f] = {}]
      BY <1>1, <1>4 DEF NewFlusher, Fresh
    <2>2. (\A g \in Flushers : updates'[g] \subseteq updates[g]) /\ (\A g \in Flushers : localSets'[g] \subseteq built)
      BY <1>1, <2>1
    <2>3. \A g \in Flushers : \A w \in updates'[g] :
             w.n \in torn' \/ (w \in updates[g] /\ (g = cur => cur' = cur /\ tracked'[g] = tracked[g]))
      BY <1>1, <2>1, <2>2
    <2> QED
      BY <1>0, <1>1, <2>1, <2>2, <2>3, NumberedMoves DEF Running, Outermost
  <1>5. ASSUME NEW f \in Flushers, NEW X \in SUBSET Entities, Flush(f, X) PROVE Numbered'
    BY <1>0, <1>5, NumberedFlush
  <1>6. ASSUME NEW p \in Pools, Begin(p) \/ Commit(p) \/ Rollback(p) \/ CommitFails(p) \/ FlushCommit(p)
        PROVE  Numbered'
    BY <1>0, <1>6, NumberedPool
  <1>7. CASE Executes
    <2>1. PICK p \in Pools, W \in SUBSET Writes, V \in SUBSET Writes : Statement(p, W, V)
      BY <1>0, <1>7, StatementIs
    <2> QED
      BY <1>0, <2>1, NumberedExecutes
  <1>8. CASE Moves
    <2>1. /\ UNCHANGED <<built, flushes, committed, open, afterLocal, localSets, kept, torn, updates, cur, tracked>>
          /\ pc \in Running /\ pc' # "build"
      BY <1>8 DEF Moves, Inserted, Updated, Deleted, Running
    <2> QED
      BY <1>2, <2>1 DEF Outermost
  <1>9. CASE Build
    <2>1. /\ pc = "build" /\ cur \in Flushers
          /\ DirtyWrites \in SUBSET Writes
          /\ (\A w \in DirtyWrites : w.x \in Ready /\ state[w.x] = "dirty" /\ w.op = "U")
          /\ Ready \subseteq Top.ents /\ Top.ents \subseteq Entities
          /\ built' = built \cup DirtyWrites
          /\ updates' = [updates EXCEPT ![cur] = @ \cup DirtyWrites]
          /\ Queued(cur, DirtyWrites)
          /\ UNCHANGED <<open, committed, tracked, afterLocal, cur, flushes, kept>>
          /\ Refused \/ Split \/ Collects
      BY <1>9, BuildIs
    <2>2. localSets' = [localSets EXCEPT ![cur] = @ \cup DirtyWrites]
      <3>1. Enqueued(cur, DirtyWrites)
        BY <2>1, QueuedIs
      <3> QED
        BY <3>1 DEF Enqueued
    <2>3. torn \subseteq torn'
      BY <2>1 DEF Refused, Split, Collects
    <2>4. \A w \in DirtyWrites : w.n = flushes
      BY DEF DirtyWrites, Write
    <2>5. \A w \in DirtyWrites : w.x \in tracked[cur]
      <3>1. Top = stack[1] /\ FrameOK(1)
        <4>1. stack \in Seq(Frames) /\ stack # << >>
          BY <2>1, BuildIs, <1>9 DEF Typed
        <4>2. Top = stack[1] /\ Len(stack) \in Nat /\ Len(stack) >= 1
          BY <4>1, PopIs DEF Top
        <4> QED
          BY <2>1, <4>2 DEF Calls, FramesOK, Running
      <3> QED
        BY <2>1, <3>1 DEF FrameOK
    <2>6. ~Outermost'
      BY <1>0, <1>9, WithinIsDeeper
    <2>7. AllOpen' \subseteq built
      BY <2>1 DEF AllOpen, Numbered
    <2>8. \A f \in Flushers : localSets'[f] \subseteq built'
      BY <1>1, <2>1, <2>2
    <2>9. \A f \in Flushers : \A w \in updates'[f] :
            \/ w.n \in torn'
            \/ w \in updates[f] /\ (f = cur => cur' = cur /\ tracked'[f] = tracked[f])
            \/ f = cur' /\ w.n = flushes /\ w.x \in tracked'[f]
      BY <1>1, <2>1, <2>4, <2>5
    <2>10. committed' \cup AllOpen' \cup afterLocal' \cup kept'.sets \subseteq built'
      BY <1>1, <2>1, <2>7
    <2>11. pc' \in Running => kept'.sets = kept.sets /\ pc \in Running
      BY <2>1 DEF Running
    <2> QED
      BY <1>0, <2>1, <2>3, <2>4, <2>6, <2>8, <2>9, <2>10, <2>11, NumberedStays
  <1>10. CASE Caches
    <2>1. /\ pc = "caches" /\ cur \in Flushers /\ kept'.sets = kept.sets
          /\ afterLocal' \subseteq afterLocal \cup localSets[cur]
          /\ UNCHANGED <<built, open, committed, tracked, updates, localSets, cur, flushes, torn>>
      BY <1>10, CachesIs
    <2>2. ~Outermost'
      BY <1>0, <1>10, WithinIsDeeper
    <2> QED
      BY <1>0, <1>1, <2>1, <2>2, NumberedMoves DEF Running
  <1>11. CASE Return
    <2>1. /\ pc' = "idle" /\ cur \in Flushers
          /\ updates' = [updates EXCEPT ![cur] = {}] /\ localSets' = [localSets EXCEPT ![cur] = {}]
          /\ UNCHANGED <<built, flushes, committed, open, afterLocal, kept, torn>>
      BY <1>1, <1>11 DEF Return, Fresh
    <2>2. (\A g \in Flushers : updates'[g] \subseteq updates[g]) /\ (\A g \in Flushers : localSets'[g] \subseteq built)
          /\ updates'[cur] = {}
      BY <1>1, <2>1
    <2> QED
      BY <1>0, <1>1, <2>1, <2>2, NumberedMoves DEF Running, Outermost
  <1>12. CASE FlushPanics
    <2>1. /\ pc' = "idle" /\ cur \in Flushers
          /\ (\A g \in Flushers \ {cur} : updates'[g] = updates[g] /\ localSets'[g] = localSets[g])
          /\ \/ updates'[cur] = {} /\ localSets'[cur] = {} /\ kept'.sets = kept.sets
             \/ updates' = updates /\ localSets' = localSets /\ kept'.sets = kept.sets \cup (localSets[cur] \ committed)
          /\ UNCHANGED <<built, committed, flushes>>
          /\ afterLocal' \in {afterLocal, {}}
      BY <1>12, PanicIs
    <2>2. /\ torn \subseteq torn' /\ (\A w \in updates'[cur] : w.n \in torn')
          /\ \A p \in Pools : open'[p] \subseteq open[p]
      <3>1. PICK Q \in SUBSET PoolsOf(tracked[cur]) :
           /\ \A p \in Pools : open'[p] = IF p \in Q THEN {} ELSE open[p]
           /\ torn' = torn \cup (IF Q = PoolsOf(tracked[cur]) THEN {} ELSE {flushes})
                           \cup {w.n : w \in updates'[cur]}
        BY <1>12, PanicTears
      <3> QED
        BY <3>1
    <2>3. kept'.sets \subseteq built /\ afterLocal' \subseteq built /\ \A g \in Flushers : localSets'[g] \subseteq built
      BY <1>1, <2>1
    <2>4. \A f \in Flushers : \A w \in updates'[f] :
             w.n \in torn' \/ (w \in updates[f] /\ (f = cur => cur' = cur /\ tracked'[f] = tracked[f]))
      BY <2>1, <2>2
    <2> QED
      BY <1>0, <1>1, <2>1, <2>2, <2>3, <2>4, NumberedMoves DEF Running, Outermost
  <1>13. CASE Overflow
    <2>1. /\ pc' = "idle" /\ open' = [p \in Pools |-> {}] /\ afterLocal' = {}
          /\ updates' = [f \in Flushers |-> {}] /\ localSets' = [f \in Flushers |-> {}]
          /\ UNCHANGED <<built, committed, flushes, kept, torn>>
      BY <1>13, OverflowIs
    <2> QED
      BY <1>0, <1>1, <2>1, NumberedMoves DEF Running, Outermost
  <1>14. CASE UNCHANGED vars
    <2>1. Outermost' => Outermost
      BY <1>14 DEF vars, Outermost, Top
    <2> QED
      BY <1>2, <1>14, <2>1 DEF vars
  <1> QED
    BY <1>3, <1>4, <1>5, <1>6, <1>7, <1>8, <1>9, <1>10, <1>11, <1>12, <1>13, <1>14, StepIs


-----------------------------------------------------------------------------
(* A flush in a transaction.                                                *)

LEMMA PendingUndoes ==
  Typed /\ Numbered /\ Pending /\ flushes \notin torn /\ cur \in Flushers => \A p \in Pools : Undoing(p)
  <1> SUFFICES ASSUME Typed, Numbered, Pending, flushes \notin torn, cur \in Flushers, NEW p \in Pools
               PROVE  Undoing(p)
    OBVIOUS
  <1>1. Part(flushes, p) \cap committed = {}
    BY DEF Pending
  <1>2. CASE Part(flushes, p) \subseteq open[p]
    BY <1>1, <1>2 DEF Undoing, Settled
  <1>3. CASE ~(Part(flushes, p) \subseteq open[p])
    <2>1. PICK w \in Part(flushes, p) : w \notin open[p]
      BY <1>3
    <2>2. w \in updates[cur] /\ w.n = flushes /\ Pool(w.x) = p
      BY <2>1 DEF Pending, Part
    <2>3. w.x \in tracked[cur]
      BY <2>2 DEF Numbered
    <2>4. p \in PoolsOf(tracked[cur])
      BY <2>2, <2>3 DEF PoolsOf
    <2> QED
      BY <1>1, <2>4 DEF Undoing
  <1> QED
    BY <1>2, <1>3

LEMMA OutermostPends ==
  ASSUME Numbered, Outermost
  PROVE  Pending
  BY DEF Numbered, Pending

\* What is new in the part of the flush that is under way.
LEMMA PartGrows ==
  ASSUME setup' = setup, flushes' = flushes, NEW V, built' = built \cup V, NEW p, NEW w \in Part(flushes, p)'
  PROVE  /\ w \in Part(flushes, p) \/ (w \in V /\ w \notin built)
         /\ Pool(w.x) = p /\ w.n = flushes /\ ~(w.op = "I" /\ w.x \in Upserts)
  <1>1. w \in built' /\ w.n = flushes /\ Pool(w.x) = p /\ ~(w.op = "I" /\ w.x \in Upserts)
    BY DEF Part, Pool, PoolOf, Upserts
  <1> QED
    BY <1>1 DEF Part

LEMMA PendingBuild ==
  ASSUME Typed, Numbered, Pending, Build, setup' = setup
  PROVE  Pending'
  <1>1. /\ cur \in Flushers /\ built' = built \cup DirtyWrites
        /\ updates' = [updates EXCEPT ![cur] = @ \cup DirtyWrites]
        /\ updates \in [Flushers -> SUBSET Writes]
        /\ UNCHANGED <<open, committed, cur, flushes>>
    BY BuildIs DEF Typed, TypeOK
  <1>2. updates'[cur] = updates[cur] \cup DirtyWrites
    BY <1>1
  <1> SUFFICES ASSUME NEW p \in Pools, NEW w \in Part(flushes, p)'
               PROVE  w \notin committed /\ (w \in updates'[cur] \/ w \in open[p])
    BY <1>1 DEF Pending
  <1>3. w \in Part(flushes, p) \/ (w \in DirtyWrites /\ w \notin built)
    BY <1>1, PartGrows
  <1> QED
    BY <1>2, <1>3 DEF Pending, Numbered

LEMMA CoveredExecutes ==
  ASSUME Typed, Calls, LeftOver, Numbered, Covered, flushes \notin torn, setup' = setup,
         NEW p \in Pools, NEW W \in SUBSET Writes, NEW V \in SUBSET Writes, Statement(p, W, V)
  PROVE  Covered'
  <1>1. /\ cur \in Flushers /\ pc \in Running /\ V \subseteq W /\ W \subseteq V \cup updates[cur]
        /\ (\A w \in W : Pool(w.x) = p)
        /\ tx' = tx /\ (\A q \in Pools \ {p} : open'[q] = open[q])
        /\ (IF tx[p] = "open" THEN open'[p] = open[p] \cup W /\ committed' = committed
                              ELSE open' = open /\ committed' = committed \cup W)
        /\ (\A w \in V : w.x \in Top.ents \cup deletes[cur] \cup (IF pc = "insert" THEN batch ELSE {}))
        /\ UNCHANGED <<tracked, updates, cur, stack>>
    BY DEF Statement
  <1>2. /\ built' = built \cup V /\ (\A w \in V : w.n = flushes)
        /\ (tx[p] = "broken" => W = {}) /\ flushes' = flushes
    BY DEF Statement, Written
  <1>3. \A x \in Top.ents \cup deletes[cur] \cup (IF pc = "insert" THEN batch ELSE {}) : tx[Pool(x)] # "none"
    <2>1. Top = stack[1] /\ 1 \in 1 .. Len(stack)
      <3>1. stack \in Seq(Frames) /\ stack # << >>
        BY <1>1 DEF Typed
      <3> QED
        BY <3>1, PopIs DEF Top
    <2>2. deletes[cur] \subseteq tracked[cur] /\ (pc = "insert" => batch \subseteq Top.ents)
      BY <1>1 DEF Calls
    <2> QED
      BY <2>1, <2>2 DEF Covered
  <1>4. \A w \in W : w.n = flushes => tx[p] = "open"
    <2> SUFFICES ASSUME NEW w \in W, w.n = flushes PROVE tx[Pool(w.x)] # "none" /\ tx[p] # "broken"
      BY <1>1 DEF Typed, TypeOK
    <2>1. w \in V \/ w.x \in tracked[cur]
      BY <1>1 DEF Numbered
    <2>2. tx[Pool(w.x)] # "none"
      BY <1>1, <1>3, <2>1 DEF Covered
    <2> QED
      BY <1>2, <2>2
  <1>5. Pending'
    <2> SUFFICES ASSUME NEW q \in Pools, NEW w \in Part(flushes, q)'
                 PROVE  w \notin committed' /\ (w \in updates[cur] \/ w \in open'[q])
      BY <1>1, <1>2 DEF Pending
    <2>1. w \in Part(flushes, q) \/ (w \in V /\ w \notin built)
      BY <1>2, PartGrows
    <2>2. Pool(w.x) = q /\ w.n = flushes
      BY <1>2, PartGrows
    <2>3. w \notin committed
      BY <2>1 DEF Covered, Pending, Numbered
    <2>4. w \notin committed'
      BY <1>1, <1>4, <2>2, <2>3
    <2>5. CASE w \in Part(flushes, q)
      BY <1>1, <2>4, <2>5 DEF Covered, Pending
    <2>6. CASE w \in V
      BY <1>1, <1>4, <2>2, <2>4, <2>6
    <2> QED
      BY <2>1, <2>5, <2>6
  <1>6. \A x : Pool(x)' = Pool(x)
    BY DEF Pool, PoolOf
  <1> QED
    BY <1>1, <1>5, <1>6 DEF Covered

LEMMA CoveredStays ==
  ASSUME Covered, setup' = setup, UNCHANGED <<tracked, cur, stack, tx, built, committed, updates, open, flushes>>
  PROVE  Covered'
  BY DEF Covered, Pending, Part, Pool, PoolOf, Upserts


LEMMA CoveredBuild ==
  ASSUME Typed, Calls, Numbered, Build, setup' = setup, Covered \/ Outermost, flushes \notin torn',
         Split \/ (Collects /\ (inTx' \/ Covered))
  PROVE  Covered'
  <1>1. /\ pc = "build" /\ cur \in Flushers /\ Top \in Frames /\ stack # << >> /\ Top.ents \subseteq Entities
        /\ (\A q \in Pools : tx'[q] = IF Starts /\ tx[q] = "none" /\ q \in PoolsOf(tracked[cur])
                                      THEN "open" ELSE tx[q])
        /\ UNCHANGED <<tracked, cur>>
    BY BuildIs
  <1>2. (\A x \in Entities : Pool(x) \in Pools) /\ tracked[cur] \subseteq Entities
    BY <1>1, SetupIs DEF Typed, TypeOK
  <1>3. Top = stack[1] /\ Len(stack) \in Nat /\ Len(stack) >= 1 /\ FrameOK(1)
        /\ \A i \in 1 .. Len(stack) : stack[i] \in Frames
    <2>1. stack \in Seq(Frames)
      BY DEF Typed
    <2>2. Top = stack[1] /\ Len(stack) \in Nat /\ Len(stack) >= 1
      BY <1>1, <2>1, PopIs DEF Top
    <2> QED
      BY <1>1, <2>1, <2>2, ElementOfSeq DEF Calls, FramesOK, Running
  <1>4. Pending'
    <2>1. Pending
      BY OutermostPends DEF Covered
    <2> QED
      BY <2>1, PendingBuild
  <1>6. \A x \in Entities : tx[Pool(x)] # "none" => tx'[Pool(x)] # "none"
    BY <1>1, <1>2
  <1>5. \A x \in Top.ents : tx'[Pool(x)] # "none"
    <2>1. CASE Split \/ (Collects /\ inTx')
      BY <1>1, <1>2, <2>1 DEF Split, Collects, PoolsOf
    <2>2. CASE Covered
      <3>1. 1 \in 1 .. Len(stack)
        BY <1>3
      <3> QED
        BY <1>1, <1>3, <1>6, <2>2, <3>1 DEF Covered
    <2> QED
      BY <2>1, <2>2
  <1>7. \A x \in tracked[cur] : tx'[Pool(x)] # "none"
    <2>1. CASE Covered
      BY <1>2, <1>6, <2>1 DEF Covered
    <2>2. CASE Outermost
      BY <1>3, <1>5, <2>2 DEF Outermost, FrameOK
    <2> QED
      BY <2>1, <2>2
  <1>8. \A i \in 2 .. Len(stack) : \A x \in stack[i].ents : tx'[Pool(x)] # "none"
    <2> SUFFICES ASSUME NEW i \in 2 .. Len(stack), NEW x \in stack[i].ents PROVE tx'[Pool(x)] # "none"
      OBVIOUS
    <2>1. i \in 1 .. Len(stack) /\ Len(stack) # 1
      BY <1>3
    <2>2. x \in Entities /\ ~Outermost
      BY <1>3, <2>1 DEF Outermost, FrameOK, Frames
    <2> QED
      BY <1>6, <2>1, <2>2 DEF Covered
  <1>9. \A i \in 1 .. Len(stack') : \A x \in stack'[i].ents : tx'[Pool(x)] # "none"
    <2>1. CASE Collects
      <3>1. stack' = stack
        BY <2>1 DEF Collects
      <3>2. \A i \in 1 .. Len(stack) : i = 1 \/ i \in 2 .. Len(stack)
        BY <1>3
      <3> QED
        BY <1>3, <1>5, <1>8, <3>1, <3>2
    <2>2. CASE Split
      <3>1. /\ stack'[1] = Frame(Top.depth + 1, FALSE, Inside, Referred)
            /\ Rest = {} => /\ Len(stack') = Len(stack)
                            /\ \A i \in 2 .. Len(stack') : stack'[i] = stack[i]
            /\ Rest # {} => /\ Len(stack') = Len(stack) + 1
                            /\ stack'[2] = Frame(Top.depth + 1, TRUE, Inside, Rest)
                            /\ \A i \in 3 .. Len(stack') : stack'[i] = stack[i - 1]
        BY <2>2, PushedIs
      <3>2. \A x \in Referred \cup Rest : tx'[Pool(x)] # "none"
        <4>1. Referred \subseteq Entities
          BY BuildIs
        <4>2. \A q \in PoolsOf(Referred \cup Top.ents) : tx'[q] # "none"
          BY <2>2 DEF Split
        <4> QED
          BY <4>2 DEF PoolsOf, Rest
      <3>3. stack'[1].ents = Referred /\ (Rest # {} => stack'[2].ents = Rest)
        BY <3>1 DEF Frame
      <3>4. CASE Rest = {}
        <4>1. \A i \in 1 .. Len(stack) : i = 1 \/ i \in 2 .. Len(stack)
          BY <1>3
        <4> QED
          BY <1>8, <3>1, <3>2, <3>3, <3>4, <4>1
      <3>5. CASE Rest # {}
        <4>1. \A i \in 1 .. Len(stack) + 1 : i = 1 \/ i = 2 \/ (i \in 3 .. Len(stack) + 1 /\ i - 1 \in 2 .. Len(stack))
          BY <1>3
        <4> QED
          BY <1>8, <3>1, <3>2, <3>3, <3>5, <4>1
      <3> QED
        BY <3>4, <3>5
    <2> QED
      BY <2>1, <2>2
  <1>10. \A x : Pool(x)' = Pool(x)
    BY DEF Pool, PoolOf
  <1> QED
    BY <1>1, <1>4, <1>7, <1>9, <1>10 DEF Covered

\* Pops of the stack: the flush goes on, or is done.
LEMMA CoveredCaches ==
  ASSUME Typed, Calls, PoolsApart, Statements, Numbered, Covered, Caches, setup' = setup
  PROVE  /\ pc' = "build" => Covered'
         /\ pc' = "commit" => \A p \in Pools : Settled(flushes, p)'
  <1>1. /\ pc = "caches" /\ cur \in Flushers
        /\ stack' \in Seq(Frames) /\ Len(stack') = Len(stack) - 1
        /\ Len(stack) \in Nat /\ Len(stack) >= 1 /\ Top = stack[1]
        /\ (\A i \in 1 .. Len(stack') : stack'[i] = stack[i + 1])
        /\ (stack' = << >> <=> Len(stack) = 1)
        /\ pc' = (IF stack' = << >> THEN "commit" ELSE "build")
        /\ UNCHANGED <<built, tx, open, committed, tracked, updates, cur, flushes, torn>>
    BY CachesIs
  <1>2. Pending' /\ \A x : Pool(x)' = Pool(x)
    BY <1>1 DEF Covered, Pending, Part, Pool, PoolOf, Upserts
  <1>3. Covered'
    <2>1. \A i \in 1 .. Len(stack') : i + 1 \in 1 .. Len(stack)
      BY <1>1
    <2> QED
      BY <1>1, <1>2, <2>1 DEF Covered
  <1>4. ASSUME pc' = "commit", NEW p \in Pools PROVE Settled(flushes, p)'
    <2>1. Len(stack) = 1
      BY <1>1, <1>4
    <2>2. \A w \in updates[cur] : Done(w)
      BY <1>1, <2>1 DEF Statements, Waits
    <2>3. \A w \in Part(flushes, p) : w \in open[p]
      <3> SUFFICES ASSUME NEW w \in Part(flushes, p), w \in updates[cur] PROVE w \in open[p]
        BY DEF Covered, Pending
      <3>1. w \notin committed /\ w.n = flushes /\ Pool(w.x) = p
        BY PartIs DEF Covered, Pending
      <3>2. w \notin kept.sets
        <4>1. w \in kept.sets => flushes < flushes
          BY <1>1, <3>1 DEF Numbered, Running
        <4>2. flushes \in Int
          BY SetupIs DEF Typed, TypeOK
        <4> QED
          BY <4>1, <4>2
      <3>3. w \in AllOpen
        BY <2>2, <3>1, <3>2 DEF Done
      <3> QED
        BY <3>1, <3>3 DEF AllOpen, PoolsApart
    <2>4. Settled(flushes, p)
      BY <2>3 DEF Settled, Covered, Pending
    <2> QED
      BY <1>1, <2>4 DEF Settled, Part, Pool, PoolOf, Upserts
  <1> QED
    BY <1>3, <1>4


-----------------------------------------------------------------------------
(* A flush without a transaction.                                           *)

LEMMA WritesFinite == ASSUME Typed PROVE IsFiniteSet(Writes)
  <1> DEFINE Ops == {"I", "U", "D"}
             S == Entities \X (Ops \X (1 .. MaxFlushes))
             g == [s \in S |-> [x |-> s[1], op |-> s[2][1], n |-> s[2][2]]]
  <1>1. MaxFlushes \in Nat
    BY SetupIs DEF Typed, TypeOK
  <1>2. IsFiniteSet(Ops)
    <2>1. IsFiniteSet({"I"})
      BY FS_Singleton
    <2>2. IsFiniteSet({"I"} \cup {"U"})
      BY <2>1, FS_AddElement
    <2>3. IsFiniteSet(({"I"} \cup {"U"}) \cup {"D"})
      BY <2>2, FS_AddElement
    <2>4. Ops = ({"I"} \cup {"U"}) \cup {"D"}
      OBVIOUS
    <2> QED
      BY <2>3, <2>4
  <1>3. IsFiniteSet(1 .. MaxFlushes)
    BY <1>1, FS_Interval
  <1>4. IsFiniteSet(Ops \X (1 .. MaxFlushes))
    BY <1>2, <1>3, FS_Product
  <1>5. IsFiniteSet(S)
    BY <1>4, EntitiesAssumption, FS_Product
  <1>6. g \in [S -> Writes]
    BY DEF Writes
  <1>7. \A w \in Writes : \E s \in S : g[s] = w
    <2> SUFFICES ASSUME NEW w \in Writes PROVE \E s \in S : g[s] = w
      OBVIOUS
    <2>1. <<w.x, <<w.op, w.n>>>> \in S
      BY DEF Writes
    <2>2. g[<<w.x, <<w.op, w.n>>>>] = [x |-> w.x, op |-> w.op, n |-> w.n]
      BY <2>1
    <2>3. w = [x |-> w.x, op |-> w.op, n |-> w.n]
      BY DEF Writes
    <2> QED
      BY <2>1, <2>2, <2>3
  <1> HIDE DEF S, g
  <1>8. g \in Surjection(S, Writes)
    BY <1>6, <1>7 DEF Surjection
  <1> QED
    BY <1>5, <1>8, FS_Surjection

\* Sets of at most one element.
LEMMA AtMostOne ==
  ASSUME NEW S, IsFiniteSet(S)
  PROVE  /\ Cardinality(S) \in Nat
         /\ Cardinality(S) = 0 <=> S = {}
         /\ Cardinality(S) <= 1 => \A u, v \in S : u = v
  <1>1. Cardinality(S) \in Nat /\ (Cardinality(S) = 0 <=> S = {})
    BY FS_CardinalityType, FS_EmptySet
  <1>2. Cardinality(S) = 1 => \E x : S = {x}
    BY FS_Singleton
  <1> QED
    BY <1>1, <1>2

LEMMA TypesFinite ==
  ASSUME Typed, NEW X \in SUBSET Entities
  PROVE  IsFiniteSet(X) /\ IsFiniteSet(TypesOf(X)) /\ (TypesOf(X) = {} <=> X = {})
         /\ TypesOf(X) \subseteq Types
  <1> DEFINE g == [x \in X |-> TypeOf[x]]
  <1>1. IsFiniteSet(X)
    BY EntitiesAssumption, FS_Subset
  <1>2. g \in Surjection(X, TypesOf(X))
    BY DEF TypesOf, Surjection
  <1>3. IsFiniteSet(TypesOf(X))
    BY <1>1, <1>2, FS_Surjection
  <1>4. TypesOf(X) \subseteq Types
    BY SetupsAssumption DEF TypesOf
  <1> QED
    BY <1>1, <1>3, <1>4 DEF TypesOf

LEMMA PoolsFinite ==
  ASSUME Typed, NEW U \in SUBSET Writes
  PROVE  IsFiniteSet(U) /\ IsFiniteSet(PoolsOf(EntitiesOf(U))) /\ (PoolsOf(EntitiesOf(U)) = {} <=> U = {})
  <1> DEFINE g == [w \in U |-> Pool(w.x)]
  <1>1. IsFiniteSet(U)
    BY WritesFinite, FS_Subset
  <1>2. g \in Surjection(U, PoolsOf(EntitiesOf(U)))
    BY DEF PoolsOf, EntitiesOf, Surjection
  <1>3. IsFiniteSet(PoolsOf(EntitiesOf(U)))
    BY <1>1, <1>2, FS_Surjection
  <1> QED
    BY <1>1, <1>3 DEF PoolsOf, EntitiesOf

\* A flush that needs no transaction has one statement at most.
LEMMA OneStatement ==
  ASSUME Typed, NEW I \in SUBSET Entities, NEW U \in SUBSET Writes, NEW D \in SUBSET Entities,
         ~NeedsTransaction(I, U, D)
  PROVE  /\ \A u, v \in U : u = v
         /\ \/ I = {} /\ D = {}
            \/ U = {} /\ D = {} /\ \A s, t \in TypesOf(I) : s = t
            \/ U = {} /\ I = {} /\ \A s, t \in TypesOf(D) : s = t
  <1> DEFINE i == Cardinality(TypesOf(I))
             u == Cardinality(PoolsOf(EntitiesOf(U)))
             d == Cardinality(TypesOf(D))
             c == Cardinality(U)
  <1>1. /\ i \in Nat /\ (i = 0 <=> I = {}) /\ (i <= 1 => \A s, t \in TypesOf(I) : s = t)
        /\ d \in Nat /\ (d = 0 <=> D = {}) /\ (d <= 1 => \A s, t \in TypesOf(D) : s = t)
    BY TypesFinite, AtMostOne
  <1>2. u \in Nat /\ (u = 0 <=> U = {}) /\ c \in Nat /\ (c <= 1 => \A v, w \in U : v = w)
    BY PoolsFinite, AtMostOne
  <1>3. ~(i + u + d > 1) /\ ~(c > 1)
    BY DEF NeedsTransaction
  <1> HIDE DEF i, u, d, c
  <1>4. c <= 1
    BY <1>2, <1>3
  <1>5. (i = 0 /\ d = 0) \/ (u = 0 /\ d = 0 /\ i <= 1) \/ (u = 0 /\ i = 0 /\ d <= 1)
    BY <1>1, <1>2, <1>3
  <1> QED
    BY <1>1, <1>2, <1>4, <1>5


LEMMA LoneBuild ==
  ASSUME Typed, Calls, Numbered, Build, setup' = setup, Outermost, Collects, ~inTx'
  PROVE  Lone'
  <1>1. /\ cur \in Flushers /\ Collected \subseteq Ready /\ Ready \subseteq Top.ents /\ Top.ents \subseteq Entities
        /\ built' = built \cup DirtyWrites /\ updates' = [updates EXCEPT ![cur] = @ \cup DirtyWrites]
        /\ updates' \in [Flushers -> SUBSET Writes] /\ deletes' \in [Flushers -> SUBSET Entities]
        /\ useTx' = (IF Top.depth = 0 THEN Starts ELSE useTx)
        /\ UNCHANGED <<tracked, cur, flushes, committed>>
    BY BuildIs
  <1>2. /\ pc' = "insert" /\ left' = TypesOf(Collected) /\ stack' = stack
        /\ Referred = {} /\ inTx' = (Inside \/ Starts)
    BY DEF Collects
  <1>3. ~Starts /\ ~Inside /\ ~NeedsTransaction(Collected, updates'[cur], deletes'[cur])
    BY <1>2 DEF Starts
  <1>4. ~inTx' /\ ~useTx' /\ Top'.depth = 0
    BY <1>1, <1>2, <1>3 DEF Outermost, Top
  <1>5. \A p \in Pools : Part(flushes, p)' \subseteq DirtyWrites
    <2> SUFFICES ASSUME NEW p \in Pools, NEW w \in Part(flushes, p)' PROVE w \in DirtyWrites
      OBVIOUS
    <2>1. w \in Part(flushes, p) \/ w \in DirtyWrites
      BY <1>1, PartGrows
    <2> QED
      BY <2>1 DEF Numbered
  <1>6. DirtyWrites \subseteq updates'[cur]
    BY <1>1 DEF Typed, TypeOK
  <1> DEFINE I == Collected
             U == updates'[cur]
             D == deletes'[cur]
  <1>7. I \in SUBSET Entities /\ U \in SUBSET Writes /\ D \in SUBSET Entities /\ ~NeedsTransaction(I, U, D)
    BY <1>1, <1>3
  <1>10. TypesOf(deletes[cur])' = TypesOf(D) /\ updates[cur]' = U /\ deletes[cur]' = D
    BY <1>1 DEF TypesOf
  <1> HIDE DEF I, U, D
  <1>8. /\ \A u, v \in U : u = v
        /\ \/ I = {} /\ D = {}
           \/ U = {} /\ D = {} /\ \A s, t \in TypesOf(I) : s = t
           \/ U = {} /\ I = {} /\ \A s, t \in TypesOf(D) : s = t
    BY <1>7, OneStatement
  <1>9. /\ TypesOf(I) \subseteq Types /\ (TypesOf(I) = {} <=> I = {})
        /\ TypesOf(D) \subseteq Types /\ (TypesOf(D) = {} <=> D = {})
    BY <1>7, TypesFinite
  <1>11. CASE I = {} /\ D = {}
    <2>1. left' = {} /\ D = {}
      BY <1>2, <1>9, <1>11 DEF I
    <2>2. NoneLeft'
      BY <1>2, <1>10, <2>1 DEF NoneLeft
    <2>3. \A p \in Pools : Part(flushes, p)' \subseteq U
      BY <1>5, <1>6 DEF U
    <2>4. OneUpdate'
      BY <1>8, <1>10, <2>2, <2>3, <1>1 DEF OneUpdate
    <2> QED
      BY <1>4, <2>4 DEF Lone
  <1>12. CASE U = {} /\ (I = {} \/ D = {}) /\ (\A s, t \in TypesOf(I) : s = t) /\ (\A s, t \in TypesOf(D) : s = t)
    <2>1. \A p \in Pools : Part(flushes, p)' = {}
      BY <1>5, <1>6, <1>12 DEF U
    <2>2. \E t \in Types : TypesOf(I) \subseteq {t} /\ TypesOf(D) \subseteq {t}
      <3>1. \E t : t \in Types
        <4>1. \E x \in tracked[cur] : x \in Entities
          BY <1>1 DEF Calls, Typed, TypeOK, Outermost
        <4> QED
          BY <4>1, SetupsAssumption
      <3>2. CASE I = {}
        BY <1>9, <1>12, <3>1, <3>2
      <3>3. CASE D = {}
        BY <1>9, <1>12, <3>1, <3>3
      <3> QED
        BY <1>12, <3>2, <3>3
    <2>3. OneLeft'
      BY <1>2, <1>9, <1>10, <1>12, <2>2 DEF OneLeft, I
    <2>4. OneToCome'
      BY <1>10, <1>12, <2>1, <2>3, <1>1 DEF OneToCome
    <2> QED
      BY <1>4, <2>4 DEF Lone
  <1>13. \A s, t \in TypesOf({}) : s = t
    BY DEF TypesOf
  <1> QED
    BY <1>8, <1>11, <1>12, <1>13

\* The pools of a flush without a transaction have none.
LEMMA LoneIsOutside ==
  ASSUME Typed, Calls, Lone, pc \in Running \ {"build"}
  PROVE  /\ Len(stack) = 1 /\ Top.root /\ Top = stack[1] /\ Top.ents = tracked[cur]
         /\ \A x \in tracked[cur] : tx[Pool(x)] = "none"
  <1>1. stack \in Seq(Frames) /\ stack # << >>
    BY DEF Typed
  <1>2. Top = stack[1] /\ Len(stack) \in Nat /\ Len(stack) >= 1
    BY <1>1, PopIs DEF Top
  <1>3. FrameOK(1) /\ Top.depth = 0
    BY <1>2 DEF Calls, FramesOK, Lone
  <1>4. Len(stack) = 1 /\ Top.root /\ Top.ents = tracked[cur]
    BY <1>2, <1>3 DEF FrameOK
  <1>5. TopOK /\ ~inTx
    BY DEF Calls, Lone
  <1>6. \A p \in PoolsOf(Top.ents) : tx[p] = "none"
    BY <1>4, <1>5 DEF TopOK
  <1> QED
    BY <1>2, <1>4, <1>6 DEF PoolsOf

LEMMA LoneMoves ==
  ASSUME Typed, Calls, Lone, Moves, setup' = setup
  PROVE  Lone'
  <1> USE DEF entityVars, poolVars, flusherVars, engineVars, callVars, countVars
  <1>1. /\ UNCHANGED <<built, committed, updates, deletes, cur, stack, inTx, useTx, flushes>>
    BY DEF Moves, Inserted, Updated, Deleted
  <1>2. Top.root
    BY LoneIsOutside DEF Moves, Inserted, Updated, Deleted, Running
  <1>3. ~inTx' /\ ~useTx' /\ Top'.depth = 0
    BY <1>1 DEF Lone, Top
  <1>4. \A p \in Pools : Part(flushes, p)' = Part(flushes, p)
    BY <1>1 DEF Part, Pool, PoolOf, Upserts
  <1>5. \/ pc = "insert" /\ left = {} /\ pc' = "update"
        \/ pc = "update" /\ pc' = "delete" /\ left' = TypesOf(deletes[cur])
        \/ pc = "delete" /\ left = {} /\ pc' = "caches"
    BY <1>2 DEF Moves, Inserted, Updated, Deleted
  <1>6. TypesOf({}) = {} /\ TypesOf(deletes[cur])' = TypesOf(deletes[cur])
    BY <1>1 DEF TypesOf
  <1>7. NoneLeft => NoneLeft'
    BY <1>1, <1>5, <1>6 DEF NoneLeft
  <1>8. OneLeft => OneLeft'
    <2> SUFFICES ASSUME OneLeft PROVE OneLeft'
      OBVIOUS
    <2>1. PICK t \in Types :
             /\ pc = "insert" => \/ left \subseteq {t} /\ deletes[cur] = {}
                                 \/ left = {} /\ TypesOf(deletes[cur]) \subseteq {t}
             /\ pc = "update" => TypesOf(deletes[cur]) \subseteq {t}
             /\ pc = "delete" => left \subseteq {t}
      BY DEF OneLeft
    <2>2. pc' = "update" => TypesOf(deletes[cur])' \subseteq {t}
      BY <1>5, <1>6, <2>1
    <2>3. pc' = "delete" => left' \subseteq {t}
      BY <1>5, <2>1
    <2>4. pc' # "insert"
      BY <1>5
    <2> QED
      BY <2>2, <2>3, <2>4 DEF OneLeft
  <1>9. OneUpdate => OneUpdate'
    BY <1>1, <1>4, <1>7 DEF OneUpdate
  <1>10. OneDone => OneDone'
    BY <1>1, <1>4, <1>7 DEF OneDone
  <1>11. OneToCome => OneToCome'
    BY <1>1, <1>4, <1>8 DEF OneToCome
  <1> QED
    BY <1>3, <1>9, <1>10, <1>11 DEF Lone


LEMMA LoneCaches ==
  ASSUME Typed, Calls, PoolsApart, Statements, Numbered, Lone, flushes \notin torn, Caches, setup' = setup
  PROVE  pc' = "commit" /\ \A p \in Pools : Settled(flushes, p)'
  <1>1. /\ pc = "caches" /\ cur \in Flushers
        /\ (stack' = << >> <=> Len(stack) = 1)
        /\ pc' = (IF stack' = << >> THEN "commit" ELSE "build")
        /\ UNCHANGED <<built, open, committed, flushes>>
    BY CachesIs
  <1>2. Len(stack) = 1 /\ Top.root /\ \A x \in tracked[cur] : tx[Pool(x)] = "none"
    BY <1>1, LoneIsOutside DEF Running
  <1>3. \A w \in updates[cur] : w.n \in torn \/ w \in committed
    <2> SUFFICES ASSUME NEW w \in updates[cur], w.n \notin torn PROVE w \in committed
      OBVIOUS
    <2>1. w.n = flushes /\ w.x \in tracked[cur] /\ w.x \in Entities
      BY <1>1 DEF Numbered, Typed, TypeOK, Writes
    <2>2. Done(w)
      BY <1>1, <1>2 DEF Statements
    <2>3. w \notin kept.sets
      <3>1. w \in kept.sets => flushes < flushes
        BY <1>1, <2>1 DEF Numbered, Running
      <3>2. flushes \in Int
        BY SetupIs DEF Typed, TypeOK
      <3> QED
        BY <3>1, <3>2
    <2>4. \A p \in Pools : w \notin open[p]
      BY <1>2, <2>1 DEF PoolsApart
    <2> QED
      BY <2>2, <2>3, <2>4 DEF Done, AllOpen
  <1>4. \A p \in Pools : Part(flushes, p) \subseteq committed
    <2>1. CASE OneUpdate
      BY <1>3, <2>1, PartIs DEF OneUpdate
    <2>2. CASE OneDone \/ OneToCome
      BY <2>2 DEF OneDone, OneToCome
    <2> QED
      BY <2>1, <2>2 DEF Lone
  <1>5. \A p \in Pools : Part(flushes, p)' = Part(flushes, p)
    BY <1>1 DEF Part, Pool, PoolOf, Upserts
  <1> QED
    BY <1>1, <1>2, <1>4, <1>5 DEF Settled

LEMMA LoneExecutes ==
  ASSUME Typed, Calls, PoolsApart, LeftOver, Numbered, Lone, flushes \notin torn, setup' = setup, pc # "build",
         NEW p \in Pools, NEW W \in SUBSET Writes, NEW V \in SUBSET Writes, Statement(p, W, V)
  PROVE  /\ pc' # "fail" => Lone'
         /\ pc' = "fail" => \A q \in Pools : Settled(flushes, q)'
  <1>1. /\ cur \in Flushers /\ pc \in Running /\ pc' \in {pc, "fail"} /\ pc # "caches"
        /\ V \subseteq W /\ W \subseteq V \cup updates[cur]
        /\ (\A w \in W : Pool(w.x) = p)
        /\ (\A q \in Pools \ {p} : open'[q] = open[q])
        /\ (IF tx[p] = "open" THEN open'[p] = open[p] \cup W /\ committed' = committed
                              ELSE open' = open /\ committed' = committed \cup W)
        /\ (\A w \in V : w.x \in Top.ents \cup deletes[cur] \cup (IF pc = "insert" THEN batch ELSE {}))
        /\ UNCHANGED <<updates, deletes, cur, stack, inTx, useTx>>
    BY DEF Statement
  <1>2. /\ built' = built \cup V /\ (\A w \in V : w.n = flushes) /\ flushes' = flushes
        /\ (pc \in {"insert", "delete"} => \E t \in left : left' = left \ {t})
        /\ (pc = "update" => V = {})
    BY DEF Statement, Written
  <1>3. pc \in {"insert", "update", "delete"} /\ pc \in Running \ {"build"}
    BY <1>1 DEF Running
  <1>4. Top.ents = tracked[cur] /\ \A x \in tracked[cur] : tx[Pool(x)] = "none"
    BY <1>3, LoneIsOutside
  <1>5. \A w \in W : w.n = flushes => w.x \in tracked[cur] /\ tx[p] = "none"
    <2> SUFFICES ASSUME NEW w \in W, w.n = flushes PROVE w.x \in tracked[cur]
      BY <1>1, <1>4
    <2>1. deletes[cur] \subseteq tracked[cur] /\ (pc = "insert" => batch \subseteq Top.ents)
      BY <1>1 DEF Calls
    <2> QED
      BY <1>1, <1>4, <2>1 DEF Numbered
  <1>6. ~inTx' /\ ~useTx' /\ Top'.depth = 0
    BY <1>1 DEF Lone, Top
  <1>7. \A q \in Pools : \A w \in Part(flushes, q)' : w \in Part(flushes, q) \/ (w \in V /\ w \in committed')
    <2> SUFFICES ASSUME NEW q \in Pools, NEW w \in Part(flushes, q)', w \in V PROVE w \in committed'
      BY <1>2, PartGrows
    <2> QED
      BY <1>1, <1>2, <1>5
  <1>8. committed \subseteq committed'
    BY <1>1
  <1>9. ASSUME V = {} PROVE \A q \in Pools : Part(flushes, q)' = Part(flushes, q)
    BY <1>2, <1>9 DEF Part, Pool, PoolOf, Upserts
  <1>10. CASE OneUpdate
    <2>1. pc = "update" /\ V = {}
      BY <1>2, <1>3, <1>10 DEF OneUpdate, NoneLeft
    <2>2. \A q \in Pools : Part(flushes, q)' \subseteq updates[cur]
      BY <1>9, <1>10, <2>1 DEF OneUpdate
    <2>3. pc' = "update" => Lone'
      BY <1>1, <1>6, <1>10, <2>1, <2>2 DEF OneUpdate, NoneLeft, Lone
    <2>4. ASSUME NEW q \in Pools PROVE Settled(flushes, q)'
      <3>1. \A w \in Part(flushes, q)' : w \notin open'[q]
        <4> SUFFICES ASSUME NEW w \in Part(flushes, q)', w \in open'[q] PROVE FALSE
          OBVIOUS
        <4>1. w \in updates[cur] /\ w \in Part(flushes, q)
          BY <1>9, <2>1, <2>2
        <4>2. w.n = flushes /\ Pool(w.x) = q
          BY <4>1, PartIs
        <4>3. tx[q] = "none"
          BY <1>1, <1>4, <4>1, <4>2 DEF Numbered
        <4>4. w \notin open[q]
          BY <4>3 DEF PoolsApart
        <4> QED
          BY <1>1, <4>3, <4>4
      <3>2. \A v, w \in Part(flushes, q)' : v = w
        BY <1>10, <2>2 DEF OneUpdate
      <3> QED
        BY <3>1, <3>2 DEF Settled
    <2> QED
      BY <1>1, <2>1, <2>3, <2>4
  <1>11. CASE OneDone
    <2>1. pc = "update" /\ V = {}
      BY <1>2, <1>3, <1>11 DEF OneDone, NoneLeft
    <2>2. \A q \in Pools : Part(flushes, q)' \subseteq committed'
      BY <1>8, <1>9, <1>11, <2>1 DEF OneDone
    <2>3. pc' = "update" => Lone'
      BY <1>1, <1>6, <1>11, <2>1, <2>2 DEF OneDone, NoneLeft, Lone
    <2> QED
      BY <1>1, <2>1, <2>2, <2>3 DEF Settled
  <1>12. CASE OneToCome
    <2>1. \A q \in Pools : Part(flushes, q)' \subseteq committed'
      BY <1>7, <1>12 DEF OneToCome
    <2>2. pc' = "update" => Lone'
      <3> SUFFICES ASSUME pc' = "update" PROVE Lone'
        OBVIOUS
      <3>1. pc = "update" /\ V = {}
        BY <1>1, <1>2
      <3>2. TypesOf(deletes[cur])' = TypesOf(deletes[cur])
        BY <1>1 DEF TypesOf
      <3>3. OneLeft'
        BY <1>12, <3>1, <3>2 DEF OneToCome, OneLeft
      <3>4. OneToCome'
        BY <1>1, <1>9, <1>12, <3>1, <3>3 DEF OneToCome
      <3> QED
        BY <1>6, <3>4 DEF Lone
    <2>3. pc' \in {"insert", "delete"} => Lone'
      <3> SUFFICES ASSUME pc' \in {"insert", "delete"} PROVE Lone'
        OBVIOUS
      <3>1. pc' = pc /\ (\E t \in left : left' = left \ {t})
        BY <1>1, <1>2
      <3>2. \E t \in Types : left \subseteq {t} /\ (pc = "insert" => deletes[cur] = {})
        BY <1>12, <3>1 DEF OneToCome, OneLeft
      <3>3. NoneLeft'
        BY <1>1, <3>1, <3>2 DEF NoneLeft
      <3>4. OneDone'
        BY <1>1, <1>12, <2>1, <3>3 DEF OneDone, OneToCome
      <3> QED
        BY <1>6, <3>4 DEF Lone
    <2> QED
      BY <1>1, <1>3, <2>1, <2>2, <2>3 DEF Settled
  <1> QED
    BY <1>10, <1>11, <1>12 DEF Lone


-----------------------------------------------------------------------------
(* The flush that is under way, and those before it.                        *)

LEMMA PresentBuild ==
  ASSUME Typed, Calls, Numbered, Numbered', Typed', Present, Build, setup' = setup
  PROVE  Present'
  <1>1. /\ pc = "build" /\ cur \in Flushers /\ flushes' = flushes /\ cur' = cur
        /\ Refused \/ Split \/ Collects
    BY BuildIs
  <1>2. torn \subseteq torn'
    BY <1>1 DEF Refused, Split, Collects
  <1> SUFFICES ASSUME flushes \notin torn' PROVE Present'
    BY <1>1 DEF Present
  <1>3. Covered \/ Outermost
    BY <1>1, <1>2 DEF Present, Running
  <1>4. CASE Refused
    <2>1. Pending'
      BY <1>3, OutermostPends, PendingBuild DEF Covered
    <2>2. (\A p \in Pools : Undoing(p))'
      <3>1. (Typed /\ Numbered /\ Pending /\ flushes \notin torn /\ cur \in Flushers => \A p \in Pools : Undoing(p))'
        BY PendingUndoes, PTL
      <3> QED
        BY <1>1, <2>1, <3>1
    <2>3. pc' = "fail"
      BY <1>4 DEF Refused
    <2> QED
      BY <2>2, <2>3 DEF Present, Running
  <1>5. CASE Split \/ (Collects /\ (inTx' \/ Covered))
    <2>1. Covered'
      BY <1>3, <1>5, CoveredBuild
    <2>2. pc' \in {"build", "insert"}
      BY <1>1, <1>5 DEF Split, Collects
    <2> QED
      BY <2>1, <2>2 DEF Present
  <1>6. CASE Collects /\ ~inTx' /\ Outermost
    <2>1. pc' = "insert" /\ Lone'
      BY <1>6, LoneBuild DEF Collects
    <2> QED
      BY <2>1 DEF Present
  <1> QED
    BY <1>1, <1>3, <1>4, <1>5, <1>6

LEMMA PresentNext ==
  ASSUME Typed, Calls, PoolsApart, Statements, LeftOver, Numbered, Typed', Numbered', Present, [Next]_vars
  PROVE  Present'
  <1> USE DEF entityVars, poolVars, flusherVars, engineVars, callVars, countVars, whyVars
  <1>0. setup' = setup
    BY StepIs
  <1>1. ASSUME pc' = "idle" PROVE Present'
    BY <1>1 DEF Present, Running
  <1>13. (Typed /\ Numbered /\ Pending /\ flushes \notin torn /\ cur \in Flushers => \A p \in Pools : Undoing(p))'
    BY PendingUndoes, PTL
  <1>2. ASSUME NEW f \in Flushers, NEW X \in SUBSET Entities, Flush(f, X) PROVE Present'
    <2>1. pc' = "build" /\ Top'.depth = 0
      BY <1>2 DEF Flush, Top, Frame
    <2> QED
      BY <2>1 DEF Present, Outermost
  <1>3. ASSUME NEW p \in Pools, FlushCommit(p) PROVE Present'
    <2>1. /\ pc = "commit" /\ pc' \in {"commit", "fail"} /\ UNCHANGED <<built, flushes, torn>>
      BY <1>3 DEF FlushCommit
    <2>2. /\ (\A r \in Pools \ {p} : open'[r] = open[r]) /\ open'[p] \in {{}, open[p]}
          /\ \/ committed' = committed
             \/ open'[p] = {} /\ committed' = committed \cup open[p]
      BY <1>3 DEF FlushCommit, Committed, CommitError, Typed, TypeOK
    <2>3. flushes \notin torn => \A q \in Pools : Settled(flushes, q)'
      <3> SUFFICES ASSUME flushes \notin torn, NEW q \in Pools PROVE Settled(flushes, q)'
        OBVIOUS
      <3>1. Settled(flushes, q)
        BY <2>1 DEF Present
      <3>2. flushes' = flushes
        BY <2>1
      <3>3. \A n : Settled(n, q) => Settled(n, q)'
        <4> SUFFICES ASSUME NEW n, Settled(n, q) PROVE Settled(n, q)'
          OBVIOUS
        <4> QED
          BY <1>0, <2>1, <2>2, PoolEnds
      <3> QED
        BY <3>1, <3>2, <3>3 DEF Settled, Part
    <2> QED
      BY <2>1, <2>3 DEF Present, Undoing, Running
  <1>4. CASE Executes
    <2>1. PICK p \in Pools, W \in SUBSET Writes, V \in SUBSET Writes : Statement(p, W, V)
      BY <1>0, <1>4, StatementIs
    <2>2. /\ pc \in Running /\ pc' \in {pc, "fail"} /\ UNCHANGED <<stack, torn, flushes, cur>> /\ cur \in Flushers
      BY <2>1 DEF Statement, Written
    <2> SUFFICES ASSUME flushes \notin torn PROVE Present'
      BY <2>2 DEF Present
    <2>3. CASE Covered
      <3>1. Covered'
        BY <1>0, <2>1, <2>3, CoveredExecutes
      <3>2. (\A q \in Pools : Undoing(q))'
        BY <1>13, <2>2, <3>1 DEF Covered
      <3> QED
        BY <2>2, <3>1, <3>2 DEF Present, Running
    <2>4. CASE Outermost
      <3>1. pc' = "build" => Outermost'
        BY <2>2, <2>4 DEF Outermost, Top
      <3>2. \A q \in Pools : Part(flushes, q)' = {}
        <4> SUFFICES ASSUME NEW q \in Pools, NEW w \in Part(flushes, q)' PROVE FALSE
          OBVIOUS
        <4>1. /\ built' = built \cup V /\ flushes' = flushes /\ (\A v \in V : v.op = "I" /\ v.x \in Upserts)
          BY <2>1, <2>4 DEF Statement, Written, Outermost
        <4>2. w \in Part(flushes, q)
          BY <1>0, <4>1, PartGrows
        <4> QED
          BY <2>4, <4>2 DEF Numbered
      <3>3. \A q \in Pools : Undoing(q)'
        BY <3>2 DEF Undoing, Settled
      <3> QED
        BY <2>2, <2>4, <3>1, <3>3 DEF Present, Running, Outermost
    <2>5. CASE Lone /\ pc # "build"
      <3>1. /\ pc' # "fail" => Lone'
            /\ pc' = "fail" => \A q \in Pools : Settled(flushes, q)'
        BY <1>0, <2>1, <2>5, LoneExecutes
      <3> QED
        BY <2>2, <2>5, <3>1 DEF Present, Running, Undoing
    <2> QED
      BY <2>2, <2>3, <2>4, <2>5 DEF Present
  <1>5. CASE Moves
    <2>1. /\ pc \in Running \ {"build"} /\ pc' \in Running \ {"build"}
          /\ UNCHANGED <<tracked, cur, stack, tx, built, committed, updates, open, flushes, torn>>
      BY <1>5 DEF Moves, Inserted, Updated, Deleted, Running
    <2>2. flushes \notin torn => Covered \/ Lone
      BY <2>1 DEF Present, Outermost
    <2>3. Covered => Covered'
      BY <1>0, <2>1, CoveredStays
    <2>4. Lone => Lone'
      BY <1>0, <1>5, LoneMoves
    <2> QED
      BY <2>1, <2>2, <2>3, <2>4 DEF Present, Running
  <1>6. CASE Build
    BY <1>0, <1>6, PresentBuild
  <1>7. CASE Caches
    <2>1. pc = "caches" /\ pc' \in {"build", "commit"} /\ UNCHANGED <<flushes, torn>>
      BY <1>7, CachesIs
    <2>2. flushes \notin torn => Covered \/ Lone
      BY <2>1 DEF Present, Running, Outermost
    <2>3. Covered => (pc' = "build" => Covered') /\ (pc' = "commit" => \A p \in Pools : Settled(flushes, p)')
      BY <1>0, <1>7, CoveredCaches
    <2>4. flushes \notin torn /\ Lone => pc' = "commit" /\ \A p \in Pools : Settled(flushes, p)'
      BY <1>0, <1>7, LoneCaches
    <2> QED
      BY <2>1, <2>2, <2>3, <2>4 DEF Present, Running
  <1>8. CASE Return \/ FlushPanics \/ Overflow
    BY <1>1, <1>8 DEF Return, FlushPanics, Overflow
  <1>9. CASE UNCHANGED vars
    <2>1. UNCHANGED <<setup, tx, open, committed, tracked, updates, deletes, cur, pc, stack, left, inTx, useTx,
                      flushes, built, torn>>
      BY <1>9 DEF vars
    <2>2. (\A x : Pool(x)' = Pool(x)) /\ Upserts' = Upserts
      BY <2>1 DEF Pool, PoolOf, Upserts
    <2>3. \A n, p : Part(n, p)' = Part(n, p)
      BY <2>1, <2>2 DEF Part
    <2>4. Covered' = Covered
      BY <2>1, <2>2, <2>3 DEF Covered, Pending
    <2>5. (\A X : TypesOf(X)' = TypesOf(X)) /\ (\A X : PoolsOf(X)' = PoolsOf(X))
      BY <2>1, <2>2 DEF TypesOf, PoolsOf
    <2>6. NoneLeft' = NoneLeft /\ OneLeft' = OneLeft
      BY <2>1, <2>5 DEF NoneLeft, OneLeft
    <2>7. Lone' = Lone
      BY <2>1, <2>3, <2>6 DEF Lone, OneUpdate, OneDone, OneToCome, Top
    <2>8. \A p : Settled(flushes, p)' = Settled(flushes, p)
      BY <2>1, <2>3 DEF Settled
    <2>9. \A p : Undoing(p)' = Undoing(p)
      BY <2>1, <2>3, <2>5, <2>8 DEF Undoing
    <2>10. Outermost' = Outermost
      BY <2>1 DEF Outermost, Top
    <2> QED
      BY <2>1, <2>4, <2>7, <2>8, <2>9, <2>10 DEF Present
  <1>10. ASSUME NEW x \in Entities, Change(x) PROVE Present'
    BY <1>1, <1>10 DEF Change
  <1>11. ASSUME NEW f \in Flushers, NewFlusher(f) PROVE Present'
    BY <1>1, <1>11 DEF NewFlusher
  <1>12. ASSUME NEW p \in Pools, Begin(p) \/ Commit(p) \/ Rollback(p) \/ CommitFails(p) PROVE Present'
    BY <1>1, <1>12 DEF Begin, Commit, Rollback, CommitFails
  <1> QED
    BY <1>2, <1>3, <1>4, <1>5, <1>6, <1>7, <1>8, <1>9, <1>10, <1>11, <1>12, StepIs


\* The parts of the flushes that are over.
LEMMA PastNext ==
  ASSUME Typed, PoolsApart, LeftOver, Numbered, Present, Past, [Next]_vars
  PROVE  Past'
  <1> USE DEF entityVars, poolVars, flusherVars, engineVars, callVars, countVars, whyVars
  <1>0. setup' = setup
    BY StepIs
  <1>1. flushes \in Nat /\ flushes' \in Nat /\ open \in [Pools -> SUBSET Writes]
    <2>1. Typed'
      BY TypedNext
    <2> QED
      BY <2>1, SetupIs DEF Typed, TypeOK
  \* A step that writes nothing.
  <1>2. ASSUME flushes' = flushes, built' = built, torn \subseteq torn', pc' = "idle" => pc = "idle",
               \A n, q : q \in Pools /\ (n # flushes \/ pc' = "idle") /\ Settled(n, q) => Settled(n, q)'
        PROVE  Past'
    <2> SUFFICES ASSUME NEW n \in (1 .. flushes) \ torn, pc' = "idle" \/ n < flushes, NEW q \in Pools
                 PROVE  Settled(n, q)'
      BY <1>2 DEF Past
    <2>1. Settled(n, q)
      BY <1>2 DEF Past
    <2>2. n # flushes \/ pc' = "idle"
      BY <1>1
    <2> QED
      BY <1>2, <2>1, <2>2
  <1>3. ASSUME UNCHANGED <<flushes, built, torn, committed, open>>, pc' = "idle" => pc = "idle"
        PROVE  Past'
    <2>1. \A n, q : Settled(n, q) => Settled(n, q)'
      BY <1>0, <1>3 DEF Settled, Part, Pool, PoolOf, Upserts
    <2> QED
      BY <1>2, <1>3, <2>1
  \* The end of a flush.
  <1>4. ASSUME flushes' = flushes, built' = built, torn \subseteq torn', pc' = "idle",
               \A q \in Pools : flushes \notin torn' => Settled(flushes, q)',
               \A n \in Nat : \A q \in Pools : Settled(n, q) => Settled(n, q)'
        PROVE  Past'
    <2> SUFFICES ASSUME NEW n \in (1 .. flushes) \ torn', NEW q \in Pools
                 PROVE  Settled(n, q)'
      BY <1>4 DEF Past
    <2>1. n \in Nat /\ (n < flushes \/ n = flushes)
      BY <1>1
    <2>2. CASE n = flushes
      BY <1>4, <2>2
    <2>3. CASE n < flushes
      BY <1>4, <2>1, <2>3 DEF Past
    <2> QED
      BY <2>1, <2>2, <2>3
  <1>5. ASSUME NEW x \in Entities, Change(x) PROVE Past'
    BY <1>3, <1>5 DEF Change
  <1>6. ASSUME NEW f \in Flushers, NewFlusher(f) PROVE Past'
    BY <1>3, <1>6 DEF NewFlusher
  <1>7. ASSUME NEW f \in Flushers, NEW X \in SUBSET Entities, Flush(f, X) PROVE Past'
    <2>1. pc = "idle" /\ pc' = "build" /\ flushes' = flushes + 1 /\ UNCHANGED <<built, torn, committed, open>>
      BY <1>7 DEF Flush
    <2> SUFFICES ASSUME NEW n \in (1 .. flushes') \ torn, n < flushes', NEW q \in Pools PROVE Settled(n, q)'
      BY <2>1 DEF Past
    <2>2. n \in 1 .. flushes
      BY <1>1, <2>1
    <2>3. Settled(n, q)
      BY <2>1, <2>2 DEF Past
    <2> QED
      BY <1>0, <2>1, <2>3 DEF Settled, Part, Pool, PoolOf, Upserts
  <1>8. ASSUME NEW p \in Pools, Begin(p) \/ Commit(p) \/ Rollback(p) \/ CommitFails(p) \/ FlushCommit(p)
        PROVE  Past'
    <2>1. UNCHANGED <<built, flushes, torn>> /\ (pc' = "idle" => pc = "idle")
      BY <1>8 DEF Begin, Commit, Rollback, CommitFails, FlushCommit
    <2>2. /\ (\A r \in Pools \ {p} : open'[r] = open[r]) /\ open'[p] \in {{}, open[p]}
          /\ \/ committed' = committed
             \/ open'[p] = {} /\ committed' = committed \cup open[p]
      <3>1. CASE Committed(p) \/ (CommitError(p) /\ committed' = committed)
        BY <1>1, <3>1 DEF Committed, CommitError
      <3>2. CASE Rollback(p)
        BY <1>1, <3>2 DEF Rollback, Undone
      <3>3. CASE UNCHANGED <<open, committed>>
        BY <3>3
      <3> QED
        BY <1>8, <3>1, <3>2, <3>3 DEF Begin, Commit, CommitFails, FlushCommit
    <2>3. ASSUME NEW n, NEW q \in Pools, Settled(n, q) PROVE Settled(n, q)'
      BY <1>0, <2>1, <2>2, <2>3, PoolEnds
    <2> QED
      BY <1>2, <2>1, <2>3
  <1>9. CASE Executes
    <2>1. PICK p \in Pools, W \in SUBSET Writes, V \in SUBSET Writes : Statement(p, W, V)
      BY <1>0, <1>9, StatementIs
    <2>2. /\ pc \in Running /\ pc' \in {pc, "fail"} /\ cur \in Flushers /\ W \subseteq V \cup updates[cur]
          /\ \A q \in Pools : open[q] \subseteq open'[q] /\ open'[q] \subseteq open[q] \cup W
          /\ committed \subseteq committed' /\ committed' \subseteq committed \cup W
      BY <2>1 DEF Statement
    <2>3. /\ built' = built \cup V /\ (\A w \in V : w.n = flushes)
          /\ UNCHANGED <<torn, flushes>>
      BY <2>1 DEF Statement, Written
    <2> SUFFICES ASSUME NEW n \in (1 .. flushes) \ torn, n < flushes, NEW q \in Pools
                 PROVE  Settled(n, q)'
      BY <2>2, <2>3 DEF Past, Running
    <2>4. Settled(n, q) /\ n # flushes
      BY <1>1 DEF Past
    <2>5. Part(n, q)' = Part(n, q)
      BY <1>0, <2>3, <2>4, PartStays
    <2>6. \A w \in W : w.n # n
      BY <2>2, <2>3, <2>4 DEF Numbered
    <2>7. \A w \in Part(n, q) : w \notin W
      BY <2>6, PartIs
    <2>8. \A w \in Part(n, q) : (w \in committed' <=> w \in committed) /\ (w \in open'[q] <=> w \in open[q])
      BY <2>2, <2>7
    <2> QED
      BY <2>4, <2>5, <2>8, SettledStays
  <1>10. CASE Moves
    BY <1>3, <1>10 DEF Moves, Inserted, Updated, Deleted
  <1>11. CASE Build
    <2>1. /\ pc = "build" /\ built' = built \cup DirtyWrites /\ UNCHANGED <<open, committed, flushes>>
          /\ Refused \/ Split \/ Collects
      BY <1>11, BuildIs
    <2>2. pc' # "idle" /\ torn \subseteq torn'
      BY <2>1 DEF Refused, Split, Collects
    <2>3. \A w \in DirtyWrites : w.n = flushes
      BY DEF DirtyWrites, Write
    <2> SUFFICES ASSUME NEW n \in (1 .. flushes) \ torn', n < flushes, NEW q \in Pools
                 PROVE  Settled(n, q)'
      BY <2>1, <2>2 DEF Past
    <2>4. Settled(n, q) /\ n # flushes
      BY <1>1, <2>2 DEF Past
    <2>5. Part(n, q)' = Part(n, q)
      BY <1>0, <2>1, <2>3, <2>4, PartStays
    <2> QED
      BY <2>1, <2>4, <2>5 DEF Settled
  <1>12. CASE Caches
    <2>1. UNCHANGED <<flushes, built, torn, committed, open>> /\ pc' # "idle"
      BY <1>12, CachesIs
    <2> QED
      BY <1>3, <2>1
  <1>13. CASE Return
    <2>1. pc = "commit" /\ pc' = "idle" /\ UNCHANGED <<flushes, built, torn, committed, open>>
      BY <1>13 DEF Return
    <2>2. \A n, q : Settled(n, q) => Settled(n, q)'
      BY <1>0, <2>1 DEF Settled, Part, Pool, PoolOf, Upserts
    <2>3. \A q \in Pools : flushes \notin torn => Settled(flushes, q)
      BY <2>1 DEF Present
    <2>4. \A q \in Pools : flushes \notin torn' => Settled(flushes, q)'
      BY <1>0, <2>1, <2>3 DEF Settled, Part, Pool, PoolOf, Upserts
    <2> QED
      BY <1>4, <2>1, <2>2, <2>4
  <1>14. CASE FlushPanics
    <2>1. pc = "fail" /\ pc' = "idle" /\ UNCHANGED <<flushes, built, committed>>
      BY <1>14, PanicIs
    <2>2. PICK Q \in SUBSET PoolsOf(tracked[cur]) :
           /\ \A p \in Pools : open'[p] = IF p \in Q THEN {} ELSE open[p]
           /\ torn' = torn \cup (IF Q = PoolsOf(tracked[cur]) THEN {} ELSE {flushes})
                           \cup {w.n : w \in updates'[cur]}
      BY <1>14, PanicTears
    <2>3. \A n, q : q \in Pools /\ Settled(n, q) => Settled(n, q)'
      <3> SUFFICES ASSUME NEW n, NEW q \in Pools, Settled(n, q) PROVE Settled(n, q)'
        OBVIOUS
      <3>1. Part(n, q)' = Part(n, q)
        BY <1>0, <2>1 DEF Part, Pool, PoolOf, Upserts
      <3> QED
        BY <2>1, <2>2, <3>1, SettledStays
    <2>4. \A q \in Pools : flushes \notin torn' => Settled(flushes, q)'
      <3> SUFFICES ASSUME NEW q \in Pools, flushes \notin torn' PROVE Settled(flushes, q)'
        OBVIOUS
      <3>1. Undoing(q) /\ Q = PoolsOf(tracked[cur])
        BY <2>1, <2>2 DEF Present
      <3>2. Part(flushes, q)' = Part(flushes, q)
        BY <1>0, <2>1 DEF Part, Pool, PoolOf, Upserts
      <3>3. CASE Settled(flushes, q)
        BY <2>1, <2>2, <3>2, <3>3, SettledStays
      <3>4. CASE Part(flushes, q) \cap committed = {} /\ q \in PoolsOf(tracked[cur])
        BY <2>1, <2>2, <3>1, <3>2, <3>4 DEF Settled
      <3> QED
        BY <3>1, <3>3, <3>4 DEF Undoing
    <2>5. torn \subseteq torn'
      BY <2>2
    <2> QED
      BY <1>4, <2>1, <2>3, <2>4, <2>5
  <1>15. CASE Overflow
    <2>1. /\ pc = "build" /\ pc' = "idle" /\ open' = [p \in Pools |-> {}]
          /\ UNCHANGED <<built, committed, flushes, torn>>
      BY <1>15, OverflowIs
    <2>2. \A n, q : Part(n, q)' = Part(n, q)
      BY <1>0, <2>1 DEF Part, Pool, PoolOf, Upserts
    <2>3. \A n, q : q \in Pools /\ Settled(n, q) => Settled(n, q)'
      BY <2>1, <2>2 DEF Settled
    <2>4. \A q \in Pools : flushes \notin torn' => Settled(flushes, q)'
      <3> SUFFICES ASSUME NEW q \in Pools, flushes \notin torn' PROVE Settled(flushes, q)'
        OBVIOUS
      <3>1. Pending
        BY <2>1, OutermostPends DEF Present, Running, Covered
      <3>2. Part(flushes, q) \cap committed = {}
        BY <3>1 DEF Pending
      <3> QED
        BY <2>1, <2>2, <3>2 DEF Settled
    <2> QED
      BY <1>4, <2>1, <2>3, <2>4
  <1>16. CASE UNCHANGED vars
    BY <1>3, <1>16 DEF vars
  <1> QED
    BY <1>5, <1>6, <1>7, <1>8, <1>9, <1>10, <1>11, <1>12, <1>13, <1>14, <1>15, <1>16, StepIs

LEMMA WholeAlways == Spec => [](Transactions /\ Backed /\ Whole)
  <1>1. Transactions /\ Backed /\ Whole /\ [Next]_vars => Whole'
    <2> SUFFICES ASSUME Transactions, Backed, Whole, [Next]_vars PROVE Whole'
      OBVIOUS
    <2>1. Typed /\ Calls /\ PoolsApart /\ Statements /\ LeftOver /\ Numbered /\ Present /\ Past
      BY DEF Transactions, Backed, Whole
    <2>2. Typed' /\ Numbered'
      BY <2>1, TypedNext, NumberedNext
    <2> QED
      BY <2>1, <2>2, PresentNext, PastNext DEF Whole
  <1> QED
    BY <1>1, WholeInit, BackedAlways, PTL DEF Spec

\* flushTrackedEntities writes a flush as a whole or not at all in each pool: either
\* it has everything in a transaction, or it has one statement.  Excepted are the
\* flushes in torn, of which only some pools are in a transaction, whose rollback stops
\* at a broken transaction, or whose UPDATEs stay in the flusher after a panic; and the
\* upserts, which flush executes before it begins its transaction.
THEOREM FlushIsAllOrNothing == Spec => []AllOrNothing
  <1>1. Typed /\ Whole => AllOrNothing
    <2> SUFFICES ASSUME Typed, Whole, pc = "idle", NEW n \in (1 .. flushes) \ torn, NEW p \in Pools
                 PROVE  Part(n, p) \cap committed = {} \/ Part(n, p) \subseteq committed
      BY DEF AllOrNothing, Part
    <2> QED
      BY DEF Whole, Past, Settled
  <1> QED
    BY <1>1, WholeAlways, PTL DEF Transactions


-----------------------------------------------------------------------------
(* The calls of flush within each other come to an end.                     *)

\* n new entities, y one of them, of which the others reference one another: a call
\* at depth n that saves y has been reached through them.
Chain(y, n) == \E C \in SUBSET New :
    y \in C /\ Cardinality(C) = n /\ \A z \in C \ {y} : Refs[z] \cap C # {}

\* What the calls before the i-th on the stack will have saved.
Before(i) == UNION {stack[j].ents : j \in 1 .. (i - 1)}

Ranked(i) ==
    LET c == stack[i] IN
    /\ c.depth <= StackBound
    /\ ~c.root => \A y \in c.ents : Chain(y, c.depth)
    /\ c.root /\ c.depth > 0 => \A x \in c.ents : NewRefs(x) \subseteq Before(i)

AllRanked == \A i \in 1 .. Len(stack) : Ranked(i)

\* After its inserts a call has no new entities.
Saved ==
    /\ \A x \in Entities : state[x] = "new" => x \in New
    /\ pc = "insert" => \A x \in Top.ents : state[x] = "new" => x \in batch /\ TypeOf[x] \in left
    /\ pc \in {"update", "delete", "caches"} => \A x \in Top.ents : state[x] # "new"

Ends == Saved /\ (~Cyclic => ~overflowed /\ (pc \in Running => AllRanked))

LEMMA EndsInit == Init => Ends
  BY DEF Init, Ends, Saved, Running

LEMMA ChainIs ==
  ASSUME setup \in Setups, NEW y, NEW n, Chain(y, n)
  PROVE  n \in Nat /\ n <= StackBound /\ y \in New
  <1>1. PICK C \in SUBSET New : y \in C /\ Cardinality(C) = n
    BY DEF Chain
  <1>2. C \in SUBSET Entities
    BY SetupIs
  <1>3. Cardinality(C) <= Cardinality(Entities) /\ IsFiniteSet(C)
    BY <1>2, EntitiesAssumption, FS_Subset
  <1> QED
    BY <1>1, <1>3, FS_CardinalityType DEF StackBound

LEMMA ChainGrows ==
  ASSUME setup \in Setups, ~Cyclic, NEW x, NEW n, Chain(x, n), NEW y \in Refs[x], y \in New
  PROVE  Chain(y, n + 1)
  <1>1. PICK C \in SUBSET New : x \in C /\ Cardinality(C) = n /\ \A z \in C \ {x} : Refs[z] \cap C # {}
    BY DEF Chain
  <1>2. y \notin C
    BY <1>1 DEF Cyclic
  <1>3. C \in SUBSET Entities
    BY SetupIs
  <1>4. IsFiniteSet(C)
    BY <1>3, EntitiesAssumption, FS_Subset
  <1>5. Cardinality(C \cup {y}) = n + 1
    BY <1>1, <1>2, <1>4, FS_AddElement
  <1>6. C \cup {y} \in SUBSET New /\ \A z \in (C \cup {y}) \ {y} : Refs[z] \cap (C \cup {y}) # {}
    BY <1>1
  <1> QED
    BY <1>5, <1>6 DEF Chain

LEMMA ChainStarts ==
  ASSUME NEW y \in New
  PROVE  Chain(y, 1)
  <1>1. {y} \in SUBSET New /\ Cardinality({y}) = 1 /\ \A z \in {y} \ {y} : Refs[z] \cap {y} # {}
    BY FS_Singleton
  <1> QED
    BY <1>1 DEF Chain

\* Steps that leave the stack alone.
LEMMA RankedStay ==
  ASSUME Typed, AllRanked, setup' = setup, stack' = stack, \A x \in Entities : state'[x] \in {state[x], "clean"}
  PROVE  AllRanked'
  <1>1. \A i \in 1 .. Len(stack) : stack[i] \in Frames
    BY ElementOfSeq DEF Typed
  <1>2. \A x \in Entities : NewRefs(x)' \subseteq NewRefs(x)
    BY SetupIs DEF NewRefs, Refs, Typed, TypeOK
  <1>3. (\A y, n : Chain(y, n)' <=> Chain(y, n)) /\ (\A i : Before(i)' = Before(i)) /\ StackBound' = StackBound
    BY DEF Chain, New, Refs, Before, StackBound
  <1> SUFFICES ASSUME NEW i \in 1 .. Len(stack) PROVE Ranked(i)'
    BY DEF AllRanked
  <1>4. Ranked(i) /\ stack[i].ents \subseteq Entities
    BY <1>1 DEF AllRanked, Frames
  <1> QED
    BY <1>2, <1>3, <1>4 DEF Ranked

LEMMA RankedPop ==
  ASSUME Typed, Saved, AllRanked, setup' = setup, Caches
  PROVE  AllRanked'
  <1>1. /\ pc = "caches" /\ Top = stack[1]
        /\ stack' \in Seq(Frames) /\ Len(stack') = Len(stack) - 1
        /\ Len(stack) \in Nat /\ Len(stack) >= 1
        /\ (\A i \in 1 .. Len(stack') : stack'[i] = stack[i + 1])
        /\ state' = state
    BY CachesIs
  <1>2. (\A x : NewRefs(x)' = NewRefs(x)) /\ (\A y, n : Chain(y, n)' <=> Chain(y, n)) /\ StackBound' = StackBound
    BY <1>1 DEF NewRefs, Chain, New, Refs, StackBound
  <1> SUFFICES ASSUME NEW i \in 1 .. Len(stack') PROVE Ranked(i)'
    BY DEF AllRanked
  <1>3. i \in Nat /\ i >= 1 /\ i + 1 \in 1 .. Len(stack) /\ stack'[i] = stack[i + 1]
    BY <1>1
  <1>4. Ranked(i + 1)
    BY <1>3 DEF AllRanked
  <1>5. Before(i + 1) \subseteq Top.ents \cup Before(i)'
    <2> SUFFICES ASSUME NEW j \in 1 .. ((i + 1) - 1) PROVE j = 1 \/ stack[j].ents \subseteq Before(i)'
      BY <1>1 DEF Before
    <2>1. j = 1 \/ (j - 1 \in 1 .. (i - 1) /\ j - 1 \in 1 .. Len(stack') /\ (j - 1) + 1 = j)
      BY <1>1, <1>3
    <2>2. j # 1 => stack'[j - 1] = stack[j]
      BY <1>1, <2>1
    <2> QED
      BY <2>1, <2>2 DEF Before
  <1>6. \A x : \A y \in NewRefs(x) : y \notin Top.ents
    BY <1>1 DEF Saved, NewRefs
  <1>7. \A x : NewRefs(x) \subseteq Before(i + 1) => NewRefs(x)' \subseteq Before(i)'
    BY <1>2, <1>5, <1>6
  <1> QED
    BY <1>2, <1>3, <1>4, <1>7 DEF Ranked


LEMMA RankedSplit ==
  ASSUME Typed, Calls, Saved, AllRanked, ~Cyclic, setup' = setup, Build, Split
  PROVE  AllRanked'
  <1>1. /\ pc = "build" /\ Top \in Frames /\ Ready \subseteq Top.ents /\ Top.ents \subseteq Entities
        /\ Referred \subseteq Entities /\ (\A x \in Referred : state[x] = "new")
        /\ (\A x \in Entities : state'[x] = IF x \in Ready /\ state[x] = "dirty" THEN "clean" ELSE state[x])
        /\ Referred # {}
    BY BuildIs DEF Split
  <1>2. /\ stack'[1] = Frame(Top.depth + 1, FALSE, Inside, Referred)
        /\ Rest = {} => /\ Len(stack') = Len(stack)
                        /\ \A i \in 2 .. Len(stack') : stack'[i] = stack[i]
        /\ Rest # {} => /\ Len(stack') = Len(stack) + 1
                        /\ stack'[2] = Frame(Top.depth + 1, TRUE, Inside, Rest)
                        /\ \A i \in 3 .. Len(stack') : stack'[i] = stack[i - 1]
        /\ Len(stack) \in Nat /\ Len(stack) >= 1 /\ Top = stack[1] /\ stack' \in Seq(Frames)
    BY PushedIs
  <1>3. setup \in Setups /\ Refs \in [Entities -> SUBSET Entities]
    BY SetupIs DEF Typed, TypeOK
  <1>4. /\ \A x \in Entities : NewRefs(x)' \subseteq NewRefs(x)
        /\ (\A y, n : Chain(y, n)' <=> Chain(y, n)) /\ StackBound' = StackBound
    BY <1>1, <1>3 DEF NewRefs, Refs, Chain, New, StackBound
  \* The call that is split has entities that some call is reached through.
  <1>5. \A y \in Referred : Chain(y, Top.depth + 1)
    <2> SUFFICES ASSUME NEW y \in Referred PROVE Chain(y, Top.depth + 1)
      OBVIOUS
    <2>1. PICK x \in Top.ents : y \in NewRefs(x)
      BY DEF Referred, Blocked
    <2>2. y \in New /\ y \in Refs[x]
      BY <1>1, <2>1 DEF Saved, NewRefs
    <2>3. 1 \in 1 .. Len(stack) /\ Ranked(1) /\ FrameOK(1)
      BY <1>1, <1>2 DEF AllRanked, Calls, FramesOK, Running
    <2>4. CASE Top.depth = 0
      <3>1. Top.depth + 1 = 1
        BY <2>4
      <3> QED
        BY <2>2, <3>1, ChainStarts
    <2>5. CASE ~Top.root
      <3>1. Chain(x, Top.depth)
        BY <1>2, <2>1, <2>3, <2>5 DEF Ranked
      <3> QED
        BY <1>3, <2>2, <3>1, ChainGrows
    <2>6. CASE Top.root /\ Top.depth > 0
      <3>1. NewRefs(x) \subseteq Before(1)
        BY <1>2, <2>1, <2>3, <2>6 DEF Ranked
      <3>2. Before(1) = {}
        BY DEF Before
      <3> QED
        BY <2>1, <3>1, <3>2
    <2>7. Top.depth \in Nat
      BY <1>1 DEF Frames
    <2> QED
      BY <2>4, <2>5, <2>6, <2>7 DEF Frames
  <1>6. Top.depth + 1 <= StackBound
    <2>1. PICK y \in Referred : TRUE
      BY <1>1
    <2> QED
      BY <1>3, <1>5, <2>1, ChainIs
  <1>7. /\ stack'[1].depth = Top.depth + 1 /\ ~stack'[1].root /\ stack'[1].ents = Referred
        /\ Rest # {} => stack'[2].depth = Top.depth + 1 /\ stack'[2].root /\ stack'[2].ents = Rest
    BY <1>2 DEF Frame
  <1>8. Ranked(1)'
    BY <1>4, <1>5, <1>6, <1>7 DEF Ranked
  <1>9. ASSUME Rest # {} PROVE Ranked(2)'
    <2>1. Referred \subseteq Before(2)'
      <3>1. 1 \in 1 .. (2 - 1)
        OBVIOUS
      <3> QED
        BY <1>7, <3>1 DEF Before
    <2>2. \A x \in Rest : x \in Entities /\ NewRefs(x) \subseteq Referred
      BY <1>1 DEF Rest, Referred, Blocked
    <2>3. \A x \in Rest : NewRefs(x)' \subseteq Before(2)'
      BY <1>4, <2>1, <2>2
    <2> QED
      BY <1>6, <1>4, <1>7, <1>9, <2>3 DEF Ranked
  \* The calls that were on the stack below.
  <1>10. ASSUME NEW k \in 2 .. Len(stack), NEW i \in 2 .. Len(stack'), i = IF Rest = {} THEN k ELSE k + 1,
                stack'[i] = stack[k]
         PROVE  Ranked(i)'
    <2>1. Ranked(k) /\ stack[k].ents \subseteq Entities
      <3>1. k \in 1 .. Len(stack)
        BY <1>2
      <3>2. stack[k] \in Frames
        BY <3>1, ElementOfSeq DEF Typed
      <3> QED
        BY <3>1, <3>2 DEF AllRanked, Frames
    <2>2. Before(k) \subseteq Before(i)'
      <3> SUFFICES ASSUME NEW j \in 1 .. (k - 1) PROVE stack[j].ents \subseteq Before(i)'
        BY DEF Before
      <3>1. CASE j = 1
        <4>1. Top.ents \subseteq Referred \cup Rest
          BY DEF Rest
        <4>2. 1 \in 1 .. (i - 1) /\ (Rest # {} => 2 \in 1 .. (i - 1))
          BY <1>2, <1>10
        <4>3. Referred \subseteq Before(i)'
          BY <1>7, <4>2 DEF Before
        <4>4. Rest \subseteq Before(i)'
          <5>1. CASE Rest = {}
            BY <5>1
          <5>2. CASE Rest # {}
            BY <1>7, <4>2, <5>2 DEF Before
          <5> QED
            BY <5>1, <5>2
        <4> QED
          BY <1>2, <3>1, <4>1, <4>3, <4>4
      <3>2. CASE j # 1 /\ Rest = {}
        <4>1. j \in 1 .. (i - 1) /\ j \in 2 .. Len(stack')
          BY <1>2, <1>10, <3>2
        <4>2. stack'[j] = stack[j]
          BY <1>2, <3>2, <4>1
        <4> QED
          BY <4>1, <4>2 DEF Before
      <3>3. CASE j # 1 /\ Rest # {}
        <4>1. j + 1 \in 1 .. (i - 1) /\ j + 1 \in 3 .. Len(stack') /\ (j + 1) - 1 = j
          BY <1>2, <1>10, <3>3
        <4>2. stack'[j + 1] = stack[j]
          BY <1>2, <3>3, <4>1
        <4> QED
          BY <4>1, <4>2 DEF Before
      <3> QED
        BY <3>1, <3>2, <3>3
    <2> QED
      BY <1>4, <1>10, <2>1, <2>2 DEF Ranked
  <1>11. ASSUME NEW i \in 1 .. Len(stack'), Rest = {} PROVE Ranked(i)'
    <2>1. CASE i = 1
      BY <1>8, <2>1
    <2>2. CASE i # 1
      <3>1. i \in 2 .. Len(stack') /\ i \in 2 .. Len(stack) /\ stack'[i] = stack[i]
        BY <1>2, <1>11, <2>2
      <3> QED
        BY <1>10, <1>11, <3>1
    <2> QED
      BY <2>1, <2>2
  <1>12. ASSUME NEW i \in 1 .. Len(stack'), Rest # {} PROVE Ranked(i)'
    <2>1. CASE i = 1
      BY <1>8, <2>1
    <2>2. CASE i = 2
      BY <1>9, <1>12, <2>2
    <2>3. CASE i # 1 /\ i # 2
      <3>0. Len(stack') = Len(stack) + 1 /\ Len(stack) \in Nat
        BY <1>2, <1>12
      <3>1. i \in 3 .. Len(stack') /\ i \in 2 .. Len(stack') /\ i - 1 \in 2 .. Len(stack) /\ i = (i - 1) + 1
        <4>1. i \in Int /\ 1 <= i /\ i <= Len(stack) + 1
          BY <1>12, <3>0
        <4> QED
          BY <2>3, <3>0, <4>1
      <3>2. stack'[i] = stack[i - 1]
        BY <1>2, <1>12, <3>1
      <3> QED
        BY <1>10, <1>12, <3>1, <3>2
    <2> QED
      BY <2>1, <2>2, <2>3
  <1> QED
    BY <1>11, <1>12 DEF AllRanked

LEMMA SavedNext ==
  ASSUME Typed, Calls, Saved, [Next]_vars
  PROVE  Saved'
  <1> USE DEF entityVars, poolVars, flusherVars, engineVars, callVars, countVars, whyVars
  <1>0. setup' = setup /\ New' = New
    BY StepIs DEF New
  <1>1. ASSUME \A x \in Entities : state'[x] = "new" => state[x] = "new", pc' \notin {"insert", "update", "delete", "caches"}
        PROVE  Saved'
    BY <1>0, <1>1 DEF Saved
  <1>2. (Top \in Frames /\ Top.ents \subseteq Entities) \/ pc \notin Running
    <2>1. pc \in Running => stack \in Seq(Frames) /\ stack # << >>
      BY DEF Typed
    <2> QED
      BY <2>1, PopIs DEF Top, Frames
  <1>3. CASE Executes
    <2>1. PICK p \in Pools, W \in SUBSET Writes, V \in SUBSET Writes : Statement(p, W, V)
      BY <1>0, <1>3, StatementIs
    <2>2. /\ pc \in Running /\ pc' \in {pc, "fail"} /\ stack' = stack /\ batch' = batch
          /\ \A x \in Entities : state'[x] \in {state[x], "clean"}
      BY <2>1 DEF Statement
    <2>3. pc' = "insert" => \E t \in left : left' = left \ {t} /\ \A x \in batch : TypeOf[x] = t => state'[x] = "clean"
      BY <2>1, <2>2 DEF Statement, Written
    <2>4. Top' = Top
      BY <2>2 DEF Top
    <2> QED
      BY <1>0, <1>2, <2>2, <2>3, <2>4 DEF Saved
  <1>4. CASE Moves
    <2>1. UNCHANGED <<state, stack>> /\ Top' = Top /\ pc' \in {"update", "delete", "caches"}
          /\ (pc = "insert" => left = {}) /\ pc \in {"insert", "update", "delete"}
      BY <1>4 DEF Moves, Inserted, Updated, Deleted, Top
    <2> QED
      BY <1>0, <2>1 DEF Saved
  <1>5. CASE Build
    <2>1. /\ pc = "build" /\ Ready \subseteq Top.ents
          /\ (\A x \in Entities : state'[x] = IF x \in Ready /\ state[x] = "dirty" THEN "clean" ELSE state[x])
          /\ Refused \/ Split \/ Collects
      BY <1>5, BuildIs
    <2>2. CASE Collects
      <3>1. pc' = "insert" /\ Top' = Top /\ batch' = Collected /\ left' = TypesOf(Collected) /\ Referred = {}
        BY <2>2 DEF Collects, Top
      <3>2. Blocked = {}
        BY <3>1 DEF Referred, Blocked
      <3>3. \A x \in Ready \cap Upserts : state[x] # "new"
        BY <1>5 DEF Build
      <3>4. \A x \in Top.ents : state[x] = "new" => x \in Collected
        BY <3>2, <3>3 DEF Ready, Collected
      <3>5. \A x \in Top.ents : state'[x] = "new" => state[x] = "new"
        BY <1>2, <2>1 DEF Running
      <3> QED
        BY <1>0, <2>1, <3>1, <3>4, <3>5 DEF Saved, TypesOf
    <2>3. CASE Refused \/ Split
      BY <1>1, <2>1, <2>3 DEF Refused, Split
    <2> QED
      BY <2>1, <2>2, <2>3
  <1>6. CASE Caches
    <2>1. state' = state /\ pc' \in {"commit", "build"}
      BY <1>6, CachesIs
    <2> QED
      BY <1>1, <2>1
  <1>7. ASSUME NEW x \in Entities, Change(x) PROVE Saved'
    BY <1>1, <1>7 DEF Change, Typed, TypeOK
  <1>8. ASSUME NEW f \in Flushers, NewFlusher(f) \/ \E X \in SUBSET Entities : Flush(f, X) PROVE Saved'
    BY <1>1, <1>8 DEF NewFlusher, Flush
  <1>9. ASSUME NEW p \in Pools, Begin(p) \/ Commit(p) \/ Rollback(p) \/ CommitFails(p) \/ FlushCommit(p) PROVE Saved'
    BY <1>1, <1>9 DEF Begin, Commit, Rollback, CommitFails, FlushCommit
  <1>10. CASE Return \/ FlushPanics \/ Overflow
    BY <1>1, <1>10 DEF Return, FlushPanics, Overflow
  <1>11. CASE UNCHANGED vars
    BY <1>0, <1>11 DEF vars, Saved, Top
  <1> QED
    BY <1>3, <1>4, <1>5, <1>6, <1>7, <1>8, <1>9, <1>10, <1>11, StepIs

LEMMA EndsNext ==
  ASSUME Typed, Calls, Ends, [Next]_vars
  PROVE  Ends'
  <1> USE DEF entityVars, poolVars, flusherVars, engineVars, callVars, countVars, whyVars
  <1>0. setup' = setup /\ Cyclic' = Cyclic
    BY StepIs DEF Cyclic, New, Refs
  <1>1. Saved'
    BY SavedNext DEF Ends
  <1> SUFFICES ASSUME ~Cyclic PROVE ~overflowed' /\ (pc' \in Running => AllRanked')
    BY <1>0, <1>1 DEF Ends
  <1>2. ~overflowed /\ (pc \in Running => AllRanked) /\ Saved
    BY DEF Ends
  <1>3. CASE Executes
    <2>1. PICK p \in Pools, W \in SUBSET Writes, V \in SUBSET Writes : Statement(p, W, V)
      BY <1>0, <1>3, StatementIs
    <2>2. /\ pc \in Running /\ stack' = stack /\ overflowed' = overflowed
          /\ \A x \in Entities : state'[x] \in {state[x], "clean"}
      BY <2>1 DEF Statement, Written
    <2> QED
      BY <1>0, <1>2, <2>2, RankedStay
  <1>4. CASE Moves
    <2>1. UNCHANGED <<state, stack, overflowed>> /\ pc \in Running
      BY <1>4 DEF Moves, Inserted, Updated, Deleted, Running
    <2>2. \A x \in Entities : state'[x] \in {state[x], "clean"}
      BY <2>1
    <2> QED
      BY <1>0, <1>2, <2>1, <2>2, RankedStay
  <1>5. CASE Build
    <2>1. /\ pc = "build"
          /\ (\A x \in Entities : state'[x] = IF x \in Ready /\ state[x] = "dirty" THEN "clean" ELSE state[x])
          /\ overflowed' = overflowed
          /\ Refused \/ Split \/ Collects
      BY <1>5, BuildIs
    <2>2. AllRanked
      BY <1>2, <2>1 DEF Running
    <2>3. CASE Split
      BY <1>0, <1>2, <1>5, <2>1, <2>2, <2>3, RankedSplit
    <2>4. CASE Refused \/ Collects
      <3>1. stack' = stack /\ \A x \in Entities : state'[x] \in {state[x], "clean"}
        BY <2>1, <2>4 DEF Refused, Collects
      <3> QED
        BY <1>0, <1>2, <2>1, <2>2, <3>1, RankedStay
    <2> QED
      BY <2>1, <2>3, <2>4
  <1>6. CASE Caches
    <2>1. pc = "caches" /\ overflowed' = overflowed
      BY <1>6, CachesIs
    <2> QED
      BY <1>0, <1>2, <1>6, <2>1, RankedPop DEF Running
  <1>7. ASSUME NEW x \in Entities, Change(x) PROVE ~overflowed' /\ pc' \notin Running
    BY <1>2, <1>7 DEF Change, Running
  <1>8. ASSUME NEW f \in Flushers, NewFlusher(f) PROVE ~overflowed' /\ pc' \notin Running
    BY <1>2, <1>8 DEF NewFlusher, Running
  <1>9. ASSUME NEW f \in Flushers, NEW X \in SUBSET Entities, Flush(f, X) PROVE ~overflowed' /\ AllRanked'
    <2>1. overflowed' = overflowed /\ stack' = <<Frame(0, TRUE, FALSE, tracked'[f])>>
      BY <1>9 DEF Flush
    <2>2. StackBound' \in Nat
      BY EntitiesAssumption, FS_CardinalityType DEF StackBound
    <2>3. Len(stack') = 1 /\ stack'[1].depth = 0 /\ stack'[1].root
      BY <2>1 DEF Frame
    <2>4. Ranked(1)'
      BY <2>2, <2>3 DEF Ranked
    <2>5. \A i \in 1 .. Len(stack') : i = 1
      BY <2>3
    <2> QED
      BY <1>2, <2>1, <2>4, <2>5 DEF AllRanked
  <1>10. ASSUME NEW p \in Pools, Begin(p) \/ Commit(p) \/ Rollback(p) \/ CommitFails(p) \/ FlushCommit(p)
         PROVE  ~overflowed' /\ pc' \notin Running
    BY <1>2, <1>10 DEF Begin, Commit, Rollback, CommitFails, FlushCommit, Running
  <1>11. CASE Return \/ FlushPanics
    BY <1>2, <1>11 DEF Return, FlushPanics, Running
  <1>12. ~Overflow
    <2> SUFFICES ASSUME Overflow PROVE FALSE
      OBVIOUS
    <2>1. pc = "build" /\ Top.depth > StackBound
      BY DEF Overflow
    <2>2. stack \in Seq(Frames) /\ stack # << >>
      BY <2>1 DEF Typed, Running
    <2>3. Top = stack[1] /\ 1 \in 1 .. Len(stack) /\ Top \in Frames
      BY <2>2, PopIs DEF Top
    <2>4. Top.depth <= StackBound /\ StackBound \in Nat /\ Top.depth \in Nat
      BY <1>2, <2>1, <2>3, EntitiesAssumption, FS_CardinalityType DEF AllRanked, Ranked, Running, StackBound, Frames
    <2> QED
      BY <2>1, <2>4
  <1>13. CASE UNCHANGED vars
    <2>1. UNCHANGED <<state, stack, overflowed, pc>> /\ \A x \in Entities : state'[x] \in {state[x], "clean"}
      BY <1>13 DEF vars
    <2> QED
      BY <1>0, <1>2, <2>1, RankedStay
  <1> QED
    BY <1>3, <1>4, <1>5, <1>6, <1>7, <1>8, <1>9, <1>10, <1>11, <1>12, <1>13, StepIs

\* flush calls itself for the references that are not saved yet.  These calls come to
\* an end: Go's stack does not overflow, unless new entities reference each other.
THEOREM CallsOfFlushEnd == Spec => []EndsUnlessCyclic
  <1>1. Transactions /\ Ends /\ [Next]_vars => Ends'
    BY EndsNext DEF Transactions
  <1>2. Ends => EndsUnlessCyclic
    BY DEF Ends, EndsUnlessCyclic
  <1> QED
    BY <1>1, <1>2, EndsInit, TransactionsAlways, PTL DEF Spec

-----------------------------------------------------------------------------
(* What the caches hear of a program with one pool.                         *)

\* Flushers that are used once, no upserts, and p as the pool of all types.
Plain(p) == OneShot /\ Upserts = {} /\ UsedPools = {p}

\* What the flush that is under way has built.
Mine == {w \in built : w.n = flushes}

\* The queue that it writes to, or will.
Ours == IF rf[cur] = None THEN Holds(afterRedis) ELSE Holds(rf[cur])

\* Flushers that do not flush have nothing.
Dropped == \A f \in Flushers \ {cur} : rf[f] = None /\ localSets[f] = {}

\* The flush that is under way is not torn.
Untorn == \A n \in torn : n <= flushes /\ (pc \in Running => n # flushes)

\* The caches have heard of what is committed, but of what a flush without a
\* transaction has done so far; and between flushes the engine holds what is open.
Heard(p) ==
    /\ published \subseteq committed /\ shown = published
    /\ pc \notin Running \/ tx[p] # "none" => committed = published
    /\ tx[p] = "none" => afterRedis = None /\ afterLocal = {}
    /\ \A q \in Pools \ {p} : tx[q] = "none"
    /\ pc \in {"idle", "commit"} /\ tx[p] # "broken" => Holds(afterRedis) = open[p] /\ afterLocal = open[p]

\* The queues of the flush that is under way hold what it has built and what was open.
Underway(p) ==
    /\ localSets[cur] = Mine
    /\ rf[cur] # None /\ afterRedis # None => rf[cur] = afterRedis
    /\ tx[p] # "broken" => /\ Ours = open[p] \cup Mine
                           /\ afterLocal \subseteq open[p] \cup Mine /\ open[p] \subseteq afterLocal \cup Mine
    /\ tx[p] = "none" => committed \subseteq published \cup Mine
    /\ tx[p] = "none" /\ (pc \in {"build", "insert"} \/ (pc = "update" /\ p \in left)) => updates[cur] \cap committed = {}
    /\ pc = "update" /\ p \in left => updates[cur] # {}

\* The last call on the stack is a root, unless it saves new entities that reference
\* one another, and will never get to its inserts.
Rooted ==
    pc \in Running /\ ~stack[Len(stack)].root =>
      /\ Len(stack) = 1 /\ pc = "build" /\ Top.ents # {}
      /\ \A y \in Top.ents : state[y] = "new" /\ \E x \in Top.ents : y \in NewRefs(x)

Follows(p) == Dropped /\ Untorn /\ Heard(p) /\ (pc \in Running => Underway(p))
Exact(p) == Follows(p) /\ Rooted

\* What is known of the state before.
Known == Transactions /\ Backed /\ Whole

LEMMA PlainIs ==
  ASSUME Typed, NEW p \in Pools, Plain(p)
  PROVE  /\ \A x \in Entities : Pool(x) = p
         /\ \A X \in SUBSET Entities : X # {} => PoolsOf(X) = {p}
         /\ \A X \in SUBSET Entities : PoolsOf(X) \subseteq {p}
  <1>1. TypeOf \in [Entities -> Types]
    BY SetupsAssumption
  <1>2. \A x \in Entities : Pool(x) = p
    BY <1>1 DEF Plain, UsedPools, Pool
  <1> QED
    BY <1>2 DEF PoolsOf

\* Only one pool has writes open.
LEMMA PlainOpen ==
  ASSUME Typed, PoolsApart, NEW p \in Pools, Plain(p)
  PROVE  AllOpen = open[p] /\ \A q \in Pools \ {p} : open[q] = {}
  <1>1. open \in [Pools -> SUBSET Writes]
    BY DEF Typed, TypeOK
  <1>2. ASSUME NEW q \in Pools, q # p, open[q] # {} PROVE FALSE
    <2>1. PICK w \in open[q] : TRUE
      BY <1>2
    <2>2. w \in Writes /\ Pool(w.x) = q
      BY <1>1 DEF PoolsApart
    <2>3. w.x \in Entities
      BY <2>2 DEF Writes
    <2> QED
      BY <1>2, <2>2, <2>3, PlainIs
  <1> QED
    BY <1>2 DEF AllOpen

LEMMA MineIs ==
  ASSUME Typed, NEW p \in Pools, Plain(p)
  PROVE  Part(flushes, p) = Mine /\ Mine \subseteq Writes
  <1>1. built \subseteq Writes
    BY DEF Typed, TypeOK
  <1>2. \A w \in built : Pool(w.x) = p
    BY <1>1, PlainIs DEF Writes
  <1>3. Upserts = {}
    BY DEF Plain
  <1> QED
    BY <1>1, <1>2, <1>3 DEF Part, Mine

\* A flush is outside a transaction only at first, or with one statement.
LEMMA PlainCovered ==
  ASSUME Known, NEW p \in Pools, Plain(p), Untorn, pc \in Running
  PROVE  /\ tx[p] # "none" => Mine \cap committed = {} /\ Mine \subseteq updates[cur] \cup open[p]
         /\ tx[p] = "none" => (Outermost /\ Mine = {}) \/ (Lone /\ pc # "build")
         /\ tx[p] = "none" => Len(stack) = 1 /\ Top.depth = 0 /\ Top.ents = tracked[cur]
         /\ updates[cur] \subseteq localSets[cur]
         /\ cur \in Flushers /\ PoolsOf(tracked[cur]) = {p}
         /\ stack # << >> /\ stack \in Seq(Frames)
  <1>1. Typed /\ Calls /\ PoolsApart /\ LeftOver /\ Numbered /\ Present
    BY DEF Known, Transactions, Backed, Whole
  <1>2. /\ cur \in Flushers /\ tracked[cur] # {} /\ tracked[cur] \subseteq Entities
        /\ stack # << >> /\ stack \in Seq(Frames)
    BY <1>1 DEF Typed, TypeOK, Calls, Running
  <1>3. updates[cur] \subseteq localSets[cur]
    BY <1>1, <1>2 DEF LeftOver
  <1>4. Part(flushes, p) = Mine
    BY <1>1, MineIs
  <1>5. flushes \notin torn
    BY DEF Untorn
  <1>6. Outermost \/ Covered \/ (Lone /\ pc # "build")
    BY <1>1, <1>5 DEF Present
  <1>7. Outermost => Mine = {}
    BY <1>1, <1>4 DEF Numbered
  <1>8. Covered => Mine \cap committed = {} /\ Mine \subseteq updates[cur] \cup open[p]
    BY <1>4 DEF Covered, Pending
  <1>9. Covered => tx[p] # "none"
    BY <1>1, <1>2, PlainIs DEF Covered
  <1>10. Lone /\ pc # "build" => tx[p] = "none"
    <2>1. Lone /\ pc # "build" => \A x \in tracked[cur] : tx[Pool(x)] = "none"
      BY <1>1, LoneIsOutside
    <2> QED
      BY <1>1, <1>2, <2>1, PlainIs
  <1>11. Top.depth = 0 => Len(stack) = 1 /\ Top.ents = tracked[cur]
    <2>1. Top = stack[1] /\ Len(stack) \in Nat /\ Len(stack) >= 1
      BY <1>2, PopIs DEF Top
    <2>2. FrameOK(1)
      BY <1>1, <2>1 DEF Calls, FramesOK
    <2> QED
      BY <2>1, <2>2 DEF FrameOK
  <1>12. PoolsOf(tracked[cur]) = {p}
    BY <1>1, <1>2, PlainIs
  <1> QED
    BY <1>2, <1>3, <1>6, <1>7, <1>8, <1>9, <1>10, <1>11, <1>12 DEF Outermost, Lone

\* The steps of such a program are those of its pool.
LEMMA PlainStep ==
  ASSUME Typed, [Next]_vars, NEW p \in Pools, Plain(p)
  PROVE  /\ setup' = setup /\ Plain(p)'
         /\ \/ \E x \in Entities : Change(x)
            \/ \E f \in Flushers : NewFlusher(f) \/ \E X \in SUBSET Entities : Flush(f, X)
            \/ Begin(p) \/ Commit(p) \/ Rollback(p) \/ CommitFails(p) \/ FlushCommit(p)
            \/ (\E t \in Types : Insert(t) \/ Delete(t)) \/ Update(p)
            \/ Moves \/ Build \/ Caches \/ Return \/ FlushPanics \/ Overflow
            \/ UNCHANGED vars
  <1>1. setup.entities \subseteq Entities /\ setup.flushers \subseteq Flushers
    BY SetupIs DEF Typed, TypeOK
  <1>2. UsedPools = {p} /\ Upserts = {}
    BY DEF Plain
  <1>3. \A x : ~Upsert(x)
    BY <1>2 DEF Upsert
  <1>4. setup' = setup
    BY StepIs
  <1>5. Plain(p)'
    BY <1>4 DEF Plain, OneShot, Upserts, UsedPools, PoolOf
  <1>6. CASE Next
    <2>1. Step
      BY <1>6 DEF Next
    <2>2. ASSUME NEW r \in UsedPools, Begin(r) \/ Commit(r) \/ Rollback(r) \/ CommitFails(r)
                                      \/ Update(r) \/ FlushCommit(r)
          PROVE  Begin(p) \/ Commit(p) \/ Rollback(p) \/ CommitFails(p) \/ FlushCommit(p) \/ Update(p)
      BY <1>2, <2>2
    <2> QED
      BY <1>1, <1>3, <1>4, <1>5, <2>1, <2>2 DEF Step, Moves
  <1>7. CASE UNCHANGED vars
    BY <1>4, <1>5, <1>7 DEF vars
  <1> QED
    BY <1>6, <1>7


\* A step that leaves the calls alone, and what they are to save.
LEMMA RootedStays ==
  ASSUME Typed, Rooted, UNCHANGED <<setup, stack, state>>, pc' \in Running => pc \in Running,
         pc = "build" => pc' \in {"build", "fail"}
  PROVE  Rooted'
  BY DEF Rooted, NewRefs, Top, Refs, Running

LEMMA RootedBuild ==
  ASSUME Typed, Calls, Rooted, Build, setup' = setup
  PROVE  Rooted'
  <1>1. /\ pc = "build" /\ Top.ents \subseteq Entities /\ Ready \subseteq Top.ents /\ Top \in Frames
        /\ Referred \subseteq Entities /\ (\A x \in Referred : state[x] = "new")
        /\ (\A x \in Entities : state'[x] = IF x \in Ready /\ state[x] = "dirty" THEN "clean" ELSE state[x])
        /\ Refused \/ Split \/ Collects
    BY BuildIs
  <1>0. stack \in Seq(Frames) /\ stack # << >>
    BY <1>1 DEF Typed, Running
  <1>2. Top = stack[1] /\ Len(stack) \in Nat /\ Len(stack) >= 1
    BY <1>0, PopIs DEF Top
  <1>3. \A x \in Entities : state[x] = "new" => state'[x] = "new"
    BY <1>1
  <1>4. CASE Refused
    BY <1>4 DEF Refused, Rooted, Running
  <1>5. ASSUME ~stack[Len(stack)].root
        PROVE  Len(stack) = 1 /\ Top.ents # {} /\ Top.ents \subseteq Referred
    <2>1. /\ Len(stack) = 1 /\ Top.ents # {}
          /\ \A y \in Top.ents : state[y] = "new" /\ \E x \in Top.ents : y \in NewRefs(x)
      BY <1>1, <1>5 DEF Rooted, Running
    <2> QED
      BY <2>1 DEF Referred, Blocked
  <1>6. CASE Collects
    <2>1. Referred = {} /\ stack' = stack /\ pc' = "insert"
      BY <1>6 DEF Collects
    <2>2. stack[Len(stack)].root
      BY <1>5, <2>1
    <2> QED
      BY <2>1, <2>2 DEF Rooted
  <1>7. CASE Split
    <2>1. /\ stack' \in Seq(Frames) /\ stack' # << >>
          /\ Head(stack') = stack'[1] /\ stack'[1] = Frame(Top.depth + 1, FALSE, Inside, Referred)
          /\ (Rest = {} => /\ Len(stack') = Len(stack)
                           /\ \A i \in 2 .. Len(stack') : stack'[i] = stack[i])
          /\ (Rest # {} => /\ Len(stack') = Len(stack) + 1
                           /\ stack'[2] = Frame(Top.depth + 1, TRUE, Inside, Rest)
                           /\ \A i \in 3 .. Len(stack') : stack'[i] = stack[i - 1])
      BY <1>7, PushedIs
    <2>2. Referred # {} /\ pc' = pc
      BY <1>7 DEF Split
    <2>3. CASE Rest # {}
      <3>1. stack[Len(stack)].root
        BY <1>5, <2>3 DEF Rest
      <3>2. stack'[Len(stack')].root
        <4>1. CASE Len(stack) = 1
          BY <1>2, <2>1, <2>3, <4>1 DEF Frame
        <4>2. CASE Len(stack) # 1
          <5>2. Len(stack') = Len(stack) + 1
            BY <2>1, <2>3
          <5> DEFINE m == Len(stack)
                     k == Len(stack')
          <5>3. m \in Nat /\ m >= 1 /\ m # 1 /\ k = m + 1
            BY <1>2, <4>2, <5>2
          <5> HIDE DEF m, k
          <5>4. k \in 3 .. k /\ k - 1 = m
            BY <5>3
          <5>1. Len(stack') \in 3 .. Len(stack') /\ Len(stack') - 1 = Len(stack)
            BY <5>4 DEF m, k
          <5> QED
            BY <2>1, <2>3, <3>1, <5>1
        <4> QED
          BY <4>1, <4>2
      <3> QED
        BY <3>2 DEF Rooted
    <2>4. CASE Rest = {} /\ Len(stack) # 1
      <3>1. stack[Len(stack)].root
        BY <1>5, <2>4
      <3>2. Len(stack') \in 2 .. Len(stack') /\ Len(stack') = Len(stack)
        BY <1>2, <2>1, <2>4
      <3> QED
        BY <2>1, <2>4, <3>1, <3>2 DEF Rooted
    <2>5. CASE Rest = {} /\ Len(stack) = 1
      <3>1. Len(stack') = 1 /\ Top'.ents = Referred
        BY <2>1, <2>5 DEF Frame, Top
      <3>2. Top.ents \subseteq Referred
        BY <2>5 DEF Rest
      <3>3. ASSUME NEW y \in Referred
            PROVE  state'[y] = "new" /\ \E x \in Referred : y \in NewRefs(x)'
        <4>1. PICK x \in Blocked : y \in NewRefs(x)
          BY DEF Referred
        <4>2. x \in Referred
          BY <3>2 DEF Blocked
        <4>3. state'[y] = "new"
          BY <1>1, <1>3
        <4> QED
          BY <4>1, <4>2, <4>3 DEF NewRefs, Refs
      <3> QED
        BY <1>1, <2>2, <3>1, <3>3 DEF Rooted
    <2> QED
      BY <2>3, <2>4, <2>5
  <1> QED
    BY <1>1, <1>4, <1>6, <1>7

LEMMA RootedNext ==
  ASSUME Typed, Calls, Rooted, [Next]_vars, NEW p \in Pools, Plain(p)
  PROVE  Rooted'
  <1> USE DEF entityVars, poolVars, flusherVars, engineVars, callVars, countVars, whyVars, Running
  <1>0. setup' = setup
    BY StepIs
  <1>1. CASE pc' \notin Running
    BY <1>1 DEF Rooted
  <1>2. ASSUME NEW f \in Flushers, NEW X \in SUBSET Entities, Flush(f, X) PROVE Rooted'
    <2> DEFINE c == Frame(0, TRUE, FALSE, tracked'[f])
    <2>1. stack' = <<c>> /\ c.root
      BY <1>2 DEF Flush, Frame
    <2> HIDE DEF c
    <2>2. stack'[Len(stack')].root
      BY <2>1
    <2> QED
      BY <2>2 DEF Rooted
  <1>3. CASE Caches
    <2>1. /\ pc = "caches" /\ stack' \in Seq(Frames) /\ Len(stack') = Len(stack) - 1
          /\ Len(stack) \in Nat /\ Len(stack) >= 1
          /\ (\A i \in 1 .. Len(stack') : stack'[i] = stack[i + 1])
          /\ (stack' = << >> <=> Len(stack) = 1)
          /\ pc' = IF stack' = << >> THEN "commit" ELSE "build"
      BY <1>3, CachesIs
    <2>2. CASE stack' # << >>
      <3>1. stack[Len(stack)].root
        BY <2>1 DEF Rooted
      <3>2. Len(stack') \in 1 .. Len(stack') /\ Len(stack') + 1 = Len(stack)
        BY <2>1, <2>2
      <3> QED
        BY <2>1, <3>1, <3>2 DEF Rooted
    <2> QED
      BY <2>1, <2>2 DEF Rooted
  <1>4. CASE Build
    BY <1>0, <1>4, RootedBuild
  \* Statements, and what is between them, come after the build.
  <1>5. ASSUME pc \in Running \ {"build"}, pc' # "build", stack' = stack PROVE Rooted'
    BY <1>5 DEF Rooted
  <1>6. ASSUME NEW t \in Types, Insert(t) \/ Delete(t) PROVE Rooted'
    BY <1>5, <1>6 DEF Insert, Delete
  <1>7. CASE Update(p) \/ Moves
    BY <1>5, <1>7 DEF Update, Moves, Inserted, Updated, Deleted
  <1>8. CASE UNCHANGED vars
    BY <1>8, RootedStays DEF vars
  <1>9. ASSUME NEW x \in Entities, Change(x) PROVE Rooted'
    BY <1>1, <1>9 DEF Change
  <1>10. ASSUME NEW f \in Flushers, NewFlusher(f) PROVE Rooted'
    BY <1>1, <1>10 DEF NewFlusher
  <1>11. CASE Begin(p) \/ Commit(p) \/ Rollback(p) \/ CommitFails(p) \/ FlushCommit(p) \/ Return \/ FlushPanics \/ Overflow
    BY <1>1, <1>11 DEF Begin, Commit, Rollback, CommitFails, FlushCommit, Return, FlushPanics, Overflow
  <1> QED
    BY <1>2, <1>3, <1>4, <1>6, <1>7, <1>8, <1>9, <1>10, <1>11, PlainStep


\* A step that leaves the queues and the writes alone.
LEMMA FollowsStays ==
  ASSUME Typed, setup' = setup, NEW p \in Pools, Follows(p),
         UNCHANGED <<tx, open, committed, updates, localSets, rf, queue, afterRedis, afterLocal, published, shown,
                     cur, flushes, built, torn>>,
         pc' \in Running <=> pc \in Running,
         pc' \in {"idle", "commit"} => pc \in {"idle", "commit"},
         pc' \in {"build", "insert", "update"} =>
            pc \in {"build", "insert"} \/ (pc = pc' /\ left' = left),
         pc' = "update" /\ p \in left' => updates[cur] # {}
  PROVE  Follows(p)'
  <1>1. Mine' = Mine /\ Ours' = Ours /\ Holds(afterRedis)' = Holds(afterRedis)
    BY DEF Mine, Ours, Holds
  <1>2. Dropped' /\ Untorn' /\ Heard(p)'
    BY <1>1 DEF Follows, Dropped, Untorn, Heard
  <1>3. pc' \in Running => Underway(p)'
    BY <1>1 DEF Follows, Underway
  <1> QED
    BY <1>2, <1>3 DEF Follows

\* Between flushes no flusher has anything.
LEMMA IdleIs ==
  ASSUME Typed, Dropped, pc = "idle"
  PROVE  cur = None /\ \A f \in Flushers : rf[f] = None /\ localSets[f] = {}
  <1>1. cur = None /\ None \notin Flushers
    BY ObjectsAssumption DEF Typed, TypeOK
  <1> QED
    BY <1>1 DEF Dropped

LEMMA FollowsFlush ==
  ASSUME Known, NEW p \in Pools, Plain(p), Follows(p), setup' = setup,
         NEW f \in Flushers, NEW X \in SUBSET Entities, Flush(f, X)
  PROVE  Follows(p)'
  <1> USE DEF entityVars, poolVars, flusherVars, engineVars, callVars, countVars, whyVars
  <1>1. /\ pc = "idle" /\ flushes' = flushes + 1 /\ cur' = f /\ pc' = "build"
        /\ UNCHANGED <<built, tx, open, committed, updates, localSets, rf, queue, afterRedis, afterLocal,
                       published, shown, torn>>
    BY DEF Flush
  <1>2. flushes \in Nat /\ torn \subseteq Nat /\ afterRedis \in Objects \cup {None}
    BY SetupIs DEF Known, Transactions, Typed, TypeOK
  <1>3. /\ Typed /\ Dropped /\ Numbered /\ LeftOver
        /\ \A n \in torn : n <= flushes
        /\ Heard(p)
    BY DEF Known, Transactions, Backed, Whole, Follows, Untorn
  <1>4. \A g \in Flushers : rf[g] = None /\ localSets[g] = {} /\ updates[g] = {}
    BY <1>1, <1>3, IdleIs DEF LeftOver
  <1>5. Mine' = {}
    <2>1. built \subseteq Writes /\ \A w \in built : w.n <= flushes
      BY <1>3 DEF Numbered, Typed, TypeOK
    <2>2. \A w \in built : w.n \in Nat
      BY <2>1, SetupIs DEF Writes
    <2>3. \A w \in built : w.n # flushes + 1
      BY <1>2, <2>1, <2>2
    <2> QED
      BY <1>1, <2>3 DEF Mine
  <1>6. Ours' = Holds(afterRedis) /\ Holds(afterRedis)' = Holds(afterRedis)
    BY <1>1, <1>4 DEF Ours, Holds
  <1>7. /\ published \subseteq committed /\ shown = published /\ committed = published
        /\ tx[p] = "none" => afterRedis = None /\ afterLocal = {}
        /\ \A q \in Pools \ {p} : tx[q] = "none"
        /\ tx[p] # "broken" => Holds(afterRedis) = open[p] /\ afterLocal = open[p]
    BY <1>1, <1>3 DEF Heard, Running
  <1>8. Dropped'
    BY <1>1, <1>4 DEF Dropped
  <1>9. Untorn'
    BY <1>1, <1>2, <1>3 DEF Untorn
  <1>10. Heard(p)'
    BY <1>1, <1>7 DEF Heard
  <1>11. Underway(p)'
    BY <1>1, <1>4, <1>5, <1>6, <1>7 DEF Underway
  <1> QED
    BY <1>8, <1>9, <1>10, <1>11 DEF Follows

\* COMMIT tells the caches of all that was open.
LEMMA FollowsCommitted ==
  ASSUME Known, NEW p \in Pools, Plain(p), Follows(p), setup' = setup, pc \in {"idle", "commit"}, pc' = pc, tx[p] = "open",
         Committed(p), UNCHANGED <<entityVars, flusherVars, cur, flushes, torn>>
  PROVE  Follows(p)'
  <1> USE DEF entityVars, flusherVars
  <1>0. Typed /\ tx \in [Pools -> {"none", "open", "broken"}] /\ open \in [Pools -> SUBSET Writes]
    BY DEF Known, Transactions, Typed, TypeOK
  <1>1. /\ tx' = [tx EXCEPT ![p] = "none"] /\ open' = [open EXCEPT ![p] = {}]
        /\ committed' = committed \cup open[p] /\ shown' = shown \cup afterLocal
        /\ afterLocal' = {} /\ afterRedis' = None /\ published' = published \cup Holds(afterRedis)
    BY <1>0, CommittedIs
  <1>2. /\ published = committed /\ shown = published /\ Holds(afterRedis) = open[p] /\ afterLocal = open[p]
        /\ \A q \in Pools \ {p} : tx[q] = "none"
    BY DEF Follows, Heard, Running
  <1>3. tx'[p] = "none" /\ open'[p] = {} /\ \A q \in Pools \ {p} : tx'[q] = "none"
    BY <1>0, <1>1, <1>2
  <1>4. published' = committed' /\ shown' = published' /\ Holds(afterRedis)' = {}
    BY <1>1, <1>2 DEF Holds
  <1>5. Heard(p)'
    BY <1>1, <1>3, <1>4 DEF Heard
  <1>6. Dropped' /\ Untorn' /\ pc' \notin Running
    BY DEF Follows, Dropped, Untorn, Running
  <1> QED
    BY <1>5, <1>6 DEF Follows

\* A COMMIT that fails breaks the transaction.
LEMMA FollowsBroken ==
  ASSUME Known, NEW p \in Pools, Plain(p), Follows(p), setup' = setup, pc \in {"idle", "commit"}, pc' \notin Running, tx[p] = "open",
         CommitError(p), UNCHANGED <<entityVars, flusherVars, engineVars, committed, cur, flushes, torn>>
  PROVE  Follows(p)'
  <1> USE DEF entityVars, flusherVars, engineVars
  <1>1. /\ tx' = [tx EXCEPT ![p] = "broken"] /\ tx \in [Pools -> {"none", "open", "broken"}]
    BY DEF CommitError, Known, Transactions, Typed, TypeOK
  <1>2. tx'[p] = "broken" /\ \A q \in Pools \ {p} : tx'[q] = tx[q]
    BY <1>1
  <1>3. Heard(p)'
    BY <1>2 DEF Follows, Heard, Running
  <1>4. Dropped' /\ Untorn'
    BY DEF Follows, Dropped, Untorn
  <1> QED
    BY <1>3, <1>4 DEF Follows


\* A statement that fails has written nothing: it was the only one.
LEMMA FailsClean ==
  ASSUME Known, NEW p \in Pools, Plain(p), Follows(p), setup' = setup,
         (\E t \in Types : Insert(t) \/ Delete(t)) \/ Update(p), pc' = "fail"
  PROVE  committed' = committed /\ committed = published
  <1> USE DEF poolVars
  <1>1. Typed /\ pc \in {"insert", "update", "delete"}
    BY DEF Known, Transactions, Insert, Delete, Update
  <1>2. /\ published \subseteq committed
        /\ tx[p] # "none" => committed = published
        /\ tx[p] = "none" => committed \subseteq published \cup Mine
        /\ tx[p] = "none" /\ pc = "update" /\ p \in left => updates[cur] \cap committed = {} /\ updates[cur] # {}
    BY <1>1 DEF Follows, Heard, Underway, Running
  <1>3. tx[p] = "none" => Lone
    BY <1>1, PlainCovered DEF Follows, Running, Outermost
  <1>4. Part(flushes, p) = Mine
    BY <1>1, MineIs
  <1>5. Lone => \/ /\ NoneLeft /\ (\A u, v \in updates[cur] : u = v)
                   /\ Mine \subseteq updates[cur]
                \/ updates[cur] = {} /\ NoneLeft /\ Mine \subseteq committed
                \/ updates[cur] = {} /\ Mine = {}
    BY <1>4 DEF Lone, OneUpdate, OneDone, OneToCome
  <1>6. ASSUME NEW t \in Types, Insert(t) \/ Delete(t)
        PROVE  committed' = committed /\ committed = published
    <2>1. t \in left /\ pc \in {"insert", "delete"} /\ committed' = committed
      BY <1>6 DEF Insert, Delete
    <2>2. ~NoneLeft
      BY <2>1 DEF NoneLeft
    <2> QED
      BY <1>2, <1>3, <1>5, <2>1, <2>2
  <1>7. CASE Update(p)
    <2> DEFINE W == {w \in updates[cur] : Pool(w.x) = p}
    <2>1. pc = "update" /\ p \in left
      BY <1>7 DEF Update
    <2>2. UNCHANGED poolVars \/ (tx[p] = "none" /\ \E S \in SUBSET W : S # W /\ Executed(p, S))
      BY <1>7 DEF Update
    <2>3. CASE tx[p] # "none"
      BY <1>2, <2>2, <2>3
    <2>4. CASE tx[p] = "none"
      <3>1. Mine \subseteq updates[cur] /\ \A u, v \in updates[cur] : u = v
        BY <1>2, <1>3, <1>5, <2>1, <2>4
      <3>2. committed = published
        BY <1>2, <2>1, <2>4, <3>1
      <3>3. \A S \in SUBSET W : S # W => S = {}
        BY <3>1
      <3>4. committed' = committed
        <4>1. CASE UNCHANGED poolVars
          BY <4>1
        <4>2. CASE \E S \in SUBSET W : S # W /\ Executed(p, S)
          <5>1. Executed(p, {})
            BY <3>3, <4>2
          <5> QED
            BY <2>4, <5>1 DEF Executed
        <4> QED
          BY <2>2, <4>1, <4>2
      <3> QED
        BY <3>2, <3>4
    <2> QED
      BY <2>3, <2>4
  <1> QED
    BY <1>6, <1>7

\* A queue grows by what is written to it.
LEMMA OursGrows ==
  ASSUME Typed, cur \in Flushers, NEW V \in SUBSET Writes, Enqueued(cur, V), UNCHANGED <<cur, afterRedis>>,
         rf[cur] # None /\ afterRedis # None => rf[cur] = afterRedis
  PROVE  /\ Ours' = Ours \cup V
         /\ rf'[cur] # None /\ afterRedis # None => rf'[cur] = afterRedis
         /\ localSets'[cur] = localSets[cur] \cup V
         /\ \A g \in Flushers \ {cur} : rf'[g] = rf[g] /\ localSets'[g] = localSets[g]
  <1>1. /\ rf \in [Flushers -> Objects \cup {None}] /\ afterRedis \in Objects \cup {None}
        /\ queue \in [Objects -> SUBSET Writes] /\ localSets \in [Flushers -> SUBSET Writes]
        /\ None \notin Objects
    BY ObjectsAssumption DEF Typed, TypeOK
  <1>2. /\ localSets'[cur] = localSets[cur] \cup V
        /\ \A g \in Flushers \ {cur} : rf'[g] = rf[g] /\ localSets'[g] = localSets[g]
    BY <1>1 DEF Enqueued
  <1>3. CASE V = {} /\ rf' = rf /\ queue' = queue
    BY <1>2, <1>3 DEF Ours, Holds
  <1>4. CASE /\ rf'[cur] \in Objects
             /\ rf[cur] = None => IF afterRedis # None THEN rf'[cur] = afterRedis
                                  ELSE \A g \in Flushers : rf[g] # rf'[cur]
             /\ \A o \in Objects \ {rf'[cur]} : queue'[o] = queue[o]
             /\ queue'[rf'[cur]] = IF rf[cur] = None /\ afterRedis = None THEN V
                                   ELSE queue[rf'[cur]] \cup V
    <2>1. rf[cur] # None => rf'[cur] = rf[cur]
      BY DEF Enqueued
    <2>2. Ours' = queue'[rf'[cur]]
      BY <1>1, <1>4 DEF Ours, Holds
    <2>3. CASE rf[cur] # None
      BY <1>1, <1>2, <1>4, <2>1, <2>2, <2>3 DEF Ours, Holds
    <2>4. CASE rf[cur] = None /\ afterRedis # None
      BY <1>1, <1>2, <1>4, <2>2, <2>4 DEF Ours, Holds
    <2>5. CASE rf[cur] = None /\ afterRedis = None
      BY <1>1, <1>2, <1>4, <2>2, <2>5 DEF Ours, Holds
    <2> QED
      BY <2>3, <2>4, <2>5
  <1> QED
    BY <1>3, <1>4 DEF Enqueued

LEMMA FollowsStatement ==
  ASSUME Known, NEW p \in Pools, Plain(p), Follows(p), setup' = setup,
         (\E t \in Types : Insert(t) \/ Delete(t)) \/ Update(p)
  PROVE  Follows(p)'
  <1>0. Typed /\ PoolsApart /\ pc \in {"insert", "update", "delete"} /\ Executes
    BY DEF Known, Transactions, Insert, Delete, Update, Executes
  <1>1. PICK q \in Pools, W \in SUBSET Writes, V \in SUBSET Writes : Statement(q, W, V)
    BY <1>0, StatementIs
  <1>2. /\ V \subseteq W /\ W \subseteq V \cup updates[cur] /\ pc' \in {pc, "fail"} /\ cur \in Flushers
        /\ tx' = tx /\ Enqueued(cur, V)
        /\ UNCHANGED <<updates, afterRedis, afterLocal, published, shown, cur>>
        /\ (pc' = "update" => left' = left \ {q})
        /\ (\A w \in W : Pool(w.x) = q)
        /\ (\A r \in Pools \ {q} : open'[r] = open[r])
        /\ (IF tx[q] = "open" THEN open'[q] = open[q] \cup W /\ committed' = committed
                              ELSE open' = open /\ committed' = committed \cup W)
        /\ Written(q, W, V)
    BY <1>1 DEF Statement
  <1>3. /\ built' = built \cup V /\ (\A w \in V : w.n = flushes) /\ (tx[q] = "broken" => W = {})
        /\ (pc \in {"insert", "delete"} => left # {})
        /\ UNCHANGED <<torn, flushes>>
    BY <1>2 DEF Written
  <1>4. q # p => W = {}
    BY <1>0, <1>2, PlainIs DEF Writes
  <1>5. tx \in [Pools -> {"none", "open", "broken"}] /\ open \in [Pools -> SUBSET Writes]
    BY <1>0 DEF Typed, TypeOK
  <1>6. /\ tx[p] = "open" => open'[p] = open[p] \cup W /\ committed' = committed
        /\ tx[p] = "none" => open'[p] = open[p] /\ committed' = committed \cup W
        /\ tx[p] = "broken" => W = {} /\ open'[p] = open[p] /\ committed' = committed
    BY <1>2, <1>3, <1>4, <1>5
  <1>7. /\ updates[cur] \subseteq Mine
        /\ tx[p] = "none" => Lone
    BY <1>0, PlainCovered DEF Follows, Underway, Running, Outermost
  <1>8. Mine' = Mine \cup V
    BY <1>3 DEF Mine
  <1>9. Dropped /\ Untorn /\ Heard(p) /\ Underway(p)
    BY <1>0 DEF Follows, Running
  <1>10. /\ Ours' = Ours \cup V
         /\ (rf'[cur] # None /\ afterRedis # None => rf'[cur] = afterRedis)
         /\ localSets'[cur] = localSets[cur] \cup V
         /\ (\A g \in Flushers \ {cur} : rf'[g] = rf[g] /\ localSets'[g] = localSets[g])
    BY <1>0, <1>2, <1>9, OursGrows DEF Underway
  <1>11. Dropped' /\ Untorn'
    BY <1>0, <1>2, <1>3, <1>9, <1>10 DEF Dropped, Untorn, Running
  <1>12. CASE pc' = "fail"
    <2>1. committed' = committed /\ committed = published
      BY <1>12, FailsClean
    <2>2. Heard(p)'
      BY <1>2, <1>9, <1>12, <2>1 DEF Heard
    <2> QED
      BY <1>11, <1>12, <2>2 DEF Follows, Running
  <1>13. CASE pc' = pc
    <2>1. Heard(p)'
      BY <1>0, <1>2, <1>5, <1>6, <1>9, <1>13 DEF Heard, Running
    <2>2. W \subseteq Mine'
      BY <1>2, <1>7, <1>8
    <2>3. tx[p] # "broken" => /\ Ours' = open'[p] \cup Mine'
                              /\ afterLocal \subseteq open'[p] \cup Mine' /\ open'[p] \subseteq afterLocal \cup Mine'
      BY <1>5, <1>6, <1>8, <1>9, <1>10, <2>2 DEF Underway
    <2>4. tx[p] = "none" => committed' \subseteq published \cup Mine'
      BY <1>6, <1>8, <1>9, <2>2 DEF Underway
    <2>5. ASSUME tx[p] = "none", pc \in {"build", "insert"} \/ (pc = "update" /\ p \in left')
          PROVE  updates[cur] \cap committed' = {}
      <3>1. CASE pc = "insert"
        <4>1. ~NoneLeft
          BY <1>3, <3>1 DEF NoneLeft
        <4> QED
          BY <1>7, <2>5, <4>1 DEF Lone, OneUpdate, OneDone, OneToCome
      <3>2. CASE pc = "update" /\ p \in left'
        <4>1. p \in left /\ q # p
          BY <1>2, <1>13, <3>2
        <4> QED
          BY <1>4, <1>6, <1>9, <2>5, <3>2, <4>1 DEF Underway
      <3> QED
        BY <1>0, <2>5, <3>1, <3>2
    <2>6. pc = "update" /\ p \in left' => updates[cur] # {}
      BY <1>2, <1>9, <1>13 DEF Underway
    <2>7. Underway(p)'
      BY <1>2, <1>8, <1>9, <1>10, <1>13, <2>3, <2>4, <2>5, <2>6 DEF Underway
    <2> QED
      BY <1>11, <2>1, <2>7 DEF Follows
  <1> QED
    BY <1>2, <1>12, <1>13


LEMMA FollowsBuild ==
  ASSUME Known, NEW p \in Pools, Plain(p), Follows(p), setup' = setup, Build
  PROVE  Follows(p)'
  <1>0. Typed /\ Calls /\ PoolsApart /\ Numbered
    BY DEF Known, Transactions, Whole
  <1>1. /\ pc = "build" /\ cur \in Flushers /\ DirtyWrites \in SUBSET Writes
        /\ built' = built \cup DirtyWrites /\ updates' = [updates EXCEPT ![cur] = @ \cup DirtyWrites]
        /\ Queued(cur, DirtyWrites)
        /\ (\A q \in Pools : tx'[q] = IF Starts /\ tx[q] = "none" /\ q \in PoolsOf(tracked[cur])
                                      THEN "open" ELSE tx[q])
        /\ (~Inside /\ Referred # {} => Starts)
        /\ Refused \/ Split \/ Collects
        /\ UNCHANGED <<open, committed, afterRedis, afterLocal, published, shown, cur, flushes>>
    BY <1>0, BuildIs
  <1>2. pc \in Running /\ Dropped /\ Untorn /\ Heard(p) /\ Underway(p)
    BY <1>1 DEF Follows, Running
  <1>3. /\ PoolsOf(tracked[cur]) = {p} /\ updates[cur] \subseteq Mine
        /\ tx[p] = "none" => Mine = {} /\ Len(stack) = 1 /\ Top.ents = tracked[cur]
        /\ stack \in Seq(Frames) /\ stack # << >>
    BY <1>1, <1>2, PlainCovered DEF Underway
  <1>4. committed = published /\ committed \subseteq built
    BY <1>0, <1>2, <1>3 DEF Heard, Underway, Numbered
  <1>5. /\ tx[p] # "none" => tx'[p] = tx[p]
        /\ tx'[p] = "none" => tx[p] = "none" /\ ~Starts
        /\ tx'[p] = "open" \/ tx'[p] = tx[p]
        /\ \A q \in Pools \ {p} : tx'[q] = "none"
    BY <1>1, <1>2, <1>3 DEF Heard
  <1>6. Mine' = Mine \cup DirtyWrites /\ \A w \in DirtyWrites : w.n = flushes
    BY <1>1 DEF Mine, DirtyWrites, Write
  <1>7. /\ Ours' = Ours \cup DirtyWrites
        /\ (rf'[cur] # None /\ afterRedis # None => rf'[cur] = afterRedis)
        /\ localSets'[cur] = localSets[cur] \cup DirtyWrites
        /\ (\A g \in Flushers \ {cur} : rf'[g] = rf[g] /\ localSets'[g] = localSets[g])
    <2>1. Enqueued(cur, DirtyWrites)
      BY <1>0, <1>1, QueuedIs
    <2> QED
      BY <1>0, <1>1, <1>2, <2>1, OursGrows DEF Underway
  <1>8. updates'[cur] = updates[cur] \cup DirtyWrites
    BY <1>0, <1>1 DEF Typed, TypeOK
  <1>9. Dropped'
    BY <1>1, <1>2, <1>7 DEF Dropped
  \* Outside a transaction the call finds none, and opens none.
  <1>10. ASSUME tx'[p] = "none"
         PROVE  ~Inside /\ ~Starts
    <2>1. \A q \in Pools : tx[q] = "none"
      BY <1>2, <1>5, <1>10 DEF Heard
    <2>2. FrameOK(1) /\ Top = stack[1]
      <3>1. Top = stack[1] /\ Len(stack) \in Nat /\ Len(stack) >= 1
        BY <1>3, PopIs DEF Top
      <3> QED
        BY <1>0, <1>2, <3>1 DEF Calls, FramesOK
    <2>3. ~Top.inside
      BY <2>1, <2>2 DEF FrameOK, InTransaction
    <2>4. \A x \in Top.ents : tx[Pool(x)] = "none"
      <3>1. tx[p] = "none" /\ Top.ents = tracked[cur]
        BY <1>3, <1>5, <1>10
      <3>2. \A x \in tracked[cur] : Pool(x) = p
        BY <1>0, <1>1, PlainIs DEF Typed, TypeOK
      <3> QED
        BY <3>1, <3>2
    <2> QED
      BY <1>5, <1>10, <2>3, <2>4 DEF Inside
  <1>11. CASE Refused
    <2>1. pc' = "fail" /\ torn' = torn
      BY <1>11 DEF Refused
    <2>2. Heard(p)'
      BY <1>1, <1>2, <1>4, <1>5, <2>1 DEF Heard, Running
    <2>3. Untorn'
      BY <1>1, <1>2, <2>1 DEF Untorn, Running
    <2> QED
      BY <1>9, <2>1, <2>2, <2>3 DEF Follows, Running
  <1>12. CASE Split \/ Collects
    <2>1. pc' \in {"build", "insert"}
      BY <1>1, <1>12 DEF Split, Collects
    <2>2. torn' = torn
      <3>1. \A X \in SUBSET Entities : PoolsOf(X) \subseteq {p}
        BY <1>0, PlainIs
      <3>2. Referred \subseteq Entities /\ Top.ents \subseteq Entities
        BY <1>0, BuildIs
      <3>3. CASE Split
        <4>1. tx'[p] # "none"
          BY <1>1, <1>10, <3>3 DEF Split
        <4> QED
          BY <3>1, <3>2, <3>3, <4>1 DEF Split
      <3>4. CASE Collects
        <4>1. inTx' => tx'[p] # "none"
          BY <1>10, <3>4 DEF Collects
        <4> QED
          BY <3>1, <3>2, <3>4, <4>1 DEF Collects
      <3> QED
        BY <1>12, <3>3, <3>4
    <2>3. Untorn'
      BY <1>1, <1>2, <2>1, <2>2 DEF Untorn, Running
    <2>4. Heard(p)'
      BY <1>1, <1>2, <1>4, <1>5, <2>1 DEF Heard, Running
    <2>5. tx'[p] # "broken" => /\ Ours' = open[p] \cup Mine'
                               /\ afterLocal \subseteq open[p] \cup Mine' /\ open[p] \subseteq afterLocal \cup Mine'
      BY <1>2, <1>5, <1>6, <1>7 DEF Underway
    <2>6. tx'[p] = "none" => updates'[cur] \cap committed = {}
      <3>1. tx'[p] = "none" => updates'[cur] \subseteq DirtyWrites /\ Mine = {}
        BY <1>3, <1>5, <1>8
      <3>2. Mine = {} => \A w \in committed : w.n # flushes
        BY <1>4 DEF Mine
      <3> QED
        BY <1>6, <3>1, <3>2
    <2>7. Underway(p)'
      BY <1>1, <1>2, <1>4, <1>6, <1>7, <2>1, <2>5, <2>6 DEF Underway
    <2> QED
      BY <1>9, <2>3, <2>4, <2>7 DEF Follows
  <1> QED
    BY <1>1, <1>11, <1>12

LEMMA FollowsCaches ==
  ASSUME Known, NEW p \in Pools, Plain(p), Follows(p), Rooted, setup' = setup, Caches
  PROVE  Follows(p)'
  <1>0. Typed /\ Calls /\ PoolsApart /\ Numbered /\ Statements
    BY DEF Known, Transactions, Backed, Whole
  <1>1. /\ pc = "caches" /\ cur \in Flushers /\ stack # << >> /\ Len(stack) \in Nat /\ Len(stack) >= 1 /\ Top = stack[1]
        /\ (\A g \in Flushers \ {cur} : rf'[g] = rf[g])
        /\ shown' = shown \cup (IF Top.root /\ ~inTx THEN localSets[cur] ELSE {})
        /\ afterLocal' = afterLocal \cup (IF Top.root /\ inTx THEN localSets[cur] ELSE {})
        /\ (~inTx => /\ rf' = rf /\ afterRedis' = afterRedis
                     /\ published' = published \cup (IF Top.root THEN Holds(rf[cur]) ELSE {})
                     /\ \A o \in Objects : queue'[o] = IF Top.root /\ o = rf[cur] THEN {} ELSE queue[o])
        /\ (inTx => UpdateRedisCache)
        /\ (stack' = << >> <=> Len(stack) = 1)
        /\ pc' = (IF stack' = << >> THEN "commit" ELSE "build")
        /\ UNCHANGED <<built, tx, open, committed, updates, localSets, cur, flushes, torn>>
    BY <1>0, CachesIs
  <1>2. pc \in Running /\ Dropped /\ Untorn /\ Heard(p) /\ Underway(p)
    BY <1>1 DEF Follows, Running
  <1>3. /\ PoolsOf(tracked[cur]) = {p} /\ updates[cur] \subseteq Mine
        /\ tx[p] # "none" => Mine \cap committed = {} /\ Mine \subseteq updates[cur] \cup open[p]
        /\ tx[p] = "none" => Lone /\ Len(stack) = 1 /\ Top.depth = 0 /\ Top.ents = tracked[cur]
    BY <1>1, <1>2, PlainCovered DEF Underway, Outermost
  <1>4. Len(stack) = 1 => Top.root
    BY <1>1, <1>2 DEF Rooted
  <1>5. /\ rf \in [Flushers -> Objects \cup {None}] /\ afterRedis \in Objects \cup {None}
        /\ tx \in [Pools -> {"none", "open", "broken"}] /\ None \notin Objects /\ flushes \in Nat
    BY <1>0, ObjectsAssumption, SetupIs DEF Typed, TypeOK
  <1>6. Mine' = Mine /\ Dropped' /\ Untorn'
    BY <1>1, <1>2 DEF Mine, Dropped, Untorn
  \* What a root call has built is executed by now.
  <1>7. Top.root => updates[cur] \subseteq committed \cup open[p]
    <2> SUFFICES ASSUME Top.root, NEW w \in updates[cur] PROVE w \in committed \cup open[p]
      OBVIOUS
    <2>1. Done(w)
      BY <1>0, <1>1 DEF Statements
    <2>2. w.n = flushes
      BY <1>3 DEF Mine
    <2>3. w \notin kept.sets
      <3>1. w \in kept.sets => w.n < flushes
        BY <1>0, <1>2 DEF Numbered
      <3> QED
        BY <1>5, <2>2, <3>1
    <2> QED
      BY <1>0, <2>1, <2>3, PlainOpen DEF Done
  \* Without a transaction there is one statement, and the caches are told now.
  <1>8. CASE tx[p] = "none"
    <2>1. Top.root /\ ~inTx /\ pc' = "commit" /\ afterRedis = None /\ open[p] = {}
      BY <1>0, <1>1, <1>2, <1>3, <1>4, <1>8 DEF Lone, Heard, PoolsApart
    <2>2. Mine \subseteq committed
      <3>1. Part(flushes, p) = Mine
        BY <1>0, MineIs
      <3>2. Mine \subseteq updates[cur] \/ Mine \subseteq committed
        BY <1>3, <1>8, <3>1 DEF Lone, OneUpdate, OneDone, OneToCome
      <3> QED
        BY <1>7, <2>1, <3>2
    <2>3. Holds(rf[cur]) = Mine
      BY <1>2, <1>8, <2>1 DEF Underway, Ours, Holds
    <2>4. published' = committed /\ shown' = committed
      BY <1>1, <1>2, <1>8, <2>1, <2>2, <2>3 DEF Heard, Underway
    <2>5. afterRedis' = None /\ afterLocal' = {} /\ Holds(afterRedis)' = {}
      BY <1>1, <1>2, <1>8, <2>1 DEF Heard, Holds
    <2>6. Heard(p)'
      BY <1>1, <1>2, <1>8, <2>1, <2>4, <2>5 DEF Heard
    <2> QED
      BY <1>6, <2>1, <2>6 DEF Follows, Running
  \* A call that leaves the rest to others.
  <1>9. CASE tx[p] # "none" /\ ~inTx
    <2>1. TopOK
      BY <1>0, <1>1 DEF Calls, Running
    <2>2. ~Top.root
      <3>1. CASE Top.depth = 0 /\ \A q \in PoolsOf(Top.ents) : tx[q] = "none"
        <4>1. FrameOK(1)
          BY <1>0, <1>1, <1>2 DEF Calls, FramesOK
        <4>2. Top.ents = tracked[cur]
          BY <1>1, <3>1, <4>1 DEF FrameOK
        <4> QED
          BY <1>3, <1>9, <3>1, <4>2
      <3>2. CASE ~Top.root
        BY <3>2
      <3> QED
        BY <1>9, <2>1, <3>1, <3>2 DEF TopOK
    <2>3. pc' = "build"
      BY <1>1, <1>4, <2>2
    <2>4. /\ UNCHANGED <<rf, afterRedis, afterLocal, published, shown>>
          /\ \A o \in Objects : queue'[o] = queue[o]
      BY <1>1, <1>9, <2>2
    <2>5. Ours' = Ours
      BY <1>1, <1>5, <2>4 DEF Ours, Holds
    <2>6. Heard(p)'
      BY <1>1, <1>2, <1>9, <2>3, <2>4 DEF Heard
    <2>7. Underway(p)'
      BY <1>1, <1>2, <1>6, <1>9, <2>3, <2>4, <2>5 DEF Underway
    <2> QED
      BY <1>6, <2>6, <2>7 DEF Follows
  \* Inside one the engine gets the queue.
  <1>10. CASE tx[p] # "none" /\ inTx
    <2>1. /\ rf'[cur] \in Objects /\ afterRedis' = rf'[cur]
          /\ (rf[cur] # None => rf'[cur] = rf[cur])
          /\ (rf[cur] = None => IF afterRedis # None THEN rf'[cur] = afterRedis
                                ELSE \A g \in Flushers : rf[g] # rf'[cur])
          /\ queue'[rf'[cur]] = (IF rf[cur] = None /\ afterRedis = None THEN {} ELSE queue[rf'[cur]])
          /\ published' = published
      BY <1>0, <1>1, <1>10, HandedOver
    <2>2. Ours' = Ours /\ Holds(afterRedis)' = Ours
      <3>1. Ours' = queue'[rf'[cur]] /\ Holds(afterRedis)' = queue'[rf'[cur]]
        BY <1>1, <1>5, <2>1 DEF Ours, Holds
      <3>2. queue'[rf'[cur]] = Ours
        BY <1>5, <2>1 DEF Ours, Holds
      <3> QED
        BY <3>1, <3>2
    <2>3. /\ shown' = shown
          /\ afterLocal' = afterLocal \cup (IF Top.root THEN Mine ELSE {})
      BY <1>1, <1>2, <1>10 DEF Underway
    <2>4. CASE pc' = "build"
      <3>1. Heard(p)'
        BY <1>1, <1>2, <1>10, <2>1, <2>3, <2>4 DEF Heard
      <3>2. tx[p] # "broken" => afterLocal' \subseteq open[p] \cup Mine /\ open[p] \subseteq afterLocal' \cup Mine
        BY <1>2, <2>3 DEF Underway
      <3>3. Underway(p)'
        BY <1>1, <1>2, <1>6, <1>10, <2>1, <2>2, <2>4, <3>2 DEF Underway
      <3> QED
        BY <1>6, <3>1, <3>3 DEF Follows
    <2>5. CASE pc' = "commit"
      <3>1. Top.root
        BY <1>1, <1>4, <2>5
      <3>2. Mine \subseteq open[p]
        BY <1>3, <1>7, <1>10, <3>1
      <3>3. tx[p] # "broken" => Holds(afterRedis)' = open[p] /\ afterLocal' = open[p]
        BY <1>2, <2>2, <2>3, <3>1, <3>2 DEF Underway
      <3>4. Heard(p)'
        BY <1>1, <1>2, <1>10, <2>1, <2>3, <2>5, <3>3 DEF Heard
      <3> QED
        BY <1>6, <2>5, <3>4 DEF Follows, Running
    <2> QED
      BY <1>1, <2>4, <2>5
  <1> QED
    BY <1>5, <1>8, <1>9, <1>10


\* The engine lets go of what was open.
LEMMA FollowsUndone ==
  ASSUME Known, NEW p \in Pools, Plain(p), setup' = setup, pc' = "idle",
         committed = published, shown = published, \A q \in Pools \ {p} : tx'[q] = "none",
         tx'[p] = "none", open'[p] = {}, afterRedis' = None, afterLocal' = {},
         UNCHANGED <<committed, published, shown>>, Dropped', Untorn'
  PROVE  Follows(p)'
  <1>1. Heard(p)'
    BY DEF Heard, Holds
  <1> QED
    BY <1>1 DEF Follows, Running

LEMMA FollowsPanic ==
  ASSUME Known, NEW p \in Pools, Plain(p), Follows(p), setup' = setup, FlushPanics
  PROVE  Follows(p)'
  <1>0. Typed /\ Calls
    BY DEF Known, Transactions
  <1>1. /\ pc = "fail" /\ cur \in Flushers /\ pc' = "idle" /\ cur' = None
        /\ (\A g \in Flushers \ {cur} : localSets'[g] = localSets[g] /\ rf'[g] = rf[g])
        /\ UNCHANGED <<committed, queue, published, shown, flushes>>
    BY <1>0, PanicIs
  <1>2. PICK Q \in SUBSET PoolsOf(tracked[cur]) :
          /\ (\A q \in PoolsOf(tracked[cur]) : tx[q] # "broken") => Q = PoolsOf(tracked[cur])
          /\ \A q \in Pools : /\ tx'[q] = (IF q \in Q THEN "none" ELSE tx[q])
                              /\ open'[q] = IF q \in Q THEN {} ELSE open[q]
          /\ IF Q = {} THEN UNCHANGED <<afterRedis, afterLocal>> ELSE afterRedis' = None /\ afterLocal' = {}
    BY <1>0, PanicIs
  <1>3. PoolsOf(tracked[cur]) = {p}
    <2>1. tracked[cur] \in SUBSET Entities /\ tracked[cur] # {}
      BY <1>0, <1>1 DEF Calls, Typed, TypeOK
    <2> QED
      BY <1>0, <2>1, PlainIs
  <1>4. Dropped /\ Untorn /\ Heard(p)
    BY DEF Follows
  <1>5. OneShot
    BY DEF Plain
  <1>6. Fresh(cur)
    BY <1>5 DEF FlushPanics
  <1>7. rf'[cur] = None /\ localSets'[cur] = {} /\ updates'[cur] = {}
    BY <1>0, <1>1, <1>6 DEF Fresh, Typed, TypeOK
  <1>8. Dropped'
    BY <1>1, <1>4, <1>7 DEF Dropped
  <1>9. torn' \subseteq torn \cup {flushes}
    BY <1>7 DEF FlushPanics
  <1>10. Untorn'
    <2>1. flushes \in Nat
      BY <1>0, SetupIs DEF Typed, TypeOK
    <2> QED
      BY <1>1, <1>4, <1>9, <2>1 DEF Untorn, Running
  <1>11. committed = published /\ shown = published
    BY <1>1, <1>4 DEF Heard, Running
  <1>12. CASE p \in Q
    <2>1. /\ tx'[p] = "none" /\ open'[p] = {} /\ afterRedis' = None /\ afterLocal' = {}
          /\ \A q \in Pools \ {p} : tx'[q] = "none"
      BY <1>2, <1>4, <1>12 DEF Heard
    <2> QED
      BY <1>1, <1>8, <1>10, <1>11, <2>1, FollowsUndone
  <1>13. CASE p \notin Q
    <2>1. Q = {} /\ tx[p] = "broken"
      BY <1>2, <1>3, <1>13
    <2>2. tx' [p] = "broken" /\ \A q \in Pools \ {p} : tx'[q] = "none"
      BY <1>2, <1>4, <2>1 DEF Heard
    <2>3. Heard(p)'
      BY <1>1, <1>11, <2>2 DEF Heard
    <2> QED
      BY <1>1, <1>8, <1>10, <2>3 DEF Follows, Running
  <1> QED
    BY <1>12, <1>13

LEMMA FollowsNext ==
  ASSUME Known, NEW p \in Pools, Plain(p), Exact(p), [Next]_vars
  PROVE  Exact(p)'
  <1> USE DEF entityVars, poolVars, flusherVars, engineVars, callVars, countVars, whyVars
  <1>0. setup' = setup /\ Plain(p)' /\ Typed /\ Calls /\ Follows(p) /\ Rooted
    BY PlainStep DEF Known, Transactions, Exact
  <1>1. Rooted'
    BY <1>0, RootedNext
  <1> SUFFICES Follows(p)'
    BY <1>1 DEF Exact
  <1>2. /\ tx \in [Pools -> {"none", "open", "broken"}] /\ open \in [Pools -> SUBSET Writes]
        /\ rf \in [Flushers -> Objects \cup {None}] /\ localSets \in [Flushers -> SUBSET Writes]
    BY <1>0 DEF Typed, TypeOK
  <1>3. Dropped /\ Untorn /\ Heard(p)
    BY <1>0 DEF Follows
  <1>4. ASSUME NEW x \in Entities, Change(x) PROVE Follows(p)'
    BY <1>0, <1>4, FollowsStays DEF Change, Running
  <1>5. ASSUME NEW f \in Flushers, NewFlusher(f) PROVE Follows(p)'
    <2>1. /\ pc = "idle" /\ pc' = "idle"
          /\ UNCHANGED <<tx, open, committed, queue, afterRedis, afterLocal, published, shown, cur, flushes, torn>>
      BY <1>5 DEF NewFlusher
    <2>2. \A g \in Flushers : rf[g] = None /\ localSets[g] = {}
      BY <1>0, <1>3, <2>1, IdleIs
    <2>3. rf' = [rf EXCEPT ![f] = None] /\ localSets' = [localSets EXCEPT ![f] = {}]
      BY <1>5 DEF NewFlusher, Fresh
    <2>4. Dropped'
      BY <1>2, <2>2, <2>3 DEF Dropped
    <2>5. Untorn' /\ Heard(p)'
      BY <1>3, <2>1 DEF Untorn, Heard, Running, Holds
    <2> QED
      BY <2>1, <2>4, <2>5 DEF Follows, Running
  <1>6. ASSUME NEW f \in Flushers, NEW X \in SUBSET Entities, Flush(f, X) PROVE Follows(p)'
    BY <1>0, <1>6, FollowsFlush
  <1>7. CASE Begin(p)
    <2>1. /\ pc = "idle" /\ pc' = "idle" /\ tx[p] = "none" /\ Begun({p})
          /\ UNCHANGED <<open, committed, rf, localSets, queue, afterRedis, afterLocal, published, shown, cur, flushes, torn>>
      BY <1>7 DEF Begin
    <2>2. tx'[p] = "open" /\ \A q \in Pools \ {p} : tx'[q] = tx[q]
      BY <2>1 DEF Begun
    <2>3. Heard(p)'
      BY <1>3, <2>1, <2>2 DEF Heard, Running, Holds
    <2>4. Dropped' /\ Untorn'
      BY <1>3, <2>1 DEF Dropped, Untorn
    <2> QED
      BY <2>1, <2>3, <2>4 DEF Follows, Running
  <1>8. CASE Commit(p)
    BY <1>0, <1>8, FollowsCommitted DEF Commit
  <1>9. CASE Rollback(p)
    <2>1. /\ pc = "idle" /\ pc' = "idle" /\ Undone({p}) /\ LetGo
          /\ UNCHANGED <<committed, rf, localSets, published, shown, cur, flushes, torn>>
      BY <1>9 DEF Rollback, LetGo
    <2>2. /\ tx'[p] = "none" /\ open'[p] = {} /\ afterRedis' = None /\ afterLocal' = {}
          /\ \A q \in Pools \ {p} : tx'[q] = tx[q]
      BY <2>1 DEF Undone, LetGo
    <2>3. committed = published /\ shown = published /\ \A q \in Pools \ {p} : tx'[q] = "none"
      BY <1>3, <2>1, <2>2 DEF Heard, Running
    <2>4. Dropped' /\ Untorn'
      BY <1>3, <2>1 DEF Dropped, Untorn
    <2> QED
      BY <1>0, <2>1, <2>2, <2>3, <2>4, FollowsUndone
  <1>10. CASE CommitFails(p)
    BY <1>0, <1>10, FollowsBroken DEF CommitFails, Running
  <1>11. CASE FlushCommit(p)
    <2>1. pc = "commit" /\ UNCHANGED <<entityVars, flusherVars, cur, flushes, torn>>
      BY <1>11 DEF FlushCommit
    <2>2. CASE tx[p] = "open" /\ Committed(p) /\ UNCHANGED <<pc, faults>>
      BY <1>0, <2>1, <2>2, FollowsCommitted
    <2>3. CASE tx[p] = "open" /\ CommitError(p) /\ pc' = "fail" /\ UNCHANGED <<committed, engineVars>>
      BY <1>0, <2>1, <2>3, FollowsBroken DEF Running
    <2>4. CASE tx[p] # "open" /\ pc' = "fail" /\ UNCHANGED <<poolVars, engineVars, faults, kept>>
      BY <1>0, <2>1, <2>4, FollowsStays DEF Running
    <2> QED
      BY <1>11, <2>2, <2>3, <2>4 DEF FlushCommit
  <1>12. CASE (\E t \in Types : Insert(t) \/ Delete(t)) \/ Update(p)
    BY <1>0, <1>12, FollowsStatement
  <1>13. CASE Moves
    <2>1. PoolsOf(EntitiesOf({})) = {}
      BY DEF PoolsOf, EntitiesOf
    <2>2. CASE Inserted
      BY <1>0, <2>1, <2>2, FollowsStays DEF Inserted, Running
    <2>3. CASE Updated \/ Deleted
      BY <1>0, <2>3, FollowsStays DEF Updated, Deleted, Running
    <2> QED
      BY <1>13, <2>2, <2>3 DEF Moves
  <1>14. CASE Build
    BY <1>0, <1>14, FollowsBuild
  <1>15. CASE Caches
    BY <1>0, <1>15, FollowsCaches
  <1>16. CASE Return
    <2>1. /\ pc = "commit" /\ pc' = "idle" /\ cur' = None /\ cur \in Flushers
          /\ UNCHANGED <<tx, open, committed, queue, afterRedis, afterLocal, published, shown, flushes, torn>>
      BY <1>0, <1>16 DEF Return, Typed, TypeOK
    <2>2. Fresh(cur)
      BY <1>16 DEF Return, Plain
    <2>3. Dropped'
      BY <1>2, <1>3, <2>1, <2>2 DEF Dropped, Fresh
    <2>4. Untorn' /\ Heard(p)'
      BY <1>3, <2>1 DEF Untorn, Heard, Running, Holds
    <2> QED
      BY <2>1, <2>3, <2>4 DEF Follows, Running
  <1>17. CASE FlushPanics
    BY <1>0, <1>17, FollowsPanic
  <1>18. CASE Overflow
    <2>1. /\ pc = "build" /\ pc' = "idle" /\ cur' = None
          /\ tx' = [q \in Pools |-> "none"] /\ open' = [q \in Pools |-> {}]
          /\ tracked' = [f \in Flushers |-> {}] /\ localSets' = tracked' /\ rf' = [f \in Flushers |-> None]
          /\ afterRedis' = None /\ afterLocal' = {}
          /\ UNCHANGED <<committed, published, shown, flushes, torn>>
      BY <1>0, <1>18, OverflowIs
    <2>2. committed = published /\ shown = published
      <3>1. tx[p] = "none" => Mine = {}
        BY <1>3, <2>1, PlainCovered DEF Running
      <3> QED
        BY <1>0, <1>3, <2>1, <3>1 DEF Follows, Heard, Underway, Running
    <2>3. Dropped' /\ Untorn'
      BY <1>3, <2>1 DEF Dropped, Untorn, Running
    <2>4. \A q \in Pools : tx'[q] = "none" /\ open'[q] = {}
      BY <2>1
    <2> QED
      BY <1>0, <2>1, <2>2, <2>3, <2>4, FollowsUndone
  <1>19. CASE UNCHANGED vars
    BY <1>0, <1>19, FollowsStays DEF vars, Follows, Underway, Running
  <1>20. \/ \E x \in Entities : Change(x)
         \/ \E f \in Flushers : NewFlusher(f) \/ \E X \in SUBSET Entities : Flush(f, X)
         \/ Begin(p) \/ Commit(p) \/ Rollback(p) \/ CommitFails(p) \/ FlushCommit(p)
         \/ (\E t \in Types : Insert(t) \/ Delete(t)) \/ Update(p)
         \/ Moves \/ Build \/ Caches \/ Return \/ FlushPanics \/ Overflow
         \/ UNCHANGED vars
    BY <1>0, PlainStep
  <1> QED
    BY <1>4, <1>5, <1>6, <1>7, <1>8, <1>9, <1>10, <1>11, <1>12, <1>13, <1>14, <1>15, <1>16, <1>17, <1>18, <1>19, <1>20

LEMMA ExactInit == ASSUME Init, NEW p \in Pools PROVE Exact(p)
  BY DEF Init, Exact, Follows, Dropped, Untorn, Heard, Holds, Rooted, Running

\* With flushers that are used once, one pool and no upserts, Redis and the local cache
\* hear of exactly what was committed: of no write that was rolled back, however the
\* flush failed, and of every other (flushTrackedEntities, updateLocalCache,
\* updateRedisCache, DB.Commit, DB.Rollback).
THEOREM CachesHearExactly == Spec => []ExactlyCommitted
  <1> DEFINE Inv == \A p \in Pools : Plain(p) => Exact(p)
  <1>1. Init => Inv
    BY ExactInit
  <1>2. Known /\ Inv /\ [Next]_vars => Inv'
    <2> SUFFICES ASSUME Known, Inv, [Next]_vars, NEW p \in Pools, Plain(p)' PROVE Exact(p)'
      OBVIOUS
    <2>1. Plain(p)
      <3>1. setup' = setup
        BY StepIs DEF Known, Transactions
      <3> QED
        BY <3>1 DEF Plain, OneShot, Upserts, UsedPools, PoolOf
    <2> QED
      BY <2>1, FollowsNext
  <1>3. Inv => ExactlyCommitted
    <2> SUFFICES ASSUME Inv, OneShot, Upserts = {}, NEW p \in Pools, UsedPools = {p}, AtRest
                 PROVE  published = committed /\ shown = committed
      BY DEF ExactlyCommitted
    <2>1. Heard(p) /\ pc = "idle"
      BY DEF Exact, Follows, Plain, AtRest
    <2> QED
      BY <2>1 DEF Heard, Running
  <1> HIDE DEF Inv
  <1> QED
    BY <1>1, <1>2, <1>3, WholeAlways, PTL DEF Spec, Known

=============================================================================
