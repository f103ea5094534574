--------------------------- MODULE LazyFlushProofs ---------------------------
(* Theorems about LazyFlush: what is acknowledged, what is acknowledged     *)
(* while its keys are still to be cleared, and the order in which the       *)
(* statements of a row take effect.                                         *)
EXTENDS LazyFlush, FiniteSetTheorems, WellFoundedInduction, TLAPS

-----------------------------------------------------------------------------
(* The inductive invariant.                                                *)

Done(n, r) == <<n, r>> \in executed \cup givenUp

\* TypeOK without the values of rows, on which the outcome of a transaction depends.
Types ==
    LET Numbers == 1 .. Len(events) IN
    /\ events \in Seq(Flushes) /\ acked \subseteq Numbers
    /\ phase \in {"idle", "inserts", "groups"} /\ batch \subseteq Numbers
    /\ left \in [Pools -> SUBSET Numbers]
    /\ at \in [Pools -> {"query", "clear", "ack"}]
    /\ ran \in [Pools -> SUBSET Rows]
    /\ run \in [Groups -> {"done", "query", "ack", "clear"}]
    /\ todo \in [Groups -> SUBSET Numbers]
    /\ lazyError \in BOOLEAN /\ faults \in Nat /\ poisoned \in BOOLEAN

\* An insert goroutine works on insert events of the batch, and what it has run of the
\* first of them is done.
InsertGoroutine(p) ==
    /\ left[p] # {} => phase = "inserts"
    /\ \A n \in left[p] : n \in batch /\ IsInsert(n)
    /\ left[p] = {} => at[p] = "query" /\ ran[p] = {}
    /\ \A n \in Least(left[p]) :
          /\ \A r \in ran[p] : Done(n, r)
          /\ at[p] # "query" => RowsOf(n) \subseteq ran[p]

InsertGoroutines == \A p \in Pools : InsertGoroutine(p)

\* An insert event of the batch is still with its goroutine, or done.
InsertsRun ==
    \A n \in batch : IsInsert(n) => \/ \E p \in Pools : n \in left[p]
                                    \/ \A r \in RowsOf(n) : Done(n, r)

\* The values a row may have, and what the histories are about.
ValueSet == {NoRow} \cup 0 .. Len(events)

Values ==
    LET Written == (1 .. Len(events)) \X Rows IN
    /\ db \in [Rows -> ValueSet] /\ want \in [Rows -> ValueSet]
    /\ redis \in [Rows -> {Miss} \cup ValueSet]
    /\ executed \subseteq Written /\ givenUp \subseteq Written
    /\ uncleared \subseteq Rows /\ reborn \in BOOLEAN

\* What the loads under way hold.
LoadsOK ==
    /\ loads \subseteq [row : Rows, value : ValueSet, passed : BOOLEAN]
    /\ overtaken \subseteq Rows

\* A group works on its rows of the other events, and past its transaction they are
\* done.
GroupGoroutine(g) ==
    /\ todo[g] # {} => phase = "groups"
    /\ run[g] = "done" <=> todo[g] = {}
    /\ \A n \in todo[g] : n \in batch /\ ~IsInsert(n) /\ RowsIn(n, g) # {}
    /\ run[g] # "query" => \A n \in todo[g] : \A r \in RowsIn(n, g) : Done(n, r)

GroupGoroutines ==
    /\ \A g \in Groups : GroupGoroutine(g)
    /\ lazyError => phase = "groups"
    /\ phase = "idle" => batch = {}

\* A row of the other events is with its group, or done, or its group failed.
GroupsRun ==
    phase = "groups" =>
        \A n \in batch : \A r \in RowsOf(n) :
            ~IsInsert(n) => \/ n \in todo[GroupOf(n, r)]
                            \/ Done(n, r)
                            \/ lazyError /\ Excused

LazyInv ==
    /\ Types /\ Values /\ LoadsOK /\ InsertGoroutines /\ InsertsRun /\ GroupGoroutines
    /\ GroupsRun /\ AckedIsExecuted

-----------------------------------------------------------------------------
(* Facts about events and groups.                                          *)

LEMMA GroupOfGroups == ASSUME NEW n, NEW r \in Rows PROVE GroupOf(n, r) \in Groups
  <1>1. IdOf[r] % Modulo \in 0 .. Modulo - 1 /\ 0 \in 0 .. Modulo - 1
    BY RowsAssumption, SizesAssumption
  <1> QED
    BY <1>1, RowsAssumption DEF GroupOf, Groups

LEMMA EventRows ==
  ASSUME Types, NEW n \in 1 .. Len(events)
  PROVE  /\ RowsOf(n) \subseteq Rows
         /\ \A r \in RowsOf(n) : events[n][r] \in {"I", "U", "D"}
  <1>1. events[n] \in Flushes
    BY DEF Types
  <1> QED
    BY <1>1 DEF Flushes, RowsOf

\* An event stays what it is.
LEMMA EventsStay ==
  ASSUME Types, \/ events' = events
                \/ \E changes \in Flushes : events' = Append(events, changes)
  PROVE  /\ events' \in Seq(Flushes) /\ 1 .. Len(events) \subseteq 1 .. Len(events')
         /\ \A n \in 1 .. Len(events) : events'[n] = events[n]
  <1>1. events \in Seq(Flushes)
    BY DEF Types
  <1>2. CASE events' = events
    BY <1>1, <1>2
  <1>3. ASSUME NEW changes \in Flushes, events' = Append(events, changes)
        PROVE  /\ events' \in Seq(Flushes) /\ 1 .. Len(events) \subseteq 1 .. Len(events')
               /\ \A n \in 1 .. Len(events) : events'[n] = events[n]
    BY <1>1, <1>3
  <1> QED
    BY <1>2, <1>3

LEMMA SameEvent ==
  ASSUME NEW n, events'[n] = events[n]
  PROVE  /\ RowsOf(n)' = RowsOf(n) /\ Inserted(n)' = Inserted(n) /\ Keys(n)' = Keys(n)
         /\ (IsInsert(n)' <=> IsInsert(n)) /\ (Mixed(n)' <=> Mixed(n))
         /\ \A r : GroupOf(n, r)' = GroupOf(n, r)
         /\ \A g : RowsIn(n, g)' = RowsIn(n, g)
         /\ (Spans(n)' <=> Spans(n))
  <1>1. RowsOf(n)' = RowsOf(n) /\ Inserted(n)' = Inserted(n)
    BY DEF RowsOf, Inserted
  <1>2. \A r : GroupOf(n, r)' = GroupOf(n, r)
    BY DEF GroupOf
  <1>3. IsInsert(n)' <=> IsInsert(n)
    BY <1>1 DEF IsInsert
  <1> QED
    BY <1>1, <1>2, <1>3 DEF RowsIn, Spans, Keys, Mixed

LEMMA StatementRows ==
  ASSUME NEW n, NEW T \in SUBSET RowsOf(n), NEW S \in NextStatements(n, T)
  PROVE  S \subseteq T
  BY DEF NextStatements

LEMMA RestartTypes ==
  ASSUME Restart
  PROVE  /\ phase' = "idle" /\ batch' = {} /\ lazyError' = FALSE
         /\ left' = [p \in Pools |-> {}] /\ at' = [p \in Pools |-> "query"]
         /\ ran' = [p \in Pools |-> {}]
         /\ run' = [g \in Groups |-> "done"] /\ todo' = [g \in Groups |-> {}]
  BY DEF Restart

\* Loads and evictions.
LoadStep == \/ \E r \in Rows : LoadSelects(r) \/ Evict(r)
            \/ \E l \in loads : LoadSets(l)

LEMMA LoadLeaves ==
  ASSUME LoadStep
  PROVE  UNCHANGED <<events, acked, db, phase, batch, left, at, ran, run, todo, lazyError,
                     faults, want, executed, givenUp, uncleared, poisoned, reborn>>
  BY DEF LoadStep, LoadSelects, LoadSets, Evict, streamVars, insertVars, groupVars,
         historyVars

-----------------------------------------------------------------------------
(* Every variable keeps its type.                                          *)

LEMMA TypesInit == Init => Types
  <1> SUFFICES ASSUME Init PROVE Types
    OBVIOUS
  <1>1. events \in Seq(Flushes) /\ faults \in Nat
    BY DEF Init
  <1>2. /\ left \in [Pools -> SUBSET (1 .. Len(events))]
        /\ at \in [Pools -> {"query", "clear", "ack"}]
        /\ ran \in [Pools -> SUBSET Rows]
    BY DEF Init
  <1>3. /\ run \in [Groups -> {"done", "query", "ack", "clear"}]
        /\ todo \in [Groups -> SUBSET (1 .. Len(events))]
    BY DEF Init
  <1> QED
    BY <1>1, <1>2, <1>3 DEF Init, Types

LEMMA TypesStep == Types /\ [Next]_vars => Types'
  <1> SUFFICES ASSUME Types, [Next]_vars PROVE Types'
    OBVIOUS
  <1>1. ASSUME NEW changes \in Flushes, FlushLazy(changes) PROVE Types'
    <2>1. events' = Append(events, changes)
      BY <1>1 DEF FlushLazy
    <2>2. events' \in Seq(Flushes) /\ 1 .. Len(events) \subseteq 1 .. Len(events')
      BY <2>1, EventsStay
    <2> QED
      BY <1>1, <2>2 DEF FlushLazy, insertVars, groupVars, Types
  <1>2. CASE LoadStep
    BY <1>2, LoadLeaves DEF Types
  <1>3. CASE Take
    BY <1>3 DEF Take, FirstN, streamVars, groupVars, historyVars, Types
  <1>4. CASE InsertsDone
    BY <1>4 DEF InsertsDone, streamVars, insertVars, historyVars, Types
  <1>5. CASE BatchDone
    BY <1>5, RestartTypes DEF BatchDone, historyVars, Types
  <1>6. ASSUME NEW p \in Pools, Query(p) PROVE Types'
    <2>1. PICK n \in Least(left[p]) : \E S \in NextStatements(n, RowsOf(n) \ ran[p]) :
                ran' = [ran EXCEPT ![p] = @ \cup S]
      BY <1>6 DEF Query
    <2>2. n \in 1 .. Len(events)
      BY DEF Least, Types
    <2>3. \A S \in NextStatements(n, RowsOf(n) \ ran[p]) : S \subseteq Rows
      BY <2>2, EventRows, StatementRows
    <2>4. PICK S \in SUBSET Rows : ran' = [ran EXCEPT ![p] = @ \cup S]
      BY <2>1, <2>3
    <2>5. ran' \in [Pools -> SUBSET Rows]
      BY <2>4 DEF Types
    <2> QED
      BY <1>6, <2>5 DEF Query, streamVars, groupVars, Types
  <1>7. ASSUME NEW p \in Pools, QueryPanics(p) \/ ClearPanics(p) PROVE Types'
    <2>1. Restart /\ UNCHANGED <<events, acked, faults>> /\ poisoned' = TRUE
      BY <1>7 DEF QueryPanics, ClearPanics, Die, streamVars
    <2> QED
      BY <2>1, RestartTypes DEF Types
  <1>8. ASSUME NEW p \in Pools, Clear(p) PROVE Types'
    BY <1>8 DEF Clear, streamVars, groupVars, Types
  <1>9. ASSUME NEW p \in Pools, Ack(p) PROVE Types'
    BY <1>9 DEF Ack, Least, groupVars, historyVars, Types
  <1>10. ASSUME NEW g \in Groups, Execute(g) PROVE Types'
    BY <1>10 DEF Execute, streamVars, insertVars, Types
  <1>11. ASSUME NEW g \in Groups, Refused(g) PROVE Types'
    BY <1>11, KindAssumption DEF Refused, LetGo, Panic, streamVars, insertVars, Types
  <1>12. ASSUME NEW g \in Groups, Fails(g) PROVE Types'
    <2>1. /\ run' \in [Groups -> {"done", "query", "ack", "clear"}]
          /\ todo' \in [Groups -> SUBSET (1 .. Len(events))] /\ lazyError' \in BOOLEAN
      <3>1. CASE LetGo(g)
        BY <3>1 DEF LetGo, Types
      <3>2. CASE Panic(g)
        BY <3>2 DEF Panic, Types
      <3> QED
        BY <1>12, <3>1, <3>2 DEF Fails
    <2> QED
      BY <1>12, <2>1 DEF Fails, streamVars, insertVars, Types
  <1>13. ASSUME NEW g \in Groups, GroupAck(g) PROVE Types'
    BY <1>13 DEF GroupAck, Least, insertVars, historyVars, Types
  <1>14. ASSUME NEW g \in Groups, GroupClear(g) PROVE Types'
    BY <1>14 DEF GroupClear, streamVars, insertVars, Types
  <1>15. ASSUME NEW g \in Groups, GroupClearPanics(g) PROVE Types'
    BY <1>15 DEF GroupClearPanics, Panic, streamVars, insertVars, Types
  <1>16. CASE Crash
    BY <1>16, RestartTypes DEF Crash, Die, streamVars, Types
  <1>17. CASE UNCHANGED vars
    BY <1>17 DEF vars, streamVars, insertVars, groupVars, historyVars, Types
  <1> QED
    BY <1>1, <1>2, <1>3, <1>4, <1>5, <1>6, <1>7, <1>8, <1>9, <1>10, <1>11, <1>12, <1>13,
       <1>14, <1>15, <1>16, <1>17 DEF Next, Consumer, LoadStep

-----------------------------------------------------------------------------
(* What a transaction of a group leaves: Outcome is a recursion over the   *)
(* events of the batch, so its facts are proved for a least counterexample. *)

LEMMA LeastNumber ==
  ASSUME NEW T \in SUBSET Nat, T # {}
  PROVE  \E n \in T : \A m \in T : n <= m
  <1> DEFINE R == {ss \in Nat \X Nat : ss[1] < ss[2]}
  <1>1. IsWellFoundedOn(R, Nat)
    BY NatLessThanWellFounded DEF OpToRel
  <1> HIDE DEF R
  <1>2. PICK n \in T : \A m \in T : ~(<<m, n>> \in R)
    BY <1>1, WFMin
  <1>3. \A m \in T : ~(m < n)
    BY <1>2 DEF R
  <1>4. \A m \in T : m \in Nat /\ n \in Nat
    OBVIOUS
  <1> QED
    BY <1>2, <1>3, <1>4

\* The step of Outcome's recursion.
After(g, k, before) ==
  IF k \notin todo[g] THEN before
  ELSE [db |-> Effect(k, RowsIn(k, g), before.db),
        ok |-> before.ok /\ ~Duplicate(k, RowsIn(k, g), before.db)]

LEMMA OutcomeIs ==
  ASSUME Len(events) \in Nat, NEW g
  PROVE  \E f : /\ f[0] = [db |-> db, ok |-> TRUE]
                /\ \A k \in 1 .. Len(events) : f[k] = After(g, k, f[k - 1])
                /\ Outcome(g) = f[Len(events)]
  <1> DEFINE N == Len(events)
             Next1(f, k) == IF k = 0 THEN [db |-> db, ok |-> TRUE] ELSE After(g, k, f[k - 1])
             Rec(f, m) == f = [k \in 0 .. m |-> Next1(f, k)]
             T == {m \in 0 .. N : ~\E f : Rec(f, m)}
  <1>1. T = {}
    <2> SUFFICES ASSUME T # {} PROVE FALSE
      OBVIOUS
    <2>1. T \in SUBSET Nat
      OBVIOUS
    <2> HIDE DEF T
    <2>2. PICK n \in T : \A m \in T : n <= m
      BY <2>1, LeastNumber
    <2> USE DEF T
    <2>3. n \in 0 .. N /\ ~\E f : Rec(f, n)
      OBVIOUS
    <2>4. CASE n = 0
      <3> DEFINE h == [k \in 0 .. 0 |-> [db |-> db, ok |-> TRUE]]
      <3>1. Rec(h, 0)
        OBVIOUS
      <3> HIDE DEF Rec, h
      <3> QED
        BY <2>3, <2>4, <3>1
    <2>5. CASE n # 0
      <3>1. n - 1 \in 0 .. N /\ n - 1 \notin T
        BY <2>2, <2>3, <2>5
      <3>2. PICK f : Rec(f, n - 1)
        BY <3>1
      <3> DEFINE h == [k \in 0 .. n |-> IF k = n THEN Next1(f, n) ELSE f[k]]
      <3>3. ASSUME NEW k \in 0 .. n PROVE h[k] = Next1(h, k)
        <4>1. CASE k = n
          <5>1. h[n - 1] = f[n - 1]
            BY <2>3, <2>5
          <5>2. h[n] = Next1(f, n)
            BY <2>3
          <5> QED
            BY <2>5, <4>1, <5>1, <5>2
        <4>2. CASE k # n
          <5>1. k \in 0 .. n - 1 /\ h[k] = f[k]
            BY <2>3, <4>2
          <5>2. f[k] = Next1(f, k)
            BY <3>2, <5>1
          <5>3. k # 0 => k - 1 \in 0 .. n /\ k - 1 # n
            BY <2>3, <5>1
          <5>4. k # 0 => h[k - 1] = f[k - 1]
            BY <5>3
          <5> QED
            BY <5>1, <5>2, <5>4
        <4> QED
          BY <4>1, <4>2
      <3>4. h \in [0 .. n -> {h[k] : k \in 0 .. n}] /\ DOMAIN h = 0 .. n
        OBVIOUS
      <3>5. h = [k \in 0 .. n |-> h[k]]
        OBVIOUS
      <3> HIDE DEF h
      <3>6. Rec(h, n)
        BY <3>3, <3>5
      <3> QED
        BY <2>3, <3>6
    <2> QED
      BY <2>4, <2>5
  <1> DEFINE upTo == CHOOSE f : Rec(f, N)
  <1>2. Rec(upTo, N)
    <2>1. N \in 0 .. N /\ N \notin T
      BY <1>1
    <2>2. \E f : Rec(f, N)
      BY <2>1
    <2> HIDE DEF Rec
    <2> QED
      BY <2>2
  <1>3. Outcome(g) = upTo[N]
    BY DEF Outcome, After
  <1> HIDE DEF upTo
  <1>4. upTo[0] = [db |-> db, ok |-> TRUE] /\ \A k \in 1 .. N : upTo[k] = After(g, k, upTo[k - 1])
    <2>1. \A k \in 0 .. N : upTo[k] = Next1(upTo, k)
      BY <1>2
    <2>2. 0 \in 0 .. N /\ \A k \in 1 .. N : k \in 0 .. N /\ k # 0
      OBVIOUS
    <2> QED
      BY <2>1, <2>2
  <1> QED
    BY <1>3, <1>4
\* What the last event on a row leaves there; an update of no row leaves none.
Leaves(n, r, v) ==
  /\ events[n][r] = "I" => v = n
  /\ events[n][r] = "D" => v = NoRow
  /\ events[n][r] = "U" => v \in {NoRow, n}

\* The events of group g up to k with a statement on row r.
Touching(g, k, r) == {m \in todo[g] : m <= k /\ r \in RowsIn(m, g)}

LEMMA EffectIs ==
  ASSUME NEW n \in 1 .. Len(events), Len(events) \in Nat, NEW S, NEW d \in [Rows -> ValueSet],
         \A r \in S : events[n][r] \in {"I", "U", "D"}
  PROVE  /\ Effect(n, S, d) \in [Rows -> ValueSet]
         /\ \A r \in Rows \ S : Effect(n, S, d)[r] = d[r]
         /\ \A r \in Rows \cap S :
               /\ Leaves(n, r, Effect(n, S, d)[r])
               /\ d[r] # NoRow /\ events[n][r] # "D" => Effect(n, S, d)[r] # NoRow
  <1> DEFINE e == Effect(n, S, d)
  <1>1. \A r \in Rows \ S : e[r] = d[r]
    BY DEF Effect
  <1>2. n \in ValueSet /\ n # NoRow /\ NoRow \in ValueSet
    BY DEF ValueSet, NoRow
  <1>3. ASSUME NEW r \in Rows \cap S
        PROVE  /\ e[r] \in ValueSet /\ Leaves(n, r, e[r])
               /\ d[r] # NoRow /\ events[n][r] # "D" => e[r] # NoRow
    <2>1. CASE events[n][r] = "I"
      <3>1. e[r] = n
        BY <2>1 DEF Effect
      <3> QED
        BY <2>1, <3>1, <1>2 DEF Leaves
    <2>2. CASE events[n][r] = "U"
      <3>1. e[r] = IF d[r] = NoRow THEN NoRow ELSE n
        BY <2>2 DEF Effect
      <3> QED
        BY <2>2, <3>1, <1>2 DEF Leaves
    <2>3. CASE events[n][r] = "D"
      <3>1. e[r] = NoRow
        BY <2>3 DEF Effect
      <3> QED
        BY <2>3, <3>1, <1>2 DEF Leaves
    <2> QED
      BY <2>1, <2>2, <2>3
  <1>4. \A r \in Rows : e[r] \in ValueSet
    BY <1>1, <1>3
  <1>5. e = [r \in Rows |-> e[r]]
    BY DEF Effect
  <1> HIDE DEF e
  <1>6. e \in [Rows -> ValueSet]
    BY <1>4, <1>5
  <1> QED
    BY <1>1, <1>3, <1>6 DEF e

\* What holds of the database b and of the absence of duplicates after the first k events.
Follows(g, k, b, ok) ==
  /\ b \in [Rows -> ValueSet] /\ ok \in BOOLEAN
  /\ ~ok => \E n \in todo[g] : Inserted(n) # {}
  /\ \A r \in Rows : Touching(g, k, r) = {} => b[r] = db[r]
  /\ \A r \in Rows : \A n \in Touching(g, k, r) :
        (\A m \in Touching(g, k, r) : m <= n) => Leaves(n, r, b[r])
  /\ \A r \in Rows :
        db[r] # NoRow /\ (\A n \in Touching(g, k, r) : events[n][r] # "D") => b[r] # NoRow
  /\ ok /\ Ids # "auto" =>
        \A r \in Rows : \A n \in Touching(g, k, r) :
           r \in Inserted(n) /\ (\A m \in Touching(g, k, r) : n <= m) => db[r] = NoRow

LEMMA FollowsStep ==
  ASSUME NEW g, NEW k \in 1 .. Len(events), Len(events) \in Nat,
         todo[g] \subseteq 1 .. Len(events), db \in [Rows -> ValueSet],
         \A r \in RowsOf(k) : r \in Rows /\ events[k][r] \in {"I", "U", "D"},
         NEW b, NEW ok, Follows(g, k - 1, b, ok), k \in todo[g]
  PROVE  Follows(g, k, Effect(k, RowsIn(k, g), b), ok /\ ~Duplicate(k, RowsIn(k, g), b))
  <1> DEFINE S == RowsIn(k, g)
             e == Effect(k, S, b)
             dup == Duplicate(k, S, b)
  <1>1. /\ b \in [Rows -> ValueSet] /\ ok \in BOOLEAN
    BY DEF Follows
  <1>2. S \subseteq RowsOf(k)
    BY DEF RowsIn
  <1> HIDE DEF S
  <1>3. /\ e \in [Rows -> ValueSet]
        /\ \A r \in Rows \ S : e[r] = b[r]
        /\ \A r \in Rows \cap S :
               /\ Leaves(k, r, e[r])
               /\ b[r] # NoRow /\ events[k][r] # "D" => e[r] # NoRow
    BY <1>1, <1>2, EffectIs
  <1>4. \A m \in todo[g] : m <= k <=> m <= k - 1 \/ m = k
    OBVIOUS
  <1>5. \A r \in Rows \ S : Touching(g, k, r) = Touching(g, k - 1, r)
    BY <1>4 DEF Touching, S
  <1>6. \A r \in S : Touching(g, k, r) = Touching(g, k - 1, r) \cup {k}
    BY <1>4 DEF Touching, S
  <1>7. \A r : \A m \in Touching(g, k - 1, r) : m \in Nat /\ m < k
    BY DEF Touching
  <1>8. dup \in BOOLEAN /\ (dup => Inserted(k) # {})
    BY DEF Duplicate
  <1>9. \A r \in S : ~dup /\ r \in Inserted(k) /\ Ids # "auto" => b[r] = NoRow
    BY DEF Duplicate
  <1> HIDE DEF e, dup
  <1>10. /\ (ok /\ ~dup) \in BOOLEAN
         /\ ~(ok /\ ~dup) => \E n \in todo[g] : Inserted(n) # {}
    BY <1>8 DEF Follows
  <1>11. \A r \in Rows : Touching(g, k, r) = {} => e[r] = db[r]
    BY <1>3, <1>5, <1>6 DEF Follows
  <1>12. ASSUME NEW r \in Rows, NEW n \in Touching(g, k, r), \A m \in Touching(g, k, r) : m <= n
         PROVE  Leaves(n, r, e[r])
    <2>1. CASE r \in S
      <3>1. Touching(g, k, r) = Touching(g, k - 1, r) \cup {k}
        BY <1>6, <2>1
      <3>2. k <= n
        BY <1>12, <3>1
      <3>3. n = k \/ n \in Touching(g, k - 1, r)
        BY <3>1
      <3>4. n = k
        BY <1>7, <3>2, <3>3
      <3> QED
        BY <1>3, <2>1, <3>4
    <2>2. CASE r \notin S
      BY <1>3, <1>5, <1>12, <2>2 DEF Follows
    <2> QED
      BY <2>1, <2>2
  <1>13. ASSUME NEW r \in Rows, db[r] # NoRow, \A n \in Touching(g, k, r) : events[n][r] # "D"
         PROVE  e[r] # NoRow
    <2>1. \A n \in Touching(g, k - 1, r) : events[n][r] # "D"
      BY <1>5, <1>6, <1>13
    <2>2. b[r] # NoRow
      BY <2>1, <1>13 DEF Follows
    <2>3. CASE r \in S
      BY <1>3, <1>6, <1>13, <2>2, <2>3
    <2>4. CASE r \notin S
      BY <1>3, <2>2, <2>4
    <2> QED
      BY <2>3, <2>4
  <1>14. ASSUME ok, ~dup, Ids # "auto", NEW r \in Rows, NEW n \in Touching(g, k, r),
                r \in Inserted(n), \A m \in Touching(g, k, r) : n <= m
         PROVE  db[r] = NoRow
    <2>1. CASE n \in Touching(g, k - 1, r)
      <3>1. \A m \in Touching(g, k - 1, r) : n <= m
        BY <1>5, <1>6, <1>14
      <3> QED
        BY <1>14, <2>1, <3>1 DEF Follows
    <2>2. CASE n \notin Touching(g, k - 1, r)
      <3>1. r \in S /\ n = k
        BY <1>5, <1>6, <2>2
      <3>2. Touching(g, k - 1, r) = {}
        <4>1. \A m \in Touching(g, k - 1, r) : k <= m
          BY <1>6, <1>14, <3>1
        <4> QED
          BY <1>7, <4>1
      <3>3. b[r] = db[r]
        BY <3>2 DEF Follows
      <3> QED
        BY <1>9, <1>14, <3>1, <3>3
    <2> QED
      BY <2>1, <2>2
  <1>15. Follows(g, k, e, ok /\ ~dup)
    BY <1>3, <1>10, <1>11, <1>12, <1>13, <1>14 DEF Follows
  <1> QED
    BY <1>15 DEF e, dup, S

LEMMA OutcomeFollows ==
  ASSUME NEW g, Len(events) \in Nat,
         todo[g] \subseteq 1 .. Len(events), db \in [Rows -> ValueSet],
         \A n \in 1 .. Len(events) : \A r \in RowsOf(n) : r \in Rows /\ events[n][r] \in {"I", "U", "D"}
  PROVE  Follows(g, Len(events), Outcome(g).db, Outcome(g).ok)
  <1> DEFINE N == Len(events)
  <1>1. PICK f : /\ f[0] = [db |-> db, ok |-> TRUE]
                 /\ \A k \in 1 .. N : f[k] = After(g, k, f[k - 1])
                 /\ Outcome(g) = f[N]
    BY OutcomeIs
  <1> DEFINE Good(k) == Follows(g, k, f[k].db, f[k].ok)
             T == {k \in 0 .. N : ~Good(k)}
  <1>2. Good(0)
    <2>1. \A r : Touching(g, 0, r) = {}
      BY DEF Touching
    <2>2. f[0].db = db /\ f[0].ok = TRUE
      BY <1>1
    <2> QED
      BY <2>1, <2>2 DEF Follows
  <1>3. ASSUME NEW k \in 1 .. N, Good(k - 1) PROVE Good(k)
    <2>1. CASE k \notin todo[g]
      <3>1. f[k] = f[k - 1]
        BY <1>1, <2>1 DEF After
      <3>2. \A m \in todo[g] : m <= k <=> m <= k - 1
        BY <2>1
      <3>3. \A r : Touching(g, k, r) = Touching(g, k - 1, r)
        BY <3>2 DEF Touching
      <3> QED
        BY <1>3, <3>1, <3>3 DEF Follows
    <2>2. CASE k \in todo[g]
      <3> DEFINE b == f[k - 1].db
                 ok == f[k - 1].ok
      <3>1. f[k] = [db |-> Effect(k, RowsIn(k, g), b),
                    ok |-> ok /\ ~Duplicate(k, RowsIn(k, g), b)]
        BY <1>1, <2>2 DEF After
      <3>2. Follows(g, k - 1, b, ok)
        BY <1>3
      <3>3. \A r \in RowsOf(k) : r \in Rows /\ events[k][r] \in {"I", "U", "D"}
        OBVIOUS
      <3> HIDE DEF b, ok
      <3>4. Follows(g, k, Effect(k, RowsIn(k, g), b), ok /\ ~Duplicate(k, RowsIn(k, g), b))
        BY <2>2, <3>2, <3>3, FollowsStep
      <3>5. f[k].db = Effect(k, RowsIn(k, g), b)
        BY <3>1
      <3>6. f[k].ok = (ok /\ ~Duplicate(k, RowsIn(k, g), b))
        BY <3>1
      <3> QED
        BY <3>4, <3>5, <3>6
    <2> QED
      BY <2>1, <2>2
  <1> HIDE DEF Good
  <1>4. T = {}
    <2> SUFFICES ASSUME T # {} PROVE FALSE
      OBVIOUS
    <2>1. T \in SUBSET Nat
      OBVIOUS
    <2> HIDE DEF T
    <2>2. PICK n \in T : \A m \in T : n <= m
      BY <2>1, LeastNumber
    <2> USE DEF T
    <2>3. n \in 1 .. N /\ ~Good(n)
      BY <1>2
    <2>4. n - 1 \in 0 .. N /\ n - 1 \notin T
      BY <2>2, <2>3
    <2>5. Good(n - 1)
      BY <2>4
    <2> QED
      BY <1>3, <2>3, <2>5
  <1>5. Good(N)
    BY <1>4
  <1> QED
    BY <1>1, <1>5 DEF Good

-----------------------------------------------------------------------------
(* What no step undoes.                                                    *)

Grows ==
    /\ events' = events \/ \E changes \in Flushes : events' = Append(events, changes)
    /\ executed \subseteq executed' /\ givenUp \subseteq givenUp'
    /\ faults > 0 => faults' > 0
    /\ poisoned => poisoned'

LEMMA Monotone == ASSUME Types, [Next]_vars PROVE Grows
  <1> USE DEF Grows
  <1>1. ASSUME NEW changes \in Flushes, FlushLazy(changes) PROVE Grows
    BY <1>1 DEF FlushLazy
  <1>2. CASE LoadStep
    BY <1>2, LoadLeaves
  <1>3. CASE Take \/ InsertsDone \/ BatchDone
    BY <1>3 DEF Take, InsertsDone, BatchDone, streamVars, historyVars
  <1>4. ASSUME NEW p \in Pools,
               Query(p) \/ QueryPanics(p) \/ Clear(p) \/ ClearPanics(p) \/ Ack(p)
        PROVE  Grows
    <2>1. CASE Query(p)
      BY <2>1 DEF Query, streamVars
    <2>2. CASE QueryPanics(p) \/ ClearPanics(p)
      BY <2>2 DEF QueryPanics, ClearPanics, streamVars
    <2>3. CASE Clear(p) \/ Ack(p)
      BY <2>3 DEF Clear, Ack, streamVars, historyVars
    <2> QED
      BY <1>4, <2>1, <2>2, <2>3
  <1>5. ASSUME NEW g \in Groups,
               \/ Execute(g) \/ Refused(g) \/ GroupAck(g)
               \/ GroupClear(g) \/ GroupClearPanics(g)
        PROVE  Grows
    <2>1. CASE Execute(g)
      BY <2>1 DEF Execute, streamVars
    <2>2. CASE Refused(g)
      BY <2>2 DEF Refused, LetGo, Panic, streamVars
    <2>3. CASE GroupAck(g) \/ GroupClear(g)
      BY <2>3 DEF GroupAck, GroupClear, streamVars, historyVars
    <2>4. CASE GroupClearPanics(g)
      BY <2>4 DEF GroupClearPanics, Panic, streamVars
    <2> QED
      BY <1>5, <2>1, <2>2, <2>3, <2>4
  <1>6. ASSUME NEW g \in Groups, Fails(g) PROVE Grows
    BY <1>6 DEF Fails, LetGo, Panic, streamVars, Types
  <1>7. CASE Crash
    BY <1>7 DEF Crash, streamVars, Types
  <1>8. CASE UNCHANGED vars
    BY <1>8 DEF vars, streamVars, historyVars
  <1> QED
    BY <1>1, <1>2, <1>3, <1>4, <1>5, <1>6, <1>7, <1>8 DEF Next, Consumer, LoadStep

\* The facts about events that the steps below use.
LEMMA Kept ==
  ASSUME Types, [Next]_vars
  PROVE  /\ 1 .. Len(events) \subseteq 1 .. Len(events')
         /\ \A n \in 1 .. Len(events) :
               /\ events'[n] = events[n]
               /\ RowsOf(n)' = RowsOf(n) /\ Inserted(n)' = Inserted(n) /\ Keys(n)' = Keys(n)
               /\ (IsInsert(n)' <=> IsInsert(n)) /\ (Mixed(n)' <=> Mixed(n))
               /\ \A r : GroupOf(n, r)' = GroupOf(n, r)
               /\ \A g : RowsIn(n, g)' = RowsIn(n, g)
               /\ (Spans(n)' <=> Spans(n))
         /\ \A n, r : Done(n, r) => Done(n, r)'
         /\ Excused => Excused'
  <1>1. /\ 1 .. Len(events) \subseteq 1 .. Len(events')
        /\ \A n \in 1 .. Len(events) : events'[n] = events[n]
    BY Monotone, EventsStay DEF Grows
  <1>2. \A n, r : Done(n, r) => Done(n, r)'
    BY Monotone DEF Done, Grows
  <1>3. \A n \in 1 .. Len(events) : Mixed(n)' <=> Mixed(n)
    BY <1>1, SameEvent
  <1>4. Excused => Excused'
    BY <1>1, <1>3, Monotone DEF Grows, Excused
  <1> QED
    BY <1>1, <1>2, <1>4, SameEvent

LEMMA LeastKept == ASSUME NEW S, NEW n \in Least(S) PROVE n \in S
  BY DEF Least

-----------------------------------------------------------------------------
(* The values of rows keep their type.                                     *)

LEMMA OutcomeFacts ==
  ASSUME Types, Values, NEW g \in Groups
  PROVE  Follows(g, Len(events), Outcome(g).db, Outcome(g).ok)
  <1>1. /\ Len(events) \in Nat /\ todo[g] \subseteq 1 .. Len(events)
        /\ db \in [Rows -> ValueSet]
    BY DEF Types, Values
  <1>2. \A n \in 1 .. Len(events) : \A r \in RowsOf(n) :
           r \in Rows /\ events[n][r] \in {"I", "U", "D"}
    BY EventRows
  <1> QED
    BY <1>1, <1>2, OutcomeFollows

\* Only an event that mixes an insert with others can be a duplicate in a group.
LEMMA RefusedExcused ==
  ASSUME Types, Values, GroupGoroutines, [Next]_vars, NEW g \in Groups, Refused(g),
         poisoned' = TRUE
  PROVE  Excused'
  <1>1. ~Outcome(g).ok
    BY DEF Refused
  <1>2. PICK n \in todo[g] : Inserted(n) # {}
    BY <1>1, OutcomeFacts DEF Follows
  <1>3. n \in 1 .. Len(events) /\ ~IsInsert(n)
    BY DEF Types, GroupGoroutines, GroupGoroutine
  <1>4. Mixed(n)
    BY <1>2, <1>3 DEF IsInsert, Mixed, Inserted
  <1>5. n \in 1 .. Len(events') /\ Mixed(n)'
    BY <1>3, <1>4, Kept
  <1> QED
    BY <1>5 DEF Excused

LEMMA ValuesInit == Init => Values
  <1> SUFFICES ASSUME Init PROVE Values
    OBVIOUS
  <1>1. db \in [Rows -> ValueSet] /\ want = db /\ redis = [r \in Rows |-> Miss]
    BY DEF Init, ValueSet
  <1> QED
    BY <1>1 DEF Init, Values

LEMMA ValuesStep == Types /\ Values /\ LoadsOK /\ [Next]_vars => Values'
  <1> SUFFICES ASSUME Types, Values, LoadsOK, [Next]_vars PROVE Values'
    OBVIOUS
  <1> DEFINE Written == (1 .. Len(events)) \X Rows
  <1>a. /\ ValueSet \subseteq ValueSet' /\ Written \subseteq Written'
        /\ Len(events) \in Nat
    BY Kept DEF ValueSet, Types
  <1>b. /\ db \in [Rows -> ValueSet] /\ want \in [Rows -> ValueSet]
        /\ redis \in [Rows -> {Miss} \cup ValueSet]
        /\ executed \subseteq Written /\ givenUp \subseteq Written
        /\ uncleared \subseteq Rows /\ reborn \in BOOLEAN
    BY DEF Values
  <1>c. \A n \in 1 .. Len(events) : Keys(n) \subseteq Rows /\ RowsOf(n) \subseteq Rows
    BY EventRows DEF Keys
  <1>d. NoRow \in ValueSet
    BY DEF ValueSet
  \* What a step must show of the variables it changes.
  <1>e. ASSUME db' = db \/ db' \in [Rows -> ValueSet],
               want' = want \/ want' \in [Rows -> ValueSet'],
               redis' = redis \/ redis' \in [Rows -> {Miss} \cup ValueSet'],
               executed' = executed \/ executed' \subseteq Written,
               givenUp' = givenUp \/ givenUp' \subseteq Written,
               uncleared' = uncleared \/ uncleared' \subseteq Rows, reborn' \in BOOLEAN
        PROVE  Values'
    <2> DEFINE V == ValueSet'
    <2>1. ValueSet \subseteq V
      BY <1>a
    <2>2. db' \in [Rows -> ValueSet]
      BY <1>b, <1>e
    <2>3. want' \in [Rows -> V] /\ redis' \in [Rows -> {Miss} \cup V]
      <3>1. want \in [Rows -> V] /\ redis \in [Rows -> {Miss} \cup V]
        <4> HIDE DEF V
        <4> QED
          BY <1>b, <2>1
      <3> QED
        BY <1>e, <3>1
    <2>4. db' \in [Rows -> V]
      <3> HIDE DEF V
      <3> QED
        BY <2>1, <2>2
    <2>5. executed' \subseteq Written /\ givenUp' \subseteq Written /\ uncleared' \subseteq Rows
      BY <1>b, <1>e
    <2>6. executed' \subseteq Written' /\ givenUp' \subseteq Written'
      BY <1>a, <2>5
    <2> QED
      BY <1>e, <2>3, <2>4, <2>5, <2>6 DEF Values
  <1>f. ASSUME NEW g \in Groups PROVE Unfinished(g) \subseteq Rows /\ Statements(g) \subseteq Written
    <2>1. todo[g] \subseteq 1 .. Len(events)
      BY DEF Types
    <2> QED
      BY <1>c, <2>1 DEF Unfinished, Statements, RowsIn
  <1> HIDE DEF Written
  <1>g. Die => uncleared' \subseteq Rows
    BY <1>b, <1>f DEF Die
  <1>h. ASSUME NEW n \in 1 .. Len(events)
        PROVE  /\ [r \in Rows |-> IF r \in Keys(n) THEN Miss ELSE redis[r]]
                     \in [Rows -> {Miss} \cup ValueSet']
               /\ uncleared \ Keys(n) \subseteq Rows
    BY <1>a, <1>b
  <1>1. ASSUME NEW changes \in Flushes, FlushLazy(changes) PROVE Values'
    <2>1. events' = Append(events, changes)
      BY <1>1 DEF FlushLazy
    <2>2. Len(events') = Len(events) + 1
      BY <2>1 DEF Types
    <2>3. Len(events) + 1 \in ValueSet' /\ NoRow \in ValueSet'
      BY <1>a, <2>2 DEF ValueSet
    <2> DEFINE V == ValueSet'
    <2>4. Len(events) + 1 \in V /\ NoRow \in V
      BY <2>3
    <2>5. want \in [Rows -> V] /\ redis \in [Rows -> {Miss} \cup V]
      BY <1>a, <1>b
    <2> HIDE DEF V
    <2>6. want' \in [Rows -> V]
      BY <1>1, <2>4, <2>5 DEF FlushLazy
    <2>7. redis' \in [Rows -> {Miss} \cup V]
      BY <1>1, <2>4, <2>5 DEF FlushLazy
    <2>8. uncleared' \subseteq Rows /\ UNCHANGED <<db, executed, givenUp>>
      BY <1>1, <1>b DEF FlushLazy
    <2>9. reborn' \in BOOLEAN
      BY <1>1, <1>b DEF FlushLazy
    <2>10. want' \in [Rows -> ValueSet'] /\ redis' \in [Rows -> {Miss} \cup ValueSet']
      BY <2>6, <2>7 DEF V
    <2> QED
      BY <1>e, <2>8, <2>9, <2>10
  <1>2. CASE LoadStep
    <2>1. \E r \in Rows, v \in {Miss} \cup ValueSet :
             redis' = redis \/ redis' = [redis EXCEPT ![r] = v]
      <3>1. CASE \E r \in Rows : LoadSelects(r) \/ Evict(r)
        BY <3>1 DEF LoadSelects, Evict
      <3>2. CASE \E l \in loads : LoadSets(l)
        BY <3>2 DEF LoadSets, LoadsOK
      <3> QED
        BY <1>2, <3>1, <3>2 DEF LoadStep
    <2>2. redis' \in [Rows -> {Miss} \cup ValueSet]
      BY <1>b, <2>1
    <2>3. redis' \in [Rows -> {Miss} \cup ValueSet']
      BY <1>a, <2>2
    <2> QED
      BY <1>2, <1>b, <1>e, <2>3, LoadLeaves
  <1>3. CASE Take \/ InsertsDone \/ BatchDone
    BY <1>3, <1>b, <1>e DEF Take, InsertsDone, BatchDone, historyVars
  <1>4. ASSUME NEW p \in Pools, Query(p) PROVE Values'
    <2>1. PICK n \in Least(left[p]) : \E S \in NextStatements(n, RowsOf(n) \ ran[p]) :
                /\ db' \in {db, Effect(n, S, db)}
                /\ executed' \subseteq executed \cup ({n} \X S)
                /\ givenUp' \subseteq givenUp \cup ({n} \X S)
      BY <1>4 DEF Query
    <2>2. PICK S \in NextStatements(n, RowsOf(n) \ ran[p]) :
                /\ db' \in {db, Effect(n, S, db)}
                /\ executed' \subseteq executed \cup ({n} \X S)
                /\ givenUp' \subseteq givenUp \cup ({n} \X S)
      BY <2>1
    <2>3. n \in 1 .. Len(events) /\ S \subseteq RowsOf(n)
      BY LeastKept, StatementRows DEF Types
    <2>4. \A r \in S : r \in Rows /\ events[n][r] \in {"I", "U", "D"}
      BY <2>3, EventRows
    <2>5. Effect(n, S, db) \in [Rows -> ValueSet]
      BY <1>a, <1>b, <2>3, <2>4, EffectIs
    <2>6. {n} \X S \subseteq Written
      BY <2>3, <2>4 DEF Written
    <2> QED
      BY <1>4, <1>b, <1>e, <2>2, <2>5, <2>6 DEF Query
  <1>5. ASSUME NEW p \in Pools, QueryPanics(p) \/ ClearPanics(p) PROVE Values'
    <2>1. Die /\ UNCHANGED <<db, redis, want, executed, givenUp, reborn>>
      BY <1>5 DEF QueryPanics, ClearPanics
    <2> QED
      BY <1>b, <1>e, <1>g, <2>1
  <1>6. ASSUME NEW p \in Pools, Clear(p) PROVE Values'
    <2>1. PICK n \in Least(left[p]) :
             /\ redis' = [r \in Rows |-> IF r \in Keys(n) THEN Miss ELSE redis[r]]
             /\ uncleared' = uncleared \ Keys(n)
      BY <1>6 DEF Clear
    <2>2. n \in 1 .. Len(events)
      BY LeastKept DEF Types
    <2> QED
      BY <1>6, <1>b, <1>e, <1>h, <2>1, <2>2 DEF Clear
  <1>7. ASSUME NEW p \in Pools, Ack(p) PROVE Values'
    BY <1>7, <1>b, <1>e DEF Ack, historyVars
  <1>8. ASSUME NEW g \in Groups, Execute(g) PROVE Values'
    <2>1. db' = Outcome(g).db /\ executed' = executed \cup Statements(g)
      BY <1>8 DEF Execute
    <2>2. db' \in [Rows -> ValueSet]
      BY <2>1, OutcomeFacts DEF Follows
    <2> QED
      BY <1>8, <1>b, <1>e, <1>f, <2>1, <2>2 DEF Execute
  <1>9. ASSUME NEW g \in Groups, Refused(g) \/ Fails(g) PROVE Values'
    <2>1. UNCHANGED <<db, redis, want, executed, uncleared, reborn>>
      BY <1>9 DEF Refused, Fails
    <2>2. givenUp' = givenUp \/ givenUp' = givenUp \cup Statements(g)
      BY <1>9 DEF Refused, Fails, LetGo, Panic
    <2> QED
      BY <1>b, <1>e, <1>f, <2>1, <2>2
  <1>10. ASSUME NEW g \in Groups, GroupAck(g) PROVE Values'
    BY <1>10, <1>b, <1>e DEF GroupAck, historyVars
  <1>11. ASSUME NEW g \in Groups, GroupClear(g) PROVE Values'
    <2>1. PICK n \in Least(todo[g]) :
             /\ redis' = [r \in Rows |-> IF r \in Keys(n) THEN Miss ELSE redis[r]]
             /\ uncleared' = uncleared \ Keys(n)
      BY <1>11 DEF GroupClear
    <2>2. n \in 1 .. Len(events)
      BY LeastKept DEF Types
    <2> QED
      BY <1>11, <1>b, <1>e, <1>h, <2>1, <2>2 DEF GroupClear
  <1>12. ASSUME NEW g \in Groups, GroupClearPanics(g) PROVE Values'
    <2>1. uncleared' = uncleared \cup Unfinished(g) /\ UNCHANGED givenUp
      BY <1>12 DEF GroupClearPanics, Panic
    <2> QED
      BY <1>12, <1>b, <1>e, <1>f, <2>1 DEF GroupClearPanics
  <1>13. CASE Crash
    BY <1>13, <1>b, <1>e, <1>g DEF Crash
  <1>14. CASE UNCHANGED vars
    BY <1>14, <1>b, <1>e DEF vars, historyVars
  <1> QED
    BY <1>1, <1>2, <1>3, <1>4, <1>5, <1>6, <1>7, <1>8, <1>9, <1>10, <1>11, <1>12, <1>13,
       <1>14 DEF Next, Consumer, LoadStep

-----------------------------------------------------------------------------
(* Loads under way: a step leaves them alone, lets keys be deleted that    *)
(* they have read, or is of a load.                                        *)

LEMMA LoadsMove ==
  ASSUME [Next]_vars
  PROVE  \/ UNCHANGED <<redis, loads, overtaken>>
         \/ LoadStep
         \/ \E changes \in Flushes : FlushLazy(changes)
         \/ \E p \in Pools : Clear(p)
         \/ \E g \in Groups : GroupClear(g)
  <1>1. CASE Take \/ InsertsDone \/ BatchDone \/ Crash \/ UNCHANGED vars
    BY <1>1 DEF Take, InsertsDone, BatchDone, Crash, vars, loadVars
  <1>2. ASSUME NEW p \in Pools, Query(p) \/ QueryPanics(p) \/ ClearPanics(p) \/ Ack(p)
        PROVE  UNCHANGED <<redis, loads, overtaken>>
    BY <1>2 DEF Query, QueryPanics, ClearPanics, Ack, loadVars
  <1>3. ASSUME NEW g \in Groups,
               Execute(g) \/ Refused(g) \/ Fails(g) \/ GroupAck(g) \/ GroupClearPanics(g)
        PROVE  UNCHANGED <<redis, loads, overtaken>>
    BY <1>3 DEF Execute, Refused, Fails, GroupAck, GroupClearPanics, loadVars
  <1> QED
    BY <1>1, <1>2, <1>3 DEF Next, Consumer, LoadStep

\* A load after a deletion is one from before.
LEMMA PassesIs ==
  ASSUME LoadsOK, NEW S, Passes(S), NEW l \in loads'
  PROVE  \E k \in loads : /\ l.row = k.row /\ l.value = k.value
                          /\ l.passed = (k.passed \/ k.row \in S)
                          /\ l \in [row : Rows, value : ValueSet, passed : BOOLEAN]
  <1>1. PICK k \in loads : l = [k EXCEPT !.passed = @ \/ k.row \in S]
    BY DEF Passes
  <1>2. k \in [row : Rows, value : ValueSet, passed : BOOLEAN]
    BY DEF LoadsOK
  <1>3. (k.passed \/ k.row \in S) \in BOOLEAN
    OBVIOUS
  <1> QED
    BY <1>1, <1>2, <1>3

LEMMA LoadsStep == Types /\ Values /\ LoadsOK /\ [Next]_vars => LoadsOK'
  <1> SUFFICES ASSUME Types, Values, LoadsOK, [Next]_vars PROVE LoadsOK'
    OBVIOUS
  <1> DEFINE Loads == [row : Rows, value : ValueSet, passed : BOOLEAN]
  <1>a. ValueSet \subseteq ValueSet'
    BY Kept DEF ValueSet, Types
  <1>b. ASSUME loads' \subseteq Loads, overtaken' \subseteq Rows PROVE LoadsOK'
    <2>1. Loads \subseteq [row : Rows, value : ValueSet', passed : BOOLEAN]
      BY <1>a
    <2> QED
      BY <1>b, <2>1 DEF LoadsOK
  <1>1. CASE UNCHANGED <<loads, overtaken>>
    BY <1>1, <1>b DEF LoadsOK
  <1>2. ASSUME NEW S, Passes(S) PROVE LoadsOK'
    <2>1. loads' \subseteq Loads
      BY <1>2, PassesIs
    <2>2. overtaken' \subseteq Rows
      BY <1>2 DEF Passes, LoadsOK
    <2> QED
      BY <1>b, <2>1, <2>2
  <1>3. CASE LoadStep
    <2>1. ASSUME NEW r \in Rows, LoadSelects(r) PROVE LoadsOK'
      <3>1. [row |-> r, value |-> db[r], passed |-> FALSE] \in Loads
        BY DEF Values
      <3> QED
        BY <1>b, <2>1, <3>1 DEF LoadSelects, LoadsOK
    <2>2. ASSUME NEW r \in Rows, Evict(r) PROVE LoadsOK'
      BY <1>b, <2>2 DEF Evict, LoadsOK
    <2>3. ASSUME NEW l \in loads, LoadSets(l) PROVE LoadsOK'
      BY <1>b, <2>3 DEF LoadSets, LoadsOK
    <2> QED
      BY <1>3, <2>1, <2>2, <2>3 DEF LoadStep
  <1>4. ASSUME NEW changes \in Flushes, FlushLazy(changes) PROVE \E S : Passes(S)
    BY <1>4 DEF FlushLazy
  <1>5. ASSUME NEW p \in Pools, Clear(p) PROVE \E S : Passes(S)
    BY <1>5 DEF Clear
  <1>6. ASSUME NEW g \in Groups, GroupClear(g) PROVE \E S : Passes(S)
    BY <1>6 DEF GroupClear
  <1> QED
    BY <1>1, <1>2, <1>3, <1>4, <1>5, <1>6, LoadsMove

-----------------------------------------------------------------------------
(* The goroutines start over.                                              *)

LEMMA AfterRestart ==
  ASSUME Restart
  PROVE  /\ InsertGoroutines' /\ InsertsRun' /\ GroupGoroutines' /\ GroupsRun'
         /\ \A g \in Groups : todo'[g] = {}
  <1>1. \A p \in Pools : left'[p] = {} /\ at'[p] = "query" /\ ran'[p] = {}
    BY RestartTypes
  <1>2. \A g \in Groups : todo'[g] = {}
    BY RestartTypes
  <1>3. InsertGoroutines'
    BY <1>1 DEF InsertGoroutines, InsertGoroutine, Least
  <1>4. GroupGoroutines'
    <2>1. \A g \in Groups : run'[g] = "done"
      BY RestartTypes
    <2> QED
      BY <1>2, <2>1, RestartTypes DEF GroupGoroutines, GroupGoroutine
  <1>5. InsertsRun' /\ GroupsRun'
    BY RestartTypes DEF InsertsRun, GroupsRun
  <1> QED
    BY <1>2, <1>3, <1>4, <1>5

-----------------------------------------------------------------------------
(* The goroutines of insert events.                                        *)

\* A step that leaves the goroutine of pool p and the batch alone, or takes it past
\* a statement.
LEMMA InsertGoroutineKept ==
  ASSUME Types, [Next]_vars, NEW p \in Pools, InsertGoroutine(p),
         phase' = phase, batch' = batch, left'[p] = left[p],
         left[p] = {} => at'[p] = "query" /\ ran'[p] = {},
         \A n \in Least(left[p]) :
            /\ \A r \in ran'[p] \ ran[p] : <<n, r>> \in executed' \cup givenUp'
            /\ at'[p] # "query" => RowsOf(n) \subseteq ran'[p]
  PROVE  InsertGoroutine(p)'
  <1>1. \A n \in left[p] : n \in 1 .. Len(events)
    BY DEF Types
  <1>2. \A n \in left'[p] : n \in batch' /\ IsInsert(n)'
    BY <1>1, Kept DEF InsertGoroutine
  <1>3. ASSUME NEW n \in Least(left'[p])
        PROVE  /\ \A r \in ran'[p] : Done(n, r)'
               /\ at'[p] # "query" => RowsOf(n)' \subseteq ran'[p]
    <2>1. n \in Least(left[p]) /\ n \in 1 .. Len(events)
      BY <1>1, <1>3, LeastKept
    <2>2. \A r \in ran[p] : Done(n, r)'
      BY <2>1, Kept DEF InsertGoroutine
    <2>3. RowsOf(n)' = RowsOf(n)
      BY <2>1, Kept
    <2>4. \A r \in ran'[p] : Done(n, r)'
      <3> SUFFICES ASSUME NEW r \in ran'[p] PROVE Done(n, r)'
        OBVIOUS
      <3>1. CASE r \in ran[p]
        BY <2>2, <3>1
      <3>2. CASE r \in ran'[p] \ ran[p]
        BY <2>1, <3>2 DEF Done
      <3> QED
        BY <3>1, <3>2
    <2> QED
      BY <2>1, <2>3, <2>4
  <1> QED
    BY <1>2, <1>3 DEF InsertGoroutine

LEMMA InsertGoroutinesStep ==
  Types /\ InsertGoroutines /\ GroupGoroutines /\ [Next]_vars => InsertGoroutines'
  <1> SUFFICES ASSUME Types, InsertGoroutines, GroupGoroutines, [Next]_vars
               PROVE  InsertGoroutines'
    OBVIOUS
  <1>a. ASSUME UNCHANGED <<phase, batch, left, at, ran>> PROVE InsertGoroutines'
    <2> SUFFICES ASSUME NEW p \in Pools PROVE InsertGoroutine(p)'
      BY DEF InsertGoroutines
    <2> QED
      BY <1>a, InsertGoroutineKept DEF InsertGoroutines, InsertGoroutine
  <1>1. ASSUME NEW changes \in Flushes, FlushLazy(changes) PROVE InsertGoroutines'
    BY <1>1, <1>a DEF FlushLazy, insertVars
  <1>2. CASE LoadStep
    BY <1>2, <1>a, LoadLeaves
  <1>3. CASE Take
    <2>1. \A p \in Pools : left[p] = {} /\ at[p] = "query" /\ ran[p] = {}
      BY <1>3 DEF Take, InsertGoroutines, InsertGoroutine
    <2>2. \A p \in Pools : at'[p] = "query" /\ ran'[p] = {}
      BY <1>3, <2>1 DEF Take
    <2>3. \A p \in Pools : \A n \in left'[p] : n \in batch' /\ IsInsert(n)
      BY <1>3 DEF Take
    <2>4. \A n \in batch' : n \in 1 .. Len(events)
      BY <1>3 DEF Take, FirstN
    <2>5. \A p \in Pools : \A n \in left'[p] : n \in batch' /\ IsInsert(n)'
      BY <2>3, <2>4, Kept
    <2>6. phase' = "inserts"
      BY <1>3 DEF Take
    <2> QED
      BY <2>2, <2>5, <2>6 DEF InsertGoroutines, InsertGoroutine
  <1>4. CASE InsertsDone
    <2>1. \A p \in Pools : left'[p] = {} /\ at'[p] = "query" /\ ran'[p] = {}
      BY <1>4 DEF InsertsDone, insertVars, InsertGoroutines, InsertGoroutine
    <2> QED
      BY <2>1 DEF InsertGoroutines, InsertGoroutine, Least
  <1>5. ASSUME NEW p \in Pools, Query(p) PROVE InsertGoroutines'
    <2> SUFFICES ASSUME NEW q \in Pools PROVE InsertGoroutine(q)'
      BY DEF InsertGoroutines
    <2>1. InsertGoroutine(q)
      BY DEF InsertGoroutines
    <2>2. phase' = phase /\ batch' = batch /\ left' = left
      BY <1>5 DEF Query, groupVars
    <2>3. CASE q # p
      <3>1. at'[q] = at[q] /\ ran'[q] = ran[q]
        BY <1>5, <2>3 DEF Query, Types
      <3> QED
        BY <2>1, <2>2, <3>1, InsertGoroutineKept DEF InsertGoroutine
    <2>4. CASE q = p
      <3>1. PICK n \in Least(left[p]) : \E S \in NextStatements(n, RowsOf(n) \ ran[p]) :
                  /\ at[p] = "query"
                  /\ executed' \cup givenUp' = executed \cup givenUp \cup ({n} \X S)
                  /\ ran' = [ran EXCEPT ![p] = @ \cup S]
                  /\ at' = [at EXCEPT ![p] = IF RowsOf(n) \subseteq ran'[p] THEN "clear" ELSE @]
        BY <1>5 DEF Query
      <3>2. PICK S \in NextStatements(n, RowsOf(n) \ ran[p]) :
                  /\ at[p] = "query"
                  /\ executed' \cup givenUp' = executed \cup givenUp \cup ({n} \X S)
                  /\ ran' = [ran EXCEPT ![p] = @ \cup S]
                  /\ at' = [at EXCEPT ![p] = IF RowsOf(n) \subseteq ran'[p] THEN "clear" ELSE @]
        BY <3>1
      <3>3. n \in left[p] /\ \A m \in Least(left[p]) : m = n
        BY DEF Least, Types
      <3>4. \A r \in ran'[p] \ ran[p] : <<n, r>> \in executed' \cup givenUp'
        <4>1. ran'[p] = ran[p] \cup S
          BY <3>2 DEF Types
        <4>2. \A r \in S : <<n, r>> \in executed' \cup givenUp'
          BY <3>2
        <4> QED
          BY <4>1, <4>2
      <3>5. at'[p] # "query" => RowsOf(n) \subseteq ran'[p]
        BY <3>2 DEF Types
      <3> QED
        BY <2>1, <2>2, <2>4, <3>3, <3>4, <3>5, InsertGoroutineKept
    <2> QED
      BY <2>3, <2>4
  <1>6. ASSUME NEW p \in Pools, QueryPanics(p) \/ ClearPanics(p) PROVE InsertGoroutines'
    BY <1>6, AfterRestart DEF QueryPanics, ClearPanics, Die
  <1>7. CASE BatchDone \/ Crash
    BY <1>7, AfterRestart DEF BatchDone, Crash, Die
  <1>8. ASSUME NEW p \in Pools, Clear(p) PROVE InsertGoroutines'
    <2> SUFFICES ASSUME NEW q \in Pools PROVE InsertGoroutine(q)'
      BY DEF InsertGoroutines
    <2>1. InsertGoroutine(q)
      BY DEF InsertGoroutines
    <2>2. phase' = phase /\ batch' = batch /\ left' = left /\ ran' = ran
      BY <1>8 DEF Clear, groupVars
    <2>3. left[p] # {} /\ at[p] = "clear" /\ at' = [at EXCEPT ![p] = "ack"]
      BY <1>8, LeastKept DEF Clear
    <2>4. /\ left[q] = {} => at'[q] = "query" /\ ran'[q] = {}
          /\ at'[q] # "query" => at[q] # "query"
      BY <2>1, <2>2, <2>3 DEF Types, InsertGoroutine
    <2> QED
      BY <2>1, <2>2, <2>4, InsertGoroutineKept DEF InsertGoroutine
  <1>9. ASSUME NEW p \in Pools, Ack(p) PROVE InsertGoroutines'
    <2> SUFFICES ASSUME NEW q \in Pools PROVE InsertGoroutine(q)'
      BY DEF InsertGoroutines
    <2>1. InsertGoroutine(q)
      BY DEF InsertGoroutines
    <2>2. phase' = phase /\ batch' = batch
      BY <1>9 DEF Ack, groupVars
    <2>3. CASE q # p
      <3>1. left'[q] = left[q] /\ at'[q] = at[q] /\ ran'[q] = ran[q]
        BY <1>9, <2>3 DEF Ack, Types
      <3> QED
        BY <2>1, <2>2, <3>1, InsertGoroutineKept DEF InsertGoroutine
    <2>4. CASE q = p
      <3>1. at'[p] = "query" /\ ran'[p] = {} /\ left'[p] \subseteq left[p]
        BY <1>9 DEF Ack, Types
      <3>2. \A n \in left'[p] : n \in batch' /\ IsInsert(n)'
        BY <2>1, <2>2, <2>4, <3>1, Kept DEF InsertGoroutine, Types
      <3> QED
        BY <2>1, <2>2, <2>4, <3>1, <3>2 DEF InsertGoroutine
    <2> QED
      BY <2>3, <2>4
  <1>10. ASSUME NEW g \in Groups,
                \/ Execute(g) \/ Refused(g) \/ Fails(g) \/ GroupAck(g)
                \/ GroupClear(g) \/ GroupClearPanics(g)
         PROVE  InsertGoroutines'
    <2>1. UNCHANGED <<phase, batch, left, at, ran>>
      BY <1>10, Zenon DEF Execute, Refused, Fails, GroupAck, GroupClear, GroupClearPanics,
                          insertVars
    <2> QED
      BY <2>1, <1>a
  <1>11. CASE UNCHANGED vars
    BY <1>11, <1>a DEF vars, insertVars
  <1> QED
    BY <1>1, <1>2, <1>3, <1>4, <1>5, <1>6, <1>7, <1>8, <1>9, <1>10, <1>11 DEF Next, Consumer, LoadStep

LEMMA InsertsRunStep ==
  Types /\ InsertGoroutines /\ InsertsRun /\ [Next]_vars => InsertsRun'
  <1> SUFFICES ASSUME Types, InsertGoroutines, InsertsRun, [Next]_vars PROVE InsertsRun'
    OBVIOUS
  <1>a. \A n \in batch : n \in 1 .. Len(events)
    BY DEF Types
  <1>b. ASSUME batch' = batch,
               \A p \in Pools : \A n \in left[p] \ left'[p] : \A r \in RowsOf(n) : Done(n, r)
        PROVE  InsertsRun'
    <2> SUFFICES ASSUME NEW n \in batch, IsInsert(n)', \A p \in Pools : n \notin left'[p],
                        NEW r \in RowsOf(n)'
                 PROVE  Done(n, r)'
      BY <1>b DEF InsertsRun
    <2>1. IsInsert(n) /\ r \in RowsOf(n) /\ (Done(n, r) => Done(n, r)')
      BY <1>a, Kept
    <2>2. Done(n, r)
      BY <1>b, <2>1 DEF InsertsRun
    <2> QED
      BY <2>1, <2>2
  <1>1. ASSUME NEW changes \in Flushes, FlushLazy(changes) PROVE InsertsRun'
    BY <1>1, <1>b DEF FlushLazy, insertVars
  <1>2. CASE LoadStep
    BY <1>2, <1>b, LoadLeaves
  <1>3. CASE Take
    <2>1. events' = events
      BY <1>3 DEF Take, streamVars
    <2>2. \A n : IsInsert(n)' <=> IsInsert(n)
      BY <2>1, SameEvent
    <2>3. \A n \in batch' : IsInsert(n) => \E p \in Pools : n \in left'[p]
      BY <1>3 DEF Take
    <2> QED
      BY <2>2, <2>3 DEF InsertsRun
  <1>4. CASE InsertsDone
    BY <1>4, <1>b DEF InsertsDone, insertVars
  <1>5. ASSUME NEW p \in Pools, Query(p) \/ Clear(p) PROVE InsertsRun'
    <2>1. batch' = batch /\ left' = left
      BY <1>5 DEF Query, Clear
    <2> QED
      BY <2>1, <1>b
  <1>6. ASSUME NEW p \in Pools, QueryPanics(p) \/ ClearPanics(p) PROVE InsertsRun'
    BY <1>6, AfterRestart DEF QueryPanics, ClearPanics, Die
  <1>7. CASE BatchDone \/ Crash
    BY <1>7, AfterRestart DEF BatchDone, Crash, Die
  <1>8. ASSUME NEW p \in Pools, Ack(p) PROVE InsertsRun'
    <2>1. PICK n \in Least(left[p]) : at[p] = "ack" /\ left' = [left EXCEPT ![p] = @ \ {n}]
      BY <1>8 DEF Ack
    <2>2. \A r \in RowsOf(n) : Done(n, r)
      BY <2>1 DEF InsertGoroutines, InsertGoroutine
    <2>3. \A q \in Pools : \A m \in left[q] \ left'[q] : m = n
      BY <2>1 DEF Types
    <2>4. batch' = batch
      BY <1>8 DEF Ack
    <2> QED
      BY <2>2, <2>3, <2>4, <1>b
  <1>9. ASSUME NEW g \in Groups,
               \/ Execute(g) \/ Refused(g) \/ Fails(g) \/ GroupAck(g)
               \/ GroupClear(g) \/ GroupClearPanics(g)
         PROVE  InsertsRun'
    <2>1. UNCHANGED <<batch, left>>
      BY <1>9, Zenon DEF Execute, Refused, Fails, GroupAck, GroupClear, GroupClearPanics,
                         insertVars
    <2> QED
      BY <2>1, <1>b
  <1>10. CASE UNCHANGED vars
    BY <1>10, <1>b DEF vars, insertVars
  <1> QED
    BY <1>1, <1>2, <1>3, <1>4, <1>5, <1>6, <1>7, <1>8, <1>9, <1>10 DEF Next, Consumer, LoadStep

-----------------------------------------------------------------------------
(* The goroutines of groups.                                               *)

\* A step that leaves the goroutine of group g and the batch alone, or takes it on.
LEMMA GroupGoroutineKept ==
  ASSUME Types, [Next]_vars, NEW g \in Groups, GroupGoroutine(g),
         phase' = phase, batch' = batch, todo'[g] \subseteq todo[g],
         run'[g] = "done" <=> todo'[g] = {},
         run'[g] # "query" /\ run[g] = "query" =>
            \A n \in todo'[g] : \A r \in RowsIn(n, g) : <<n, r>> \in executed' \cup givenUp'
  PROVE  GroupGoroutine(g)'
  <1>1. \A n \in todo'[g] : n \in todo[g] /\ n \in 1 .. Len(events)
    BY DEF Types
  <1>2. \A n \in todo'[g] : n \in batch' /\ ~IsInsert(n)' /\ RowsIn(n, g)' # {}
    BY <1>1, Kept DEF GroupGoroutine
  <1>3. ASSUME run'[g] # "query", NEW n \in todo'[g], NEW r \in RowsIn(n, g)'
        PROVE  Done(n, r)'
    <2>1. r \in RowsIn(n, g) /\ (Done(n, r) => Done(n, r)')
      BY <1>1, Kept
    <2>2. CASE run[g] = "query"
      BY <2>1, <2>2, <1>3 DEF Done
    <2>3. CASE run[g] # "query"
      BY <1>1, <2>1, <2>3 DEF GroupGoroutine
    <2> QED
      BY <2>2, <2>3
  <1> QED
    BY <1>1, <1>2, <1>3 DEF GroupGoroutine

LEMMA GroupGoroutinesStep ==
  Types /\ GroupGoroutines /\ [Next]_vars => GroupGoroutines'
  <1> SUFFICES ASSUME Types, GroupGoroutines, [Next]_vars PROVE GroupGoroutines'
    OBVIOUS
  <1>a. ASSUME UNCHANGED <<phase, batch, run, todo, lazyError>> PROVE GroupGoroutines'
    <2>1. ASSUME NEW g \in Groups PROVE GroupGoroutine(g)'
      BY <1>a, GroupGoroutineKept DEF GroupGoroutines, GroupGoroutine
    <2> QED
      BY <1>a, <2>1 DEF GroupGoroutines
  <1>b. ASSUME NEW g \in Groups, UNCHANGED <<phase, batch>>, lazyError' => phase = "groups",
               \A h \in Groups \ {g} : run'[h] = run[h] /\ todo'[h] = todo[h],
               GroupGoroutine(g)'
        PROVE  GroupGoroutines'
    <2>1. ASSUME NEW h \in Groups PROVE GroupGoroutine(h)'
      <3>1. CASE h = g
        BY <1>b, <3>1
      <3>2. CASE h # g
        BY <1>b, <3>2, GroupGoroutineKept DEF GroupGoroutines, GroupGoroutine
      <3> QED
        BY <3>1, <3>2
    <2> QED
      BY <1>b, <2>1 DEF GroupGoroutines
  <1>1. ASSUME NEW changes \in Flushes, FlushLazy(changes) PROVE GroupGoroutines'
    BY <1>1, <1>a DEF FlushLazy, groupVars
  <1>2. CASE LoadStep
    BY <1>2, <1>a, LoadLeaves
  <1>3. CASE Take
    <2>1. phase' = "inserts" /\ lazyError' = FALSE
      BY <1>3 DEF Take, groupVars, GroupGoroutines, Types
    <2>2. \A g \in Groups : todo'[g] = {} /\ run'[g] = "done"
      BY <1>3 DEF Take, groupVars, GroupGoroutines, GroupGoroutine
    <2> QED
      BY <2>1, <2>2 DEF GroupGoroutines, GroupGoroutine
  <1>4. CASE InsertsDone
    <2>1. events' = events /\ batch' = batch /\ phase' = "groups"
      BY <1>4 DEF InsertsDone, streamVars
    <2>2. ASSUME NEW g \in Groups PROVE GroupGoroutine(g)'
      <3>1. /\ todo'[g] = {n \in {i \in batch : ~IsInsert(i)} : RowsIn(n, g) # {}}
            /\ run'[g] = IF todo'[g] = {} THEN "done" ELSE "query"
        BY <1>4 DEF InsertsDone
      <3>2. \A n \in todo'[g] : n \in batch' /\ ~IsInsert(n)' /\ RowsIn(n, g)' # {}
        BY <2>1, <3>1, SameEvent
      <3> QED
        BY <2>1, <3>1, <3>2 DEF GroupGoroutine
    <2> QED
      BY <2>1, <2>2 DEF GroupGoroutines
  <1>5. ASSUME NEW p \in Pools, Query(p) \/ Clear(p) \/ Ack(p) PROVE GroupGoroutines'
    <2>1. UNCHANGED <<phase, batch, run, todo, lazyError>>
      BY <1>5 DEF Query, Clear, Ack, groupVars
    <2> QED
      BY <2>1, <1>a
  <1>6. ASSUME NEW p \in Pools, QueryPanics(p) \/ ClearPanics(p) PROVE GroupGoroutines'
    BY <1>6, AfterRestart DEF QueryPanics, ClearPanics, Die
  <1>7. CASE BatchDone \/ Crash
    BY <1>7, AfterRestart DEF BatchDone, Crash, Die
  <1>8. ASSUME NEW g \in Groups, Execute(g) PROVE GroupGoroutines'
    <2>1. /\ UNCHANGED <<phase, batch, todo, lazyError>> /\ run[g] = "query"
          /\ run' = [run EXCEPT ![g] = "ack"] /\ executed' = executed \cup Statements(g)
      BY <1>8 DEF Execute
    <2>2. \A n \in todo'[g] : \A r \in RowsIn(n, g) : <<n, r>> \in executed' \cup givenUp'
      BY <2>1 DEF Statements
    <2>3. GroupGoroutine(g)'
      BY <2>1, <2>2, GroupGoroutineKept DEF Types, GroupGoroutines, GroupGoroutine
    <2> QED
      BY <2>1, <2>3, <1>b DEF Types, GroupGoroutines
  <1>9. ASSUME NEW g \in Groups, Refused(g) \/ Fails(g) PROVE GroupGoroutines'
    <2>1. UNCHANGED <<phase, batch>> /\ run[g] = "query"
      BY <1>9 DEF Refused, Fails
    <2>2. phase = "groups"
      BY <2>1 DEF GroupGoroutines, GroupGoroutine
    <2>3. CASE LetGo(g)
      <3>1. /\ UNCHANGED <<todo, lazyError>>
            /\ run' = [run EXCEPT ![g] = "ack"] /\ givenUp' = givenUp \cup Statements(g)
        BY <2>3 DEF LetGo
      <3>2. \A n \in todo'[g] : \A r \in RowsIn(n, g) : <<n, r>> \in executed' \cup givenUp'
        BY <3>1 DEF Statements
      <3>3. GroupGoroutine(g)'
        BY <2>1, <3>1, <3>2, GroupGoroutineKept DEF Types, GroupGoroutines, GroupGoroutine
      <3> QED
        BY <2>1, <3>1, <3>3, <1>b DEF Types, GroupGoroutines
    <2>4. CASE Panic(g)
      <3>1. run' = [run EXCEPT ![g] = "done"] /\ todo' = [todo EXCEPT ![g] = {}]
        BY <2>4 DEF Panic
      <3>2. GroupGoroutine(g)'
        BY <3>1 DEF Types, GroupGoroutine
      <3> QED
        BY <2>1, <2>2, <3>1, <3>2, <1>b DEF Types
    <2> QED
      BY <1>9, <2>3, <2>4 DEF Refused, Fails
  <1>10. ASSUME NEW g \in Groups, GroupAck(g) PROVE GroupGoroutines'
    <2>1. /\ UNCHANGED <<phase, batch, todo, lazyError>> /\ run[g] = "ack"
          /\ run' = [run EXCEPT ![g] = "clear"]
      BY <1>10 DEF GroupAck
    <2>2. GroupGoroutine(g)'
      BY <2>1, GroupGoroutineKept DEF Types, GroupGoroutines, GroupGoroutine
    <2> QED
      BY <2>1, <2>2, <1>b DEF Types, GroupGoroutines
  <1>11. ASSUME NEW g \in Groups, GroupClear(g) PROVE GroupGoroutines'
    <2>1. PICK n \in Least(todo[g]) :
             /\ run' = [run EXCEPT ![g] = IF todo[g] = {n} THEN "done" ELSE "ack"]
             /\ todo' = [todo EXCEPT ![g] = @ \ {n}]
      BY <1>11 DEF GroupClear
    <2>2. UNCHANGED <<phase, batch, lazyError>> /\ run[g] = "clear"
      BY <1>11 DEF GroupClear
    <2>3. todo'[g] = todo[g] \ {n} /\ run'[g] = IF todo[g] = {n} THEN "done" ELSE "ack"
      BY <2>1 DEF Types
    <2>4. n \in todo[g]
      BY LeastKept
    <2>5. GroupGoroutine(g)'
      BY <2>2, <2>3, <2>4, GroupGoroutineKept DEF GroupGoroutines
    <2> QED
      BY <2>1, <2>2, <2>5, <1>b DEF Types, GroupGoroutines
  <1>12. ASSUME NEW g \in Groups, GroupClearPanics(g) PROVE GroupGoroutines'
    <2>1. UNCHANGED <<phase, batch>> /\ run[g] = "clear"
      BY <1>12 DEF GroupClearPanics
    <2>2. phase = "groups"
      BY <2>1 DEF GroupGoroutines, GroupGoroutine
    <2>3. run' = [run EXCEPT ![g] = "done"] /\ todo' = [todo EXCEPT ![g] = {}]
      BY <1>12 DEF GroupClearPanics, Panic
    <2>4. GroupGoroutine(g)'
      BY <2>3 DEF Types, GroupGoroutine
    <2> QED
      BY <2>1, <2>2, <2>3, <2>4, <1>b DEF Types
  <1>13. CASE UNCHANGED vars
    BY <1>13, <1>a DEF vars, groupVars
  <1> QED
    BY <1>1, <1>2, <1>3, <1>4, <1>5, <1>6, <1>7, <1>8, <1>9, <1>10, <1>11, <1>12, <1>13
       DEF Next, Consumer, LoadStep

LEMMA GroupsRunStep ==
  Types /\ Values /\ GroupGoroutines /\ GroupsRun /\ [Next]_vars => GroupsRun'
  <1> SUFFICES ASSUME Types, Values, GroupGoroutines, GroupsRun, [Next]_vars PROVE GroupsRun'
    OBVIOUS
  <1>a. \A n \in batch : n \in 1 .. Len(events) /\ RowsOf(n) \subseteq Rows
    BY EventRows DEF Types
  \* A row whose group drops its event is done, or the group failed.
  <1>b. ASSUME phase' = phase, batch' = batch, lazyError => lazyError',
               \A g \in Groups : \A n \in todo[g] \ todo'[g] : \A r \in RowsIn(n, g) :
                  Done(n, r) \/ (lazyError' /\ Excused')
        PROVE  GroupsRun'
    <2> SUFFICES ASSUME phase = "groups", NEW n \in batch, NEW r \in RowsOf(n)',
                        ~IsInsert(n)', n \notin todo'[GroupOf(n, r)']
                 PROVE  Done(n, r)' \/ (lazyError' /\ Excused')
      BY <1>b DEF GroupsRun
    <2>1. r \in RowsOf(n) /\ ~IsInsert(n) /\ GroupOf(n, r)' = GroupOf(n, r)
      BY <1>a, Kept
    <2>2. Done(n, r) => Done(n, r)'
      BY Kept
    <2>3. Excused => Excused'
      BY Kept
    <2>4. GroupOf(n, r) \in Groups /\ r \in RowsIn(n, GroupOf(n, r))
      BY <1>a, <2>1, GroupOfGroups DEF RowsIn
    <2>5. CASE n \in todo[GroupOf(n, r)]
      BY <1>b, <2>1, <2>2, <2>4, <2>5
    <2>6. CASE n \notin todo[GroupOf(n, r)]
      <3>1. Done(n, r) \/ (lazyError /\ Excused)
        BY <2>1, <2>6 DEF GroupsRun
      <3> QED
        BY <1>b, <2>2, <2>3, <3>1, Zenon
    <2> QED
      BY <2>5, <2>6
  <1>1. ASSUME NEW changes \in Flushes, FlushLazy(changes) PROVE GroupsRun'
    BY <1>1, <1>b DEF FlushLazy, groupVars
  <1>2. CASE LoadStep
    BY <1>2, <1>b, LoadLeaves
  <1>3. CASE Take
    BY <1>3 DEF Take, GroupsRun
  <1>4. CASE InsertsDone
    <2>1. events' = events /\ batch' = batch
      BY <1>4 DEF InsertsDone, streamVars
    <2>2. \A g \in Groups : \A n \in batch :
             ~IsInsert(n) /\ RowsIn(n, g) # {} => n \in todo'[g]
      BY <1>4 DEF InsertsDone
    <2>3. ASSUME NEW n \in batch, NEW r \in RowsOf(n), ~IsInsert(n)
          PROVE  n \in todo'[GroupOf(n, r)]
      <3>1. GroupOf(n, r) \in Groups /\ r \in RowsIn(n, GroupOf(n, r))
        BY <1>a, GroupOfGroups DEF RowsIn
      <3> QED
        BY <2>2, <2>3, <3>1
    <2> QED
      BY <2>1, <2>3, SameEvent DEF GroupsRun
  <1>5. ASSUME NEW p \in Pools, Query(p) \/ Clear(p) \/ Ack(p) PROVE GroupsRun'
    <2>1. UNCHANGED <<phase, batch, todo, lazyError>>
      BY <1>5 DEF Query, Clear, Ack, groupVars
    <2> QED
      BY <2>1, <1>b
  <1>6. ASSUME NEW p \in Pools, QueryPanics(p) \/ ClearPanics(p) PROVE GroupsRun'
    BY <1>6, AfterRestart DEF QueryPanics, ClearPanics, Die
  <1>7. CASE BatchDone \/ Crash
    BY <1>7, AfterRestart DEF BatchDone, Crash, Die
  <1>8. ASSUME NEW g \in Groups, Execute(g) \/ GroupAck(g) PROVE GroupsRun'
    <2>1. UNCHANGED <<phase, batch, todo, lazyError>>
      BY <1>8 DEF Execute, GroupAck
    <2> QED
      BY <2>1, <1>b
  <1>9. ASSUME NEW g \in Groups, Refused(g) \/ Fails(g) PROVE GroupsRun'
    <2>1. UNCHANGED <<phase, batch>>
      BY <1>9 DEF Refused, Fails
    <2>2. CASE LetGo(g)
      BY <2>1, <2>2, <1>b DEF LetGo
    <2>3. CASE Panic(g)
      <3>1. Excused'
        <4>1. CASE Fails(g)
          BY <4>1 DEF Fails, Types, Excused
        <4>2. CASE Refused(g)
          <5>1. CASE poisoned' = TRUE
            BY <4>2, <5>1, RefusedExcused
          <5>2. CASE LetGo(g)
            <6>1. run' = [run EXCEPT ![g] = "ack"] /\ run' = [run EXCEPT ![g] = "done"]
              BY <5>2, <2>3 DEF LetGo, Panic
            <6> QED
              BY <6>1 DEF Types
          <5> QED
            BY <4>2, <5>1, <5>2 DEF Refused
        <4> QED
          BY <1>9, <4>1, <4>2
      <3> QED
        BY <2>1, <2>3, <3>1, <1>b DEF Panic
    <2> QED
      BY <1>9, <2>2, <2>3 DEF Refused, Fails
  <1>10. ASSUME NEW g \in Groups, GroupClear(g) \/ GroupClearPanics(g) PROVE GroupsRun'
    <2>1. UNCHANGED <<phase, batch>> /\ run[g] = "clear"
      BY <1>10 DEF GroupClear, GroupClearPanics
    <2>2. lazyError => lazyError'
      BY <1>10 DEF GroupClear, GroupClearPanics, Panic
    <2>3. \A h \in Groups \ {g} : todo'[h] = todo[h]
      BY <1>10 DEF GroupClear, GroupClearPanics, Panic, Types
    <2>4. \A n \in todo[g] : \A r \in RowsIn(n, g) : Done(n, r)
      BY <2>1 DEF GroupGoroutines, GroupGoroutine
    <2>5. \A h \in Groups : \A n \in todo[h] \ todo'[h] : h = g
      BY <2>3
    <2>6. \A h \in Groups : \A n \in todo[h] \ todo'[h] : \A r \in RowsIn(n, h) : Done(n, r)
      BY <2>4, <2>5
    <2> QED
      BY <2>1, <2>2, <2>6, <1>b, Zenon
  <1>11. CASE UNCHANGED vars
    BY <1>11, <1>b DEF vars, groupVars
  <1> QED
    BY <1>1, <1>2, <1>3, <1>4, <1>5, <1>6, <1>7, <1>8, <1>9, <1>10, <1>11 DEF Next, Consumer, LoadStep

-----------------------------------------------------------------------------
(* What is acknowledged.                                                   *)

\* Why row r of an acknowledged event n may be missing from the database.
Covered(n, r) ==
    \/ Done(n, r)
    \/ Spans(n) /\ (n \in todo[GroupOf(n, r)] \/ Excused)

LEMMA AckedCovered == AckedIsExecuted <=> \A n \in acked : \A r \in Rows \cap RowsOf(n) : Covered(n, r)
  <1>1. ASSUME NEW n, NEW r
        PROVE  Covered(n, r) <=> (\/ <<n, r>> \in executed \cup givenUp
                                  \/ Spans(n) /\ (n \in todo[GroupOf(n, r)] \/ Excused))
    BY Zenon DEF Covered, Done
  <1> QED
    BY <1>1, Zenon DEF AckedIsExecuted

LEMMA AckedStep ==
  /\ Types /\ Values /\ InsertGoroutines /\ InsertsRun /\ GroupGoroutines /\ GroupsRun
  /\ AckedIsExecuted /\ [Next]_vars
  => AckedIsExecuted'
  <1> SUFFICES ASSUME Types, Values, InsertGoroutines, InsertsRun, GroupGoroutines, GroupsRun,
                      AckedIsExecuted, [Next]_vars
               PROVE  \A n \in acked' : \A r \in Rows \cap RowsOf(n)' : Covered(n, r)'
    BY Zenon DEF AckedIsExecuted, Covered, Done
  <1>a. \A n \in acked : n \in 1 .. Len(events)
    BY DEF Types
  \* A covered row stays covered if its group keeps the event, or has done it, or failed.
  <1>b. ASSUME NEW n \in 1 .. Len(events), NEW r \in Rows, Covered(n, r),
               n \in todo[GroupOf(n, r)] =>
                  n \in todo'[GroupOf(n, r)] \/ Done(n, r) \/ Excused'
        PROVE  Covered(n, r)'
    <2>1. /\ Done(n, r) => Done(n, r)'
          /\ Excused => Excused'
          /\ GroupOf(n, r)' = GroupOf(n, r) /\ (Spans(n)' <=> Spans(n))
      BY Kept
    <2> QED
      BY <1>b, <2>1, Zenon DEF Covered
  <1>c. ASSUME \A g \in Groups : \A n \in todo[g] \ todo'[g] : \A r \in RowsIn(n, g) :
                  Done(n, r) \/ Excused',
               NEW n \in acked, NEW r \in Rows \cap RowsOf(n)'
        PROVE  Covered(n, r)'
    <2>1. n \in 1 .. Len(events) /\ r \in RowsOf(n)
      BY <1>a, Kept
    <2>2. Covered(n, r)
      BY <2>1, AckedCovered
    <2>3. GroupOf(n, r) \in Groups /\ r \in RowsIn(n, GroupOf(n, r))
      BY <2>1, GroupOfGroups DEF RowsIn
    <2>4. n \in todo[GroupOf(n, r)] =>
             n \in todo'[GroupOf(n, r)] \/ Done(n, r) \/ Excused'
      BY <1>c, <2>3
    <2> QED
      BY <1>b, <2>1, <2>2, <2>4
  <1>d. ASSUME acked' = acked,
               \A g \in Groups : \A n \in todo[g] \ todo'[g] : \A r \in RowsIn(n, g) :
                  Done(n, r) \/ Excused'
        PROVE  \A n \in acked' : \A r \in Rows \cap RowsOf(n)' : Covered(n, r)'
    BY <1>c, <1>d
  <1> DEFINE Goal == \A n \in acked' : \A r \in Rows \cap RowsOf(n)' : Covered(n, r)'
  <1> HIDE DEF Goal
  <1> SUFFICES Goal
    BY DEF Goal
  <1>e. ASSUME acked' = acked, todo' = todo \/ Excused' PROVE Goal
    BY <1>d, <1>e DEF Goal
  <1>1. ASSUME NEW changes \in Flushes, FlushLazy(changes) PROVE Goal
    BY <1>1, <1>e DEF FlushLazy, groupVars
  <1>2. CASE LoadStep
    BY <1>2, <1>e, LoadLeaves
  <1>3. CASE Take
    BY <1>3, <1>e DEF Take, groupVars, streamVars
  <1>4. CASE InsertsDone
    <2>1. \A g \in Groups : todo[g] = {}
      BY <1>4 DEF InsertsDone, GroupGoroutines, GroupGoroutine
    <2> QED
      BY <1>4, <2>1, <1>d DEF InsertsDone, streamVars, Goal
  <1>5. ASSUME NEW p \in Pools, Query(p) \/ Clear(p) PROVE Goal
    <2>1. acked' = acked /\ todo' = todo
      BY <1>5 DEF Query, Clear, groupVars, streamVars
    <2> QED
      BY <2>1, <1>e
  <1>6. ASSUME NEW p \in Pools, QueryPanics(p) \/ ClearPanics(p) PROVE Goal
    <2>1. acked' = acked /\ Restart /\ left[p] # {}
      BY <1>6, LeastKept DEF QueryPanics, ClearPanics, Die, streamVars
    <2>2. \A g \in Groups : todo[g] = {}
      BY <2>1 DEF InsertGoroutines, InsertGoroutine, GroupGoroutines, GroupGoroutine
    <2>3. todo' = todo
      <3>1. todo' = [g \in Groups |-> {}]
        BY <2>1, RestartTypes
      <3>2. todo = [g \in Groups |-> todo[g]]
        BY DEF Types
      <3> QED
        BY <2>2, <3>1, <3>2
    <2> QED
      BY <2>1, <2>3, <1>e
  <1>7. CASE Crash
    <2>1. acked' = acked /\ Excused'
      BY <1>7 DEF Crash, streamVars, Excused, Types
    <2> QED
      BY <2>1, <1>e
  <1>8. ASSUME NEW p \in Pools, Ack(p) PROVE Goal
    <2>1. PICK n \in Least(left[p]) : at[p] = "ack" /\ acked' = acked \cup {n}
      BY <1>8 DEF Ack
    <2>2. todo' = todo
      BY <1>8 DEF Ack, groupVars
    <2>3. n \in 1 .. Len(events)
      BY LeastKept DEF Types
    <2>4. \A r \in RowsOf(n) : Done(n, r)
      BY <2>1 DEF InsertGoroutines, InsertGoroutine
    <2>5. \A r \in RowsOf(n)' : Covered(n, r)'
      BY <2>3, <2>4, Kept DEF Covered
    <2> QED
      BY <2>1, <2>2, <2>5, <1>c DEF Goal
  <1>9. ASSUME NEW g \in Groups, Execute(g) PROVE Goal
    BY <1>9, <1>e DEF Execute, streamVars
  <1>10. ASSUME NEW g \in Groups, Refused(g) \/ Fails(g) PROVE Goal
    <2>1. acked' = acked
      BY <1>10 DEF Refused, Fails, streamVars
    <2>2. CASE Fails(g)
      <3>1. Excused'
        BY <2>2 DEF Fails, Types, Excused
      <3> QED
        BY <2>1, <3>1, <1>e
    <2>3. CASE Refused(g)
      <3>1. CASE poisoned' = TRUE
        <4>1. Excused'
          BY <2>3, <3>1, RefusedExcused
        <4> QED
          BY <2>1, <4>1, <1>e
      <3>2. CASE LetGo(g)
        <4>1. todo' = todo
          BY <3>2 DEF LetGo
        <4> QED
          BY <2>1, <4>1, <1>e
      <3> QED
        BY <2>3, <3>1, <3>2 DEF Refused
    <2> QED
      BY <1>10, <2>2, <2>3
  <1>11. ASSUME NEW g \in Groups, GroupAck(g) PROVE Goal
    <2>1. PICK n \in Least(todo[g]) : run[g] = "ack" /\ acked' = acked \cup {n}
      BY <1>11 DEF GroupAck
    <2>2. UNCHANGED <<todo, executed, givenUp, events, faults, poisoned>>
      BY <1>11 DEF GroupAck, historyVars
    <2>3. n \in todo[g] /\ n \in 1 .. Len(events)
      BY LeastKept DEF Types
    <2>4. /\ n \in batch /\ ~IsInsert(n) /\ RowsIn(n, g) # {} /\ phase = "groups"
          /\ \A r \in RowsIn(n, g) : Done(n, r)
      BY <2>1, <2>3 DEF GroupGoroutines, GroupGoroutine
    <2>5. ASSUME NEW r \in RowsOf(n) PROVE Covered(n, r)
      <3>1. CASE GroupOf(n, r) = g
        BY <2>4, <3>1 DEF RowsIn, Covered
      <3>2. CASE GroupOf(n, r) # g
        <4>1. PICK s \in RowsOf(n) : GroupOf(n, s) = g
          BY <2>4 DEF RowsIn
        <4>2. Spans(n)
          BY <2>4, <3>2, <4>1 DEF Spans
        <4>3. \/ n \in todo[GroupOf(n, r)] \/ Done(n, r)
              \/ lazyError /\ Excused
          BY <2>4 DEF GroupsRun
        <4> QED
          BY <4>2, <4>3, Zenon DEF Covered
      <3> QED
        BY <3>1, <3>2
    <2>6. ASSUME NEW r \in Rows \cap RowsOf(n)' PROVE Covered(n, r)'
      <3>1. r \in RowsOf(n)
        BY <2>3, Kept
      <3>2. Covered(n, r)
        BY <2>5, <3>1
      <3> QED
        BY <2>2, <2>3, <3>2, <1>b
    <2> QED
      BY <2>1, <2>2, <2>6, <1>c DEF Goal
  <1>12. ASSUME NEW g \in Groups, GroupClear(g) \/ GroupClearPanics(g) PROVE Goal
    <2>1. acked' = acked /\ run[g] = "clear"
      BY <1>12 DEF GroupClear, GroupClearPanics, streamVars
    <2>2. \A h \in Groups \ {g} : todo'[h] = todo[h]
      BY <1>12 DEF GroupClear, GroupClearPanics, Panic, Types
    <2>3. \A n \in todo[g] : \A r \in RowsIn(n, g) : Done(n, r)
      BY <2>1 DEF GroupGoroutines, GroupGoroutine
    <2>4. \A h \in Groups : \A n \in todo[h] \ todo'[h] : \A r \in RowsIn(n, h) : Done(n, r)
      <3>1. \A h \in Groups : \A n \in todo[h] \ todo'[h] : h = g
        BY <2>2
      <3> QED
        BY <2>3, <3>1
    <2> QED
      BY <2>1, <2>4, <1>d DEF Goal
  <1>13. CASE BatchDone
    <2>1. /\ phase = "groups" /\ Restart /\ UNCHANGED <<events, faults>>
          /\ \A g \in Groups : todo[g] = {}
      BY <1>13 DEF BatchDone, GroupGoroutines, GroupGoroutine
    <2>2. CASE lazyError = TRUE
      BY <1>13, <2>1, <2>2, <1>d DEF BatchDone, Goal
    <2>3. CASE lazyError = FALSE
      <3>1. acked' = acked \cup batch
        BY <1>13, <2>3 DEF BatchDone
      <3>2. ASSUME NEW n \in batch, NEW r \in RowsOf(n) PROVE Done(n, r)
        <4>1. n \in 1 .. Len(events) /\ r \in Rows
          BY EventRows DEF Types
        <4>2. CASE IsInsert(n)
          <5>1. \A p \in Pools : left[p] = {}
            BY <2>1 DEF InsertGoroutines, InsertGoroutine
          <5> QED
            BY <4>2, <5>1 DEF InsertsRun
        <4>3. CASE ~IsInsert(n)
          <5>1. GroupOf(n, r) \in Groups
            BY <4>1, GroupOfGroups
          <5>2. n \notin todo[GroupOf(n, r)]
            BY <2>1, <5>1
          <5> QED
            BY <2>1, <2>3, <4>3, <5>2 DEF GroupsRun
        <4> QED
          BY <4>2, <4>3
      <3>3. \A n \in batch : \A r \in RowsOf(n)' : Covered(n, r)'
        <4>1. \A n \in batch : n \in 1 .. Len(events)
          BY DEF Types
        <4> QED
          BY <3>2, <4>1, Kept DEF Covered
      <3> QED
        BY <2>1, <3>1, <3>3, <1>c DEF Goal
    <2> QED
      BY <2>2, <2>3 DEF Types
  <1>14. CASE UNCHANGED vars
    BY <1>14, <1>e DEF vars, groupVars, streamVars
  <1> QED
    BY <1>1, <1>2, <1>3, <1>4, <1>5, <1>6, <1>7, <1>8, <1>9, <1>10, <1>11, <1>12, <1>13, <1>14
       DEF Next, Consumer, LoadStep

-----------------------------------------------------------------------------
LEMMA LazyInit == Init => LazyInv
  <1> SUFFICES ASSUME Init PROVE LazyInv
    OBVIOUS
  <1>1. InsertGoroutines
    BY DEF Init, InsertGoroutines, InsertGoroutine, Least
  <1>2. GroupGoroutines
    BY DEF Init, GroupGoroutines, GroupGoroutine
  <1>3. InsertsRun /\ GroupsRun /\ AckedIsExecuted
    BY DEF Init, InsertsRun, GroupsRun, AckedIsExecuted
  <1>4. LoadsOK
    BY DEF Init, LoadsOK
  <1> QED
    BY <1>1, <1>2, <1>3, <1>4, TypesInit, ValuesInit DEF LazyInv

LEMMA LazyStep == LazyInv /\ [Next]_vars => LazyInv'
  BY TypesStep, ValuesStep, LoadsStep, InsertGoroutinesStep, InsertsRunStep, GroupGoroutinesStep,
     GroupsRunStep, AckedStep DEF LazyInv

\* The inductive invariant of the consumer: its goroutines split the events of a batch
\* among them, and what has left a goroutine is done or its failure is known.
THEOREM LazyInvariant == Spec => []LazyInv
  BY LazyStep, LazyInit, PTL DEF Spec

\* Every variable keeps its type, whatever values a transaction leaves.
THEOREM TypesHold == Spec => []TypeOK
  <1>1. Types /\ Values /\ LoadsOK => TypeOK
    BY DEF Types, Values, LoadsOK, ValueSet, TypeOK
  <1>2. LazyInv => TypeOK
    BY <1>1 DEF LazyInv
  <1> QED
    BY <1>2, LazyInvariant, PTL

\* Digest acknowledges an event after its statements ran or a resolver let them go,
\* for any batch size, modulo, pools and resolvers; only an event spread over several
\* groups is acknowledged by the first of them.
THEOREM AckedIsDone == Spec => []AckedIsExecuted
  <1>1. LazyInv => AckedIsExecuted
    BY DEF LazyInv
  <1> QED
    BY <1>1, LazyInvariant, PTL

-----------------------------------------------------------------------------
(* The batch: its events are the oldest not acknowledged, and each is      *)
(* acknowledged by whoever works on it.                                    *)

Unacked == (1 .. Len(events)) \ acked

\* An insert event is with one goroutine until that acknowledges it.
LeftUnacked ==
    \A p \in Pools : /\ left[p] \cap acked = {}
                     /\ \A q \in Pools : q # p => left[p] \cap left[q] = {}

InsertsHeld ==
    \A n \in batch : IsInsert(n) => n \in acked \/ \E p \in Pools : n \in left[p]

\* The other events are acknowledged when the inserts are done, by a group that has
\* them, unless it panicked.
OthersUnacked == phase = "inserts" => \A n \in batch : ~IsInsert(n) => n \notin acked

OthersHeld ==
    phase = "groups" =>
        \A g \in Groups : \A n \in batch :
            ~IsInsert(n) /\ RowsIn(n, g) # {} =>
               n \in todo[g] \/ n \in acked \/ (lazyError /\ todo[g] = {})

\* No event before one of the batch waits outside it.
BatchIsFirst ==
    \A n \in batch : /\ \A m \in Unacked : m < n => m \in batch
                     /\ n \in acked \/ n \in FirstN(Unacked, Count)

\* A group clears what it acknowledged; another's event it has is spread over both.
GroupsAck ==
    \A g \in Groups :
        /\ run[g] = "clear" => Least(todo[g]) \subseteq acked
        /\ \A n \in todo[g] \cap acked :
              Spans(n) \/ (run[g] = "clear" /\ n \in Least(todo[g]))

ErrorIsExplained == lazyError => faults > 0 \/ \E n \in 1 .. Len(events) : Mixed(n)

BatchInv ==
    /\ LeftUnacked /\ InsertsHeld /\ OthersUnacked /\ OthersHeld /\ BatchIsFirst
    /\ GroupsAck /\ ErrorIsExplained

-----------------------------------------------------------------------------
(* What a step does to the batch.                                          *)

\* It leaves the batch and its goroutines alone, but for the place of an insert
\* goroutine in its event.
Quiet == UNCHANGED <<acked, phase, batch, left, run, todo, lazyError>>

\* The transaction of group g is over.
Goes(g) ==
    /\ run[g] = "query" /\ run' = [run EXCEPT ![g] = "ack"]
    /\ UNCHANGED <<acked, phase, batch, left, todo, lazyError>>

\* Group g panics: because of a fault, or of an event that mixes an insert with others.
Falls(g) ==
    /\ run[g] \in {"query", "clear"} /\ Panic(g)
    /\ faults' > 0 \/ \E n \in 1 .. Len(events) : Mixed(n)
    /\ UNCHANGED <<acked, phase, batch, left>>

\* The process dies: in the goroutine of an insert, or by a fault.
Dies ==
    /\ Restart /\ UNCHANGED acked
    /\ phase = "inserts" \/ (phase # "idle" /\ faults' > 0)

LEMMA Kinds ==
  ASSUME LazyInv, [Next]_vars
  PROVE  \/ Quiet \/ Take \/ InsertsDone \/ BatchDone \/ Dies
         \/ \E p \in Pools : Ack(p)
         \/ \E g \in Groups : Goes(g) \/ Falls(g) \/ GroupAck(g) \/ GroupClear(g)
  <1> DEFINE Goal == \/ Quiet \/ Take \/ InsertsDone \/ BatchDone \/ Dies
                     \/ \E p \in Pools : Ack(p)
                     \/ \E g \in Groups : Goes(g) \/ Falls(g) \/ GroupAck(g) \/ GroupClear(g)
  <1>a. Types /\ Values /\ GroupGoroutines /\ InsertGoroutines
    BY DEF LazyInv
  <1>1. ASSUME NEW changes \in Flushes, FlushLazy(changes) PROVE Quiet
    BY <1>1 DEF FlushLazy, insertVars, groupVars, Quiet
  <1>2. CASE LoadStep
    BY <1>2, LoadLeaves DEF Quiet
  <1>3. ASSUME NEW p \in Pools, Query(p) \/ Clear(p) PROVE Quiet
    BY <1>3 DEF Query, Clear, streamVars, groupVars, Quiet
  <1>4. ASSUME NEW p \in Pools, QueryPanics(p) \/ ClearPanics(p) PROVE Dies
    <2>1. Restart /\ UNCHANGED acked /\ left[p] # {}
      BY <1>4, LeastKept DEF QueryPanics, ClearPanics, Die, streamVars
    <2> QED
      BY <1>a, <2>1 DEF InsertGoroutines, InsertGoroutine, Dies
  <1>5. CASE Crash
    <2>1. faults' > 0
      BY <1>5, <1>a DEF Crash, Types
    <2> QED
      BY <1>5, <2>1 DEF Crash, Die, streamVars, Dies
  <1>6. ASSUME NEW g \in Groups, Execute(g) PROVE Goes(g)
    BY <1>6 DEF Execute, streamVars, insertVars, Goes
  <1>7. ASSUME NEW g \in Groups, Refused(g) \/ Fails(g) PROVE Goes(g) \/ Falls(g)
    <2>1. run[g] = "query" /\ UNCHANGED <<acked, phase, batch, left>>
      BY <1>7 DEF Refused, Fails, streamVars, insertVars
    <2>2. CASE LetGo(g)
      BY <2>1, <2>2 DEF LetGo, Goes
    <2>3. CASE Panic(g) /\ Fails(g)
      <3>1. faults' > 0
        BY <2>3, <1>a DEF Fails, Types
      <3> QED
        BY <2>1, <2>3, <3>1 DEF Falls
    <2>4. CASE Panic(g) /\ Refused(g)
      <3>1. PICK n \in todo[g] : Inserted(n) # {}
        BY <2>4, <1>a, OutcomeFacts DEF Refused, Follows
      <3>2. n \in 1 .. Len(events) /\ ~IsInsert(n)
        BY <1>a DEF Types, GroupGoroutines, GroupGoroutine
      <3>3. Mixed(n)
        BY <3>1, <3>2 DEF IsInsert, Mixed, Inserted
      <3> QED
        BY <2>1, <2>4, <3>2, <3>3 DEF Falls
    <2> QED
      BY <1>7, <2>2, <2>3, <2>4 DEF Refused, Fails
  <1>8. ASSUME NEW g \in Groups, GroupClearPanics(g) PROVE Falls(g)
    <2>1. PICK n \in Least(todo[g]) : Inserted(n) # {}
      BY <1>8 DEF GroupClearPanics
    <2>2. n \in 1 .. Len(events) /\ ~IsInsert(n)
      BY <1>a, LeastKept DEF Types, GroupGoroutines, GroupGoroutine
    <2>3. Mixed(n)
      BY <2>1, <2>2 DEF IsInsert, Mixed, Inserted
    <2>4. /\ run[g] = "clear" /\ Panic(g) /\ UNCHANGED <<acked, phase, batch, left>>
      BY <1>8 DEF GroupClearPanics, streamVars, insertVars
    <2> QED
      BY <2>2, <2>3, <2>4 DEF Falls
  <1>9. CASE UNCHANGED vars
    BY <1>9 DEF vars, streamVars, insertVars, groupVars, Quiet
  <1> HIDE DEF Goal
  <1> SUFFICES Goal
    BY DEF Goal
  <1>10. /\ Quiet \/ Dies \/ Take \/ InsertsDone \/ BatchDone => Goal
         /\ \A p \in Pools : Ack(p) => Goal
         /\ \A g \in Groups : Goes(g) \/ Falls(g) \/ GroupAck(g) \/ GroupClear(g) => Goal
    BY DEF Goal
  <1> QED
    BY <1>1, <1>2, <1>3, <1>4, <1>5, <1>6, <1>7, <1>8, <1>9, <1>10 DEF Next, Consumer, LoadStep

\* What the kinds do, for one goroutine.
LEMMA GroupKinds ==
  ASSUME Types, NEW g \in Groups, Goes(g) \/ Falls(g) \/ GroupAck(g) \/ GroupClear(g)
  PROVE  /\ UNCHANGED <<phase, batch, left>>
         /\ \A h \in Groups \ {g} : run'[h] = run[h] /\ todo'[h] = todo[h]
         /\ \A h \in Groups : todo'[h] \subseteq todo[h]
         /\ run'[g] \in {"ack", "done", "clear"}
         /\ run'[g] = "clear" => GroupAck(g)
         /\ lazyError => lazyError'
         /\ acked \subseteq acked'
  <1>1. CASE Goes(g)
    BY <1>1 DEF Goes, Types
  <1>2. CASE Falls(g)
    BY <1>2 DEF Falls, Panic, Types
  <1>3. CASE GroupAck(g)
    BY <1>3 DEF GroupAck, insertVars, Types
  <1>4. CASE GroupClear(g)
    BY <1>4 DEF GroupClear, insertVars, streamVars, Types
  <1> QED
    BY <1>1, <1>2, <1>3, <1>4

LEMMA AckedGrows == ASSUME LazyInv, [Next]_vars PROVE acked \subseteq acked'
  <1>1. Quiet \/ Take \/ InsertsDone \/ BatchDone \/ Dies => acked \subseteq acked'
    BY DEF Quiet, Take, InsertsDone, BatchDone, Dies, streamVars
  <1>2. \A p \in Pools : Ack(p) => acked \subseteq acked'
    BY DEF Ack
  <1>3. \A g \in Groups :
           Goes(g) \/ Falls(g) \/ GroupAck(g) \/ GroupClear(g) => acked \subseteq acked'
    BY GroupKinds DEF LazyInv
  <1> QED
    BY <1>1, <1>2, <1>3, Kinds

-----------------------------------------------------------------------------
(* The oldest events stay the oldest.                                      *)

LEMMA FirstKept ==
  ASSUME Types, NEW n \in FirstN(Unacked, Count), n \notin acked', acked \subseteq acked',
         1 .. Len(events) \subseteq 1 .. Len(events'), Len(events') \in Nat
  PROVE  n \in FirstN(Unacked, Count)'
  <1> DEFINE N == Len(events)
             M == Len(events')
             A == acked
             B == acked'
             before == {j \in (1 .. N) \ A : j < n}
             after == {j \in (1 .. M) \ B : j < n}
  <1>1. N \in Nat /\ M \in Nat /\ A \subseteq B /\ n \in (1 .. N) \ A /\ n \notin B
        /\ 1 .. N \subseteq 1 .. M
    BY DEF Types, FirstN, Unacked
  <1>2. Cardinality(before) < Count
    BY DEF FirstN, Unacked
  <1> HIDE DEF N, M, A, B
  <1>3. after \subseteq before
    BY <1>1
  <1>4. IsFiniteSet(before)
    <2>1. IsFiniteSet(1 .. N)
      BY <1>1, FS_Interval
    <2>2. before \subseteq 1 .. N
      OBVIOUS
    <2> QED
      BY <2>1, <2>2, FS_Subset
  <1>5. /\ Cardinality(after) \in Nat /\ Cardinality(before) \in Nat
        /\ Cardinality(after) <= Cardinality(before)
    BY <1>3, <1>4, FS_Subset, FS_CardinalityType
  <1>6. Count \in Nat
    BY SizesAssumption
  <1>7. Cardinality(after) < Count
    BY <1>2, <1>5, <1>6
  <1>8. n \in (1 .. M) \ B
    BY <1>1
  <1> QED
    BY <1>7, <1>8 DEF FirstN, Unacked, M, B

\* The least members of a set of numbers that holds n are not above n.
LEMMA FirstPrefix ==
  ASSUME NEW S \in SUBSET Nat, IsFiniteSet(S), NEW n \in FirstN(S, Count), NEW m \in S, m < n
  PROVE  m \in FirstN(S, Count)
  <1> DEFINE low == {j \in S : j < m}
             high == {j \in S : j < n}
  <1>1. n \in S /\ Cardinality(high) < Count
    BY DEF FirstN
  <1>2. low \subseteq high
    <2>1. \A j \in S : j \in Nat
      OBVIOUS
    <2>2. \A j \in S : j < m => j < n
      BY <1>1, <2>1
    <2> QED
      BY <2>2
  <1>3. IsFiniteSet(high)
    BY FS_Subset
  <1>4. /\ Cardinality(low) \in Nat /\ Cardinality(high) \in Nat
        /\ Cardinality(low) <= Cardinality(high)
    BY <1>2, <1>3, FS_Subset, FS_CardinalityType
  <1>5. Cardinality(low) < Count
    BY <1>1, <1>4, SizesAssumption
  <1> QED
    BY <1>5 DEF FirstN

LEMMA UnackedFinite == ASSUME Types PROVE Unacked \in SUBSET Nat /\ IsFiniteSet(Unacked)
  <1>1. Len(events) \in Nat
    BY DEF Types
  <1>2. IsFiniteSet(1 .. Len(events))
    BY <1>1, FS_Interval
  <1>3. Unacked \subseteq 1 .. Len(events)
    BY DEF Unacked
  <1>4. IsFiniteSet(Unacked)
    BY <1>2, <1>3, FS_Subset
  <1> QED
    BY <1>1, <1>3, <1>4

-----------------------------------------------------------------------------
(* The batch stays in order.                                               *)

LEMMA LeftUnackedStep == LazyInv /\ BatchInv /\ [Next]_vars => LeftUnacked'
  <1> SUFFICES ASSUME LazyInv, LeftUnacked, [Next]_vars PROVE LeftUnacked'
    BY DEF BatchInv
  <1>a. Types /\ InsertGoroutines /\ GroupGoroutines
    BY DEF LazyInv
  <1>b. (\A p \in Pools : left'[p] = {}) => LeftUnacked'
    BY DEF LeftUnacked
  <1>1. CASE Quiet
    BY <1>1 DEF Quiet, LeftUnacked
  <1>2. CASE Take
    <2>1. PICK first \in [{n \in batch' : IsInsert(n)} -> Pools] :
             left' = [p \in Pools |-> {n \in DOMAIN first : first[n] = p}]
      BY <1>2 DEF Take
    <2>2. acked' = acked /\ batch' \cap acked = {}
      BY <1>2 DEF Take, FirstN, streamVars
    <2> QED
      BY <2>1, <2>2 DEF LeftUnacked
  <1>3. CASE InsertsDone
    BY <1>3 DEF InsertsDone, streamVars, insertVars, LeftUnacked
  <1>4. CASE BatchDone \/ Dies
    <2>1. Restart
      BY <1>4 DEF BatchDone, Dies
    <2> QED
      BY <2>1, <1>b, RestartTypes
  <1>5. ASSUME NEW p \in Pools, Ack(p) PROVE LeftUnacked'
    <2>1. PICK n \in left[p] : /\ acked' = acked \cup {n}
                               /\ left' = [left EXCEPT ![p] = @ \ {n}]
      BY <1>5, LeastKept DEF Ack
    <2> QED
      BY <1>a, <2>1 DEF Types, LeftUnacked
  <1>6. ASSUME NEW g \in Groups, Goes(g) \/ Falls(g) \/ GroupClear(g) PROVE LeftUnacked'
    BY <1>6 DEF Goes, Falls, GroupClear, streamVars, insertVars, LeftUnacked
  <1>7. ASSUME NEW g \in Groups, GroupAck(g) PROVE LeftUnacked'
    <2>1. todo[g] # {} /\ left' = left
      BY <1>7, LeastKept DEF GroupAck, insertVars
    <2>2. \A p \in Pools : left'[p] = {}
      BY <1>a, <2>1 DEF GroupGoroutines, GroupGoroutine, InsertGoroutines, InsertGoroutine
    <2> QED
      BY <2>2, <1>b
  <1> QED
    BY <1>1, <1>2, <1>3, <1>4, <1>5, <1>6, <1>7, Kinds

LEMMA InsertsHeldStep == LazyInv /\ BatchInv /\ [Next]_vars => InsertsHeld'
  <1> SUFFICES ASSUME LazyInv, InsertsHeld, [Next]_vars PROVE InsertsHeld'
    BY DEF BatchInv
  <1>a. Types
    BY DEF LazyInv
  <1>b. ASSUME batch' = batch, \A p \in Pools : left[p] \ left'[p] \subseteq acked'
        PROVE  InsertsHeld'
    <2> SUFFICES ASSUME NEW n \in batch, IsInsert(n)', n \notin acked'
                 PROVE  \E p \in Pools : n \in left'[p]
      BY <1>b DEF InsertsHeld
    <2>1. n \in 1 .. Len(events) /\ IsInsert(n) /\ n \notin acked
      BY <1>a, Kept, AckedGrows DEF Types
    <2>2. PICK p \in Pools : n \in left[p]
      BY <2>1 DEF InsertsHeld
    <2> QED
      BY <1>b, <2>2
  <1>1. CASE Quiet
    BY <1>1, <1>b DEF Quiet
  <1>2. CASE Take
    <2>1. PICK first \in [{n \in batch' : IsInsert(n)} -> Pools] :
             left' = [p \in Pools |-> {n \in DOMAIN first : first[n] = p}]
      BY <1>2 DEF Take
    <2>2. \A n \in batch' : n \in 1 .. Len(events)
      BY <1>2 DEF Take, FirstN
    <2>3. \A n \in batch' : IsInsert(n)' <=> IsInsert(n)
      BY <1>a, <2>2, Kept
    <2>4. \A n \in batch' : IsInsert(n) => first[n] \in Pools /\ n \in left'[first[n]]
      BY <2>1
    <2> QED
      BY <2>3, <2>4 DEF InsertsHeld
  <1>3. CASE InsertsDone
    BY <1>3, <1>b DEF InsertsDone, insertVars
  <1>4. CASE BatchDone \/ Dies
    <2>1. Restart
      BY <1>4 DEF BatchDone, Dies
    <2> QED
      BY <2>1, RestartTypes DEF InsertsHeld
  <1>5. ASSUME NEW p \in Pools, Ack(p) PROVE InsertsHeld'
    <2>1. PICK n \in left[p] : /\ acked' = acked \cup {n}
                               /\ left' = [left EXCEPT ![p] = @ \ {n}]
      BY <1>5, LeastKept DEF Ack
    <2>2. batch' = batch
      BY <1>5 DEF Ack
    <2> QED
      BY <1>a, <1>b, <2>1, <2>2 DEF Types
  <1>6. ASSUME NEW g \in Groups, Goes(g) \/ Falls(g) \/ GroupAck(g) \/ GroupClear(g)
        PROVE  InsertsHeld'
    BY <1>6, <1>a, <1>b, GroupKinds
  <1> QED
    BY <1>1, <1>2, <1>3, <1>4, <1>5, <1>6, Kinds

LEMMA OthersUnackedStep == LazyInv /\ BatchInv /\ [Next]_vars => OthersUnacked'
  <1> SUFFICES ASSUME LazyInv, OthersUnacked, [Next]_vars, phase' = "inserts",
                      NEW n \in batch', ~IsInsert(n)'
               PROVE  n \notin acked'
    BY DEF BatchInv, OthersUnacked
  <1>a. Types /\ InsertGoroutines /\ GroupGoroutines
    BY DEF LazyInv
  <1>1. CASE Quiet
    <2>1. n \in batch /\ n \in 1 .. Len(events) /\ acked' = acked /\ phase = "inserts"
      BY <1>1, <1>a DEF Quiet, Types
    <2> QED
      BY <1>a, <2>1, Kept DEF OthersUnacked
  <1>2. CASE Take
    BY <1>2 DEF Take, FirstN, streamVars
  <1>3. CASE InsertsDone \/ BatchDone \/ Dies
    BY <1>3, RestartTypes DEF InsertsDone, BatchDone, Dies
  <1>4. ASSUME NEW p \in Pools, Ack(p) PROVE n \notin acked'
    <2>1. PICK m \in left[p] : acked' = acked \cup {m}
      BY <1>4, LeastKept DEF Ack
    <2>2. UNCHANGED <<phase, batch>>
      BY <1>4 DEF Ack
    <2>3. n \in 1 .. Len(events) /\ ~IsInsert(n)
      BY <1>a, <2>2, Kept DEF Types
    <2>4. IsInsert(m)
      BY <1>a DEF InsertGoroutines, InsertGoroutine
    <2> QED
      BY <2>1, <2>2, <2>3, <2>4 DEF OthersUnacked
  <1>5. ASSUME NEW g \in Groups, Goes(g) \/ Falls(g) \/ GroupAck(g) \/ GroupClear(g)
        PROVE  n \notin acked'
    <2>1. phase = "inserts"
      BY <1>5, <1>a, GroupKinds
    <2>2. todo[g] = {} /\ run[g] = "done"
      BY <1>a, <2>1 DEF GroupGoroutines, GroupGoroutine
    <2> QED
      BY <1>5, <2>2 DEF Goes, Falls, GroupAck, GroupClear
  <1> QED
    BY <1>1, <1>2, <1>3, <1>4, <1>5, Kinds

LEMMA OthersHeldStep == LazyInv /\ BatchInv /\ [Next]_vars => OthersHeld'
  <1> SUFFICES ASSUME LazyInv, BatchInv, [Next]_vars, phase' = "groups",
                      NEW h \in Groups, NEW n \in batch', ~IsInsert(n)', RowsIn(n, h)' # {},
                      n \notin acked'
               PROVE  n \in todo'[h] \/ (lazyError' /\ todo'[h] = {})
    BY DEF OthersHeld
  <1>a. Types /\ GroupGoroutines /\ OthersHeld /\ GroupsAck
    BY DEF LazyInv, BatchInv
  \* A group that has an event keeps it, or acknowledged it, or panics.
  <1>b. ASSUME UNCHANGED <<phase, batch>>, lazyError => lazyError',
               \/ todo'[h] = todo[h] \/ (lazyError' /\ todo'[h] = {})
               \/ todo'[h] \subseteq todo[h] /\ todo[h] \ todo'[h] \subseteq acked
        PROVE  n \in todo'[h] \/ (lazyError' /\ todo'[h] = {})
    <2>1. n \in 1 .. Len(events) /\ n \notin acked
      BY <1>a, <1>b, AckedGrows DEF Types
    <2>2. ~IsInsert(n) /\ RowsIn(n, h) # {}
      BY <1>a, <2>1, Kept
    <2>3. n \in todo[h] \/ (lazyError /\ todo[h] = {})
      BY <1>a, <1>b, <2>1, <2>2 DEF OthersHeld
    <2> QED
      BY <1>b, <2>1, <2>3
  <1>1. CASE Quiet
    BY <1>1, <1>b DEF Quiet
  <1>2. CASE Take \/ BatchDone \/ Dies
    BY <1>2, RestartTypes DEF Take, BatchDone, Dies
  <1>3. CASE InsertsDone
    <2>1. events' = events /\ batch' = batch
      BY <1>3 DEF InsertsDone, streamVars
    <2>2. ~IsInsert(n) /\ RowsIn(n, h) # {}
      BY <2>1, SameEvent
    <2> QED
      BY <1>3, <2>1, <2>2 DEF InsertsDone
  <1>4. ASSUME NEW p \in Pools, Ack(p) PROVE n \in todo'[h] \/ (lazyError' /\ todo'[h] = {})
    BY <1>4, <1>b DEF Ack, groupVars
  <1>5. ASSUME NEW g \in Groups, Goes(g) \/ Falls(g) \/ GroupAck(g) \/ GroupClear(g)
        PROVE  n \in todo'[h] \/ (lazyError' /\ todo'[h] = {})
    <2>1. /\ UNCHANGED <<phase, batch>> /\ (lazyError => lazyError')
          /\ h # g => todo'[h] = todo[h]
      BY <1>5, <1>a, GroupKinds
    <2>2. CASE h = g /\ (Goes(g) \/ GroupAck(g))
      BY <2>1, <2>2, <1>b DEF Goes, GroupAck
    <2>3. CASE h = g /\ Falls(g)
      <3>1. lazyError' /\ todo'[h] = {}
        BY <1>a, <2>3 DEF Falls, Panic, Types
      <3> QED
        BY <3>1
    <2>4. CASE h = g /\ GroupClear(g)
      <3>1. PICK m \in Least(todo[g]) : todo' = [todo EXCEPT ![g] = @ \ {m}]
        BY <2>4 DEF GroupClear
      <3>2. m \in acked /\ todo'[g] = todo[g] \ {m}
        BY <1>a, <2>4, <3>1 DEF GroupClear, GroupsAck, Types
      <3> QED
        BY <2>1, <2>4, <3>2, <1>b
    <2> QED
      BY <1>5, <2>1, <2>2, <2>3, <2>4, <1>b
  <1> QED
    BY <1>1, <1>2, <1>3, <1>4, <1>5, Kinds

LEMMA BatchIsFirstStep == LazyInv /\ BatchInv /\ [Next]_vars => BatchIsFirst'
  <1> SUFFICES ASSUME LazyInv, BatchIsFirst, [Next]_vars PROVE BatchIsFirst'
    BY DEF BatchInv
  <1>a. Types /\ acked \subseteq acked'
    BY AckedGrows DEF LazyInv
  <1>b. ASSUME batch' = batch PROVE BatchIsFirst'
    <2>1. \A n \in batch : n \in 1 .. Len(events)
      BY <1>a DEF Types
    <2>2. 1 .. Len(events) \subseteq 1 .. Len(events') /\ Len(events) \in Nat
      BY <1>a, Kept DEF Types
    <2>3. Len(events') \in Nat
      BY <1>a, TypesStep DEF Types
    <2>4. ASSUME NEW n \in batch, NEW m \in Unacked', m < n PROVE m \in batch
      <3>1. m \in 1 .. Len(events') /\ m \notin acked
        BY <1>a, <2>4 DEF Unacked
      <3>2. m \in 1 .. Len(events)
        BY <2>1, <2>2, <2>4, <3>1
      <3>3. m \in Unacked
        BY <3>1, <3>2 DEF Unacked
      <3> QED
        BY <2>4, <3>3 DEF BatchIsFirst
    <2>5. ASSUME NEW n \in batch, n \notin acked' PROVE n \in FirstN(Unacked, Count)'
      <3>1. n \in FirstN(Unacked, Count)
        BY <1>a, <2>5 DEF BatchIsFirst
      <3> QED
        BY <1>a, <2>2, <2>3, <2>5, <3>1, FirstKept
    <2> QED
      BY <1>b, <2>4, <2>5 DEF BatchIsFirst
  <1>1. CASE Quiet
    BY <1>1, <1>b DEF Quiet
  <1>2. CASE Take
    <2>1. batch' = FirstN(Unacked, Count) /\ UNCHANGED <<events, acked>>
      BY <1>2 DEF Take, streamVars, Unacked
    <2>2. Unacked' = Unacked
      BY <2>1 DEF Unacked
    <2>3. \A n \in batch' : \A m \in Unacked : m < n => m \in batch'
      BY <1>a, <2>1, UnackedFinite, FirstPrefix
    <2> QED
      BY <2>1, <2>2, <2>3 DEF BatchIsFirst
  <1>3. CASE InsertsDone
    BY <1>3, <1>b DEF InsertsDone
  <1>4. CASE BatchDone \/ Dies
    <2>1. Restart
      BY <1>4 DEF BatchDone, Dies
    <2> QED
      BY <2>1, RestartTypes DEF BatchIsFirst
  <1>5. ASSUME NEW p \in Pools, Ack(p) PROVE BatchIsFirst'
    BY <1>5, <1>b DEF Ack
  <1>6. ASSUME NEW g \in Groups, Goes(g) \/ Falls(g) \/ GroupAck(g) \/ GroupClear(g)
        PROVE  BatchIsFirst'
    BY <1>6, <1>a, <1>b, GroupKinds
  <1> QED
    BY <1>1, <1>2, <1>3, <1>4, <1>5, <1>6, Kinds

\* Two groups that have an event share it.
LEMMA SharedSpans ==
  ASSUME Types, GroupGoroutines, NEW g \in Groups, NEW h \in Groups, g # h,
         NEW n \in todo[g], n \in todo[h]
  PROVE  Spans(n)
  <1>1. ~IsInsert(n) /\ RowsIn(n, g) # {} /\ RowsIn(n, h) # {}
    BY DEF GroupGoroutines, GroupGoroutine
  <1> QED
    BY <1>1 DEF RowsIn, Spans

LEMMA GroupsAckStep == LazyInv /\ BatchInv /\ [Next]_vars => GroupsAck'
  <1> DEFINE Acks(h) ==
        /\ run[h] = "clear" => Least(todo[h]) \subseteq acked
        /\ \A n \in todo[h] \cap acked :
              Spans(n) \/ (run[h] = "clear" /\ n \in Least(todo[h]))
  <1> SUFFICES ASSUME LazyInv, BatchInv, [Next]_vars, NEW h \in Groups PROVE Acks(h)'
    BY DEF GroupsAck
  <1>a. Types /\ GroupGoroutines /\ InsertGoroutines /\ OthersUnacked /\ Acks(h)
    BY DEF LazyInv, BatchInv, GroupsAck
  <1>b. \A n \in todo[h] : n \in 1 .. Len(events) /\ (Spans(n)' <=> Spans(n))
    BY <1>a, Kept DEF Types
  <1>c. UNCHANGED <<run, todo, acked>> => Acks(h)'
    BY <1>a, <1>b
  <1>d. todo'[h] = {} => Acks(h)'
    BY DEF Least
  <1> HIDE DEF Acks
  <1>1. CASE Quiet
    BY <1>1, <1>c DEF Quiet
  <1>2. CASE Take
    BY <1>2, <1>c DEF Take, groupVars, streamVars
  <1>3. CASE InsertsDone
    <2>1. /\ todo'[h] = {n \in {i \in batch : ~IsInsert(i)} : RowsIn(n, h) # {}}
          /\ run'[h] \in {"done", "query"} /\ acked' = acked /\ phase = "inserts"
      BY <1>3 DEF InsertsDone, streamVars
    <2>2. todo'[h] \cap acked' = {}
      BY <1>a, <2>1 DEF OthersUnacked
    <2> QED
      BY <2>1, <2>2 DEF Acks
  <1>4. CASE BatchDone \/ Dies
    <2>1. Restart
      BY <1>4 DEF BatchDone, Dies
    <2> QED
      BY <2>1, <1>d, RestartTypes
  <1>5. ASSUME NEW p \in Pools, Ack(p) PROVE Acks(h)'
    <2>1. left[p] # {} /\ todo' = todo
      BY <1>5, LeastKept DEF Ack, groupVars
    <2>2. todo[h] = {}
      BY <1>a, <2>1 DEF GroupGoroutines, GroupGoroutine, InsertGoroutines, InsertGoroutine
    <2> QED
      BY <1>d, <2>1, <2>2
  <1>6. ASSUME NEW g \in Groups, Goes(g) PROVE Acks(h)'
    <2>1. acked' = acked /\ todo' = todo /\ run[g] = "query" /\ run' = [run EXCEPT ![g] = "ack"]
      BY <1>6 DEF Goes
    <2>2. CASE h # g
      <3>1. run'[h] = run[h]
        BY <1>a, <2>1, <2>2 DEF Types
      <3> QED
        BY <1>a, <1>b, <2>1, <3>1 DEF Acks
    <2>3. CASE h = g
      <3>1. run'[h] = "ack" /\ run[h] = "query"
        BY <1>a, <2>1, <2>3 DEF Types
      <3> QED
        BY <1>a, <1>b, <2>1, <3>1 DEF Acks
    <2> QED
      BY <2>2, <2>3
  <1>7. ASSUME NEW g \in Groups, Falls(g) PROVE Acks(h)'
    <2>1. acked' = acked
      BY <1>7 DEF Falls
    <2>2. CASE h # g
      <3>1. run'[h] = run[h] /\ todo'[h] = todo[h]
        BY <1>7, <1>a, <2>2, GroupKinds
      <3> QED
        BY <1>a, <1>b, <2>1, <3>1 DEF Acks
    <2>3. CASE h = g
      <3>1. todo'[h] = {}
        BY <1>7, <1>a, <2>3 DEF Falls, Panic, Types
      <3> QED
        BY <1>d, <3>1
    <2> QED
      BY <2>2, <2>3
  <1>8. ASSUME NEW g \in Groups, GroupAck(g) PROVE Acks(h)'
    <2>1. PICK k \in Least(todo[g]) :
             /\ run[g] = "ack" /\ run' = [run EXCEPT ![g] = "clear"]
             /\ acked' = acked \cup {k} /\ todo' = todo
      BY <1>8 DEF GroupAck
    <2>2. k \in todo[g]
      BY LeastKept
    <2>3. CASE h # g
      <3>1. run'[h] = run[h]
        BY <1>a, <2>1, <2>3 DEF Types
      <3>2. k \in todo[h] => Spans(k)
        BY <1>a, <2>2, <2>3, SharedSpans
      <3> QED
        BY <1>a, <1>b, <2>1, <3>1, <3>2 DEF Acks
    <2>4. CASE h = g
      <3>1. run'[h] = "clear" /\ run[h] = "ack"
        BY <1>a, <2>1, <2>4 DEF Types
      <3>2. Least(todo[h]) \subseteq {k}
        BY <1>a, <2>1, <2>4 DEF Least, Types
      <3> QED
        BY <1>a, <1>b, <2>1, <2>4, <3>1, <3>2 DEF Acks
    <2> QED
      BY <2>3, <2>4
  <1>9. ASSUME NEW g \in Groups, GroupClear(g) PROVE Acks(h)'
    <2>1. PICK m \in Least(todo[g]) :
             /\ run' = [run EXCEPT ![g] = IF todo[g] = {m} THEN "done" ELSE "ack"]
             /\ todo' = [todo EXCEPT ![g] = @ \ {m}]
      BY <1>9 DEF GroupClear
    <2>2. acked' = acked
      BY <1>9 DEF GroupClear, streamVars
    <2>3. CASE h # g
      <3>1. run'[h] = run[h] /\ todo'[h] = todo[h]
        BY <1>9, <1>a, <2>3, GroupKinds
      <3> QED
        BY <1>a, <1>b, <2>2, <3>1 DEF Acks
    <2>4. CASE h = g
      <3>1. run'[h] # "clear" /\ todo'[h] = todo[h] \ {m}
        BY <1>a, <2>1, <2>4 DEF Types
      <3>2. Least(todo[h]) \subseteq {m}
        BY <1>a, <2>1, <2>4 DEF Least, Types
      <3> QED
        BY <1>a, <1>b, <2>2, <3>1, <3>2 DEF Acks
    <2> QED
      BY <2>3, <2>4
  <1> QED
    BY <1>1, <1>2, <1>3, <1>4, <1>5, <1>6, <1>7, <1>8, <1>9, Kinds

LEMMA ErrorIsExplainedStep == LazyInv /\ BatchInv /\ [Next]_vars => ErrorIsExplained'
  <1> SUFFICES ASSUME LazyInv, ErrorIsExplained, [Next]_vars PROVE ErrorIsExplained'
    BY DEF BatchInv
  <1>a. Types
    BY DEF LazyInv
  <1>b. /\ faults > 0 => faults' > 0
        /\ (\E n \in 1 .. Len(events) : Mixed(n)) => \E n \in 1 .. Len(events') : Mixed(n)'
    BY <1>a, Kept, Monotone DEF Grows
  <1>c. ASSUME lazyError' = lazyError PROVE ErrorIsExplained'
    BY <1>b, <1>c DEF ErrorIsExplained
  <1>1. CASE Quiet \/ Take \/ InsertsDone
    BY <1>1, <1>c DEF Quiet, Take, InsertsDone, groupVars
  <1>2. CASE BatchDone \/ Dies
    <2>1. lazyError' = FALSE
      BY <1>2, RestartTypes DEF BatchDone, Dies
    <2> QED
      BY <2>1 DEF ErrorIsExplained
  <1>3. ASSUME NEW p \in Pools, Ack(p) PROVE ErrorIsExplained'
    BY <1>3, <1>c DEF Ack, groupVars
  <1>4. ASSUME NEW g \in Groups, Goes(g) \/ GroupAck(g) \/ GroupClear(g) PROVE ErrorIsExplained'
    BY <1>4, <1>c DEF Goes, GroupAck, GroupClear
  <1>5. ASSUME NEW g \in Groups, Falls(g) PROVE ErrorIsExplained'
    BY <1>5, <1>b DEF Falls, ErrorIsExplained
  <1> QED
    BY <1>1, <1>2, <1>3, <1>4, <1>5, Kinds

LEMMA BatchInit == Init => BatchInv
  <1> SUFFICES ASSUME Init PROVE BatchInv
    OBVIOUS
  <1>1. /\ \A p \in Pools : left[p] = {}
        /\ \A g \in Groups : run[g] = "done" /\ todo[g] = {}
        /\ batch = {} /\ phase = "idle" /\ lazyError = FALSE
    BY DEF Init
  <1> QED
    BY <1>1 DEF BatchInv, LeftUnacked, InsertsHeld, OthersUnacked, OthersHeld, BatchIsFirst,
                GroupsAck, ErrorIsExplained

LEMMA BatchStep == LazyInv /\ BatchInv /\ [Next]_vars => BatchInv'
  BY LeftUnackedStep, InsertsHeldStep, OthersUnackedStep, OthersHeldStep, BatchIsFirstStep,
     GroupsAckStep, ErrorIsExplainedStep DEF BatchInv

\* Digest's batch (background_consumer.go) is the oldest events, each with the goroutine that
\* will acknowledge it, whatever panics and crashes came before.
THEOREM BatchHolds == Spec => [](LazyInv /\ BatchInv)
  <1>1. LazyInv /\ BatchInv /\ [Next]_vars => (LazyInv /\ BatchInv)'
    BY LazyStep, BatchStep
  <1> QED
    BY <1>1, LazyInit, BatchInit, PTL DEF Spec

-----------------------------------------------------------------------------
(* What the program and the database did, event by event.                  *)

\* Event n is the last flush of row r.
LastOn(n, r) == r \in RowsOf(n) /\ \A m \in 1 .. Len(events) : r \in RowsOf(m) => m <= n

\* A row is inserted by its first flush and deleted by its last, if it is not inserted
\* again.
InsertIsFirst ==
    Ids # "explicit" \/ ~reborn =>
        \A n, m \in 1 .. Len(events) : \A r \in Inserted(n) : r \in RowsOf(m) => n <= m

DeleteIsLast ==
    ~reborn => \A n \in 1 .. Len(events) : \A r \in RowsOf(n) :
                  events[n][r] = "D" => LastOn(n, r)

WantIs ==
    \A r \in Rows :
        /\ \A n \in 1 .. Len(events) :
              LastOn(n, r) => want[r] = IF events[n][r] = "D" THEN NoRow ELSE n
        /\ (\A n \in 1 .. Len(events) : r \notin RowsOf(n)) => want[r] = db[r]

ExecutedIsOf == \A n \in 1 .. Len(events) : \A r : <<n, r>> \in executed => r \in RowsOf(n)

\* Other events are executed behind the inserts before them.
BehindInserts ==
    \A n, m \in 1 .. Len(events) : \A r :
        <<n, r>> \in executed /\ ~IsInsert(n) /\ IsInsert(m) /\ m < n => m \in acked

Histories == InsertIsFirst /\ DeleteIsLast /\ WantIs /\ ExecutedIsOf /\ BehindInserts

LEMMA EventKinds ==
  ASSUME [Next]_vars
  PROVE  \/ UNCHANGED <<events, want, reborn>>
         \/ \E changes \in Flushes : FlushLazy(changes)
  <1>1. CASE LoadStep
    BY <1>1, LoadLeaves
  <1>2. CASE Take \/ InsertsDone \/ BatchDone \/ Crash \/ UNCHANGED vars
    BY <1>2 DEF Take, InsertsDone, BatchDone, Crash, vars, streamVars, historyVars
  <1>3. ASSUME NEW p \in Pools,
               Query(p) \/ QueryPanics(p) \/ Clear(p) \/ ClearPanics(p) \/ Ack(p)
        PROVE  UNCHANGED <<events, want, reborn>>
    BY <1>3, Zenon DEF Query, QueryPanics, Clear, ClearPanics, Ack, streamVars, historyVars
  <1>4. ASSUME NEW g \in Groups,
               \/ Execute(g) \/ Refused(g) \/ Fails(g) \/ GroupAck(g)
               \/ GroupClear(g) \/ GroupClearPanics(g)
        PROVE  UNCHANGED <<events, want, reborn>>
    BY <1>4, Zenon DEF Execute, Refused, Fails, GroupAck, GroupClear, GroupClearPanics,
                       streamVars, historyVars
  <1> QED
    BY <1>1, <1>2, <1>3, <1>4 DEF Next, Consumer, LoadStep

LEMMA DbKinds ==
  ASSUME [Next]_vars
  PROVE  \/ UNCHANGED <<db, executed>>
         \/ \E p \in Pools : Query(p)
         \/ \E g \in Groups : Execute(g)
  <1>1. ASSUME NEW changes \in Flushes, FlushLazy(changes) PROVE UNCHANGED <<db, executed>>
    BY <1>1 DEF FlushLazy
  <1>2. CASE LoadStep
    BY <1>2, LoadLeaves
  <1>3. CASE Take \/ InsertsDone \/ BatchDone \/ Crash \/ UNCHANGED vars
    BY <1>3 DEF Take, InsertsDone, BatchDone, Crash, vars, historyVars
  <1>4. ASSUME NEW p \in Pools, QueryPanics(p) \/ Clear(p) \/ ClearPanics(p) \/ Ack(p)
        PROVE  UNCHANGED <<db, executed>>
    BY <1>4, Zenon DEF QueryPanics, Clear, ClearPanics, Ack, historyVars
  <1>5. ASSUME NEW g \in Groups,
               \/ Refused(g) \/ Fails(g) \/ GroupAck(g) \/ GroupClear(g) \/ GroupClearPanics(g)
        PROVE  UNCHANGED <<db, executed>>
    BY <1>5, Zenon DEF Refused, Fails, GroupAck, GroupClear, GroupClearPanics, historyVars
  <1> QED
    BY <1>1, <1>2, <1>3, <1>4, <1>5 DEF Next, Consumer, LoadStep

\* What a flush adds.
LEMMA Flushed ==
  ASSUME Types, NEW changes \in Flushes, FlushLazy(changes), NEW k, k = Len(events) + 1
  PROVE  /\ 1 .. Len(events') = (1 .. Len(events)) \cup {k} /\ k \notin 1 .. Len(events)
         /\ k \in Nat /\ Len(events') \in Nat
         /\ events'[k] = changes /\ RowsOf(k)' = DOMAIN changes /\ DOMAIN changes \subseteq Rows
         /\ Inserted(k)' = {r \in DOMAIN changes : changes[r] = "I"}
         /\ \A r \in DOMAIN changes : changes[r] \in {"I", "U", "D"}
         /\ \A n \in 1 .. Len(events) : n < k
  <1>1. events' = Append(events, changes) /\ events \in Seq(Flushes)
    BY DEF FlushLazy, Types
  <1>2. Len(events') = k /\ events'[k] = changes /\ Len(events) \in Nat
    BY <1>1
  <1>3. DOMAIN changes \subseteq Rows /\ \A r \in DOMAIN changes : changes[r] \in {"I", "U", "D"}
    BY DEF Flushes
  <1>4. RowsOf(k)' = DOMAIN changes /\ Inserted(k)' = {r \in DOMAIN changes : changes[r] = "I"}
    BY <1>2 DEF RowsOf, Inserted
  <1>5. 1 .. k = (1 .. Len(events)) \cup {k} /\ k \notin 1 .. Len(events)
        /\ \A n \in 1 .. Len(events) : n < k
    BY <1>2
  <1> QED
    BY <1>2, <1>3, <1>4, <1>5

\* What an insert goroutine's statement writes.
LEMMA QueryWrites ==
  ASSUME LazyInv, NEW p \in Pools, Query(p)
  PROVE  \E n \in Least(left[p]), S \in SUBSET Rows :
            /\ S \in NextStatements(n, RowsOf(n) \ ran[p]) /\ S \subseteq RowsOf(n) \ ran[p]
            /\ n \in 1 .. Len(events) /\ IsInsert(n)
            /\ ran' = [ran EXCEPT ![p] = @ \cup S]
            /\ \/ /\ ~Duplicate(n, S, db) /\ db' = Effect(n, S, db)
                  /\ executed' = executed \cup ({n} \X S) /\ givenUp' = givenUp
               \/ /\ Duplicate(n, S, db) /\ givenUp' = givenUp \cup ({n} \X S)
                  /\ UNCHANGED <<db, executed>>
  <1>a. Types /\ InsertGoroutines
    BY DEF LazyInv
  <1>1. PICK n \in Least(left[p]) : \E S \in NextStatements(n, RowsOf(n) \ ran[p]) :
            /\ ran' = [ran EXCEPT ![p] = @ \cup S]
            /\ \/ /\ ~Duplicate(n, S, db) /\ db' = Effect(n, S, db)
                  /\ executed' = executed \cup ({n} \X S) /\ givenUp' = givenUp
               \/ /\ Duplicate(n, S, db) /\ givenUp' = givenUp \cup ({n} \X S)
                  /\ UNCHANGED <<db, executed>>
    BY DEF Query
  <1>2. n \in 1 .. Len(events) /\ IsInsert(n)
    BY <1>a, LeastKept DEF Types, InsertGoroutines, InsertGoroutine
  <1>3. \A S \in NextStatements(n, RowsOf(n) \ ran[p]) :
           S \subseteq RowsOf(n) \ ran[p] /\ S \in SUBSET Rows
    BY <1>a, <1>2, StatementRows, EventRows
  <1> QED
    BY <1>1, <1>2, <1>3

\* Only rows of events change.
LEMMA DbOfEvents ==
  ASSUME LazyInv, [Next]_vars, NEW r \in Rows, \A n \in 1 .. Len(events) : r \notin RowsOf(n)
  PROVE  db'[r] = db[r]
  <1>a. Types /\ Values
    BY DEF LazyInv
  <1>1. ASSUME NEW p \in Pools, Query(p) PROVE db'[r] = db[r]
    <2>1. PICK n \in Least(left[p]), S \in SUBSET Rows :
             /\ S \subseteq RowsOf(n) \ ran[p] /\ n \in 1 .. Len(events)
             /\ db' = Effect(n, S, db) \/ db' = db
      BY <1>1, QueryWrites
    <2>2. r \notin S
      BY <2>1
    <2> QED
      BY <2>1, <2>2 DEF Effect
  <1>2. ASSUME NEW g \in Groups, Execute(g) PROVE db'[r] = db[r]
    <2>1. Touching(g, Len(events), r) = {}
      BY <1>a DEF Touching, RowsIn, Types
    <2> QED
      BY <1>2, <1>a, <2>1, OutcomeFacts DEF Execute, Follows
  <1> QED
    BY <1>1, <1>2, DbKinds

LEMMA InsertIsFirstStep == LazyInv /\ Histories /\ [Next]_vars => InsertIsFirst'
  <1> SUFFICES ASSUME LazyInv, InsertIsFirst, [Next]_vars, (Ids # "explicit" \/ ~reborn)',
                      NEW n \in 1 .. Len(events'), NEW m \in 1 .. Len(events'),
                      NEW r \in Inserted(n)', r \in RowsOf(m)'
               PROVE  n <= m
    BY DEF Histories, InsertIsFirst
  <1>a. Types
    BY DEF LazyInv
  <1>b. ASSUME n \in 1 .. Len(events), m \in 1 .. Len(events), reborn => reborn' PROVE n <= m
    <2>1. r \in Inserted(n) /\ r \in RowsOf(m)
      BY <1>a, <1>b, Kept
    <2> QED
      BY <1>b, <2>1 DEF InsertIsFirst
  <1>1. CASE UNCHANGED <<events, want, reborn>>
    BY <1>1, <1>b
  <1>2. ASSUME NEW changes \in Flushes, FlushLazy(changes) PROVE n <= m
    <2>0. PICK k : k = Len(events) + 1
      OBVIOUS
    <2>1. /\ 1 .. Len(events') = (1 .. Len(events)) \cup {k} /\ k \in Nat
          /\ Inserted(k)' = {s \in DOMAIN changes : changes[s] = "I"}
          /\ \A i \in 1 .. Len(events) : i < k
      BY <1>2, <1>a, <2>0, Flushed
    <2>2. reborn => reborn'
      BY <1>2 DEF FlushLazy
    <2>3. CASE n = k /\ m # k
      <3>1. m \in 1 .. Len(events) /\ r \in RowsOf(m)
        BY <1>a, <2>1, <2>3, Kept
      <3>2. r \in DOMAIN changes /\ changes[r] = "I"
        BY <2>1, <2>3
      <3> QED
        BY <1>2, <3>1, <3>2 DEF FlushLazy
    <2>4. CASE m = k
      BY <2>1, <2>4
    <2>5. CASE n # k /\ m # k
      BY <1>b, <2>1, <2>2, <2>5
    <2> QED
      BY <2>3, <2>4, <2>5
  <1> QED
    BY <1>1, <1>2, EventKinds

LEMMA LastOnKept ==
  ASSUME Types, NEW n \in 1 .. Len(events), NEW r, UNCHANGED events
  PROVE  LastOn(n, r)' <=> LastOn(n, r)
  BY SameEvent DEF LastOn

LEMMA DeleteIsLastStep == LazyInv /\ Histories /\ [Next]_vars => DeleteIsLast'
  <1> SUFFICES ASSUME LazyInv, DeleteIsLast, WantIs, [Next]_vars, ~reborn',
                      NEW n \in 1 .. Len(events'), NEW r \in RowsOf(n)', events'[n][r] = "D",
                      NEW m \in 1 .. Len(events'), r \in RowsOf(m)'
               PROVE  m <= n
    BY DEF Histories, DeleteIsLast, LastOn
  <1>a. Types
    BY DEF LazyInv
  <1>b. ASSUME n \in 1 .. Len(events), ~reborn
        PROVE  LastOn(n, r) /\ r \in Rows /\ events[n][r] = "D"
    <2>1. r \in RowsOf(n) /\ events[n][r] = "D"
      BY <1>a, <1>b, Kept
    <2> QED
      BY <1>a, <1>b, <2>1, EventRows DEF DeleteIsLast
  <1>c. ASSUME n \in 1 .. Len(events), m \in 1 .. Len(events), ~reborn PROVE m <= n
    <2>1. r \in RowsOf(m)
      BY <1>a, <1>c, Kept
    <2> QED
      BY <1>b, <1>c, <2>1 DEF LastOn
  <1>1. CASE UNCHANGED <<events, want, reborn>>
    BY <1>1, <1>c
  <1>2. ASSUME NEW changes \in Flushes, FlushLazy(changes) PROVE m <= n
    <2>0. PICK k : k = Len(events) + 1
      OBVIOUS
    <2>1. /\ 1 .. Len(events') = (1 .. Len(events)) \cup {k} /\ k \in Nat
          /\ RowsOf(k)' = DOMAIN changes
          /\ \A i \in 1 .. Len(events) : i < k
      BY <1>2, <1>a, <2>0, Flushed
    <2>2. ~reborn
      BY <1>2 DEF FlushLazy
    <2>3. CASE n # k /\ m = k
      <3>1. n \in 1 .. Len(events) /\ r \in DOMAIN changes
        BY <2>1, <2>3
      <3>2. want[r] = NoRow /\ r \in RowsOf(n)
        BY <1>b, <2>2, <3>1 DEF WantIs, LastOn
      <3>3. changes[r] = "I"
        BY <1>2, <3>1, <3>2 DEF FlushLazy
      <3> QED
        BY <1>2, <3>1, <3>2, <3>3 DEF FlushLazy
    <2>4. CASE n = k
      BY <2>1, <2>4
    <2>5. CASE n # k /\ m # k
      BY <1>c, <2>1, <2>2, <2>5
    <2> QED
      BY <2>3, <2>4, <2>5
  <1> QED
    BY <1>1, <1>2, EventKinds

LEMMA WantIsStep == LazyInv /\ Histories /\ [Next]_vars => WantIs'
  <1> SUFFICES ASSUME LazyInv, WantIs, [Next]_vars, NEW r \in Rows
               PROVE  /\ \A n \in 1 .. Len(events') :
                            LastOn(n, r)' => want'[r] = IF events'[n][r] = "D" THEN NoRow ELSE n
                      /\ (\A n \in 1 .. Len(events') : r \notin RowsOf(n)') => want'[r] = db'[r]
    BY DEF Histories, WantIs
  <1>a. Types
    BY DEF LazyInv
  <1>1. CASE UNCHANGED <<events, want, reborn>>
    <2>1. \A n \in 1 .. Len(events) : (LastOn(n, r)' <=> LastOn(n, r)) /\ RowsOf(n)' = RowsOf(n)
      BY <1>1, <1>a, LastOnKept, SameEvent
    <2> QED
      BY <1>1, <2>1, DbOfEvents DEF WantIs
  <1>2. ASSUME NEW changes \in Flushes, FlushLazy(changes)
        PROVE  /\ \A n \in 1 .. Len(events') :
                     LastOn(n, r)' => want'[r] = IF events'[n][r] = "D" THEN NoRow ELSE n
               /\ (\A n \in 1 .. Len(events') : r \notin RowsOf(n)') => want'[r] = db'[r]
    <2>0. PICK k : k = Len(events) + 1
      OBVIOUS
    <2>1. /\ 1 .. Len(events') = (1 .. Len(events)) \cup {k} /\ k \in Nat
          /\ RowsOf(k)' = DOMAIN changes /\ events'[k] = changes
          /\ \A i \in 1 .. Len(events) : i < k
      BY <1>2, <1>a, <2>0, Flushed
    <2>2. /\ db' = db
          /\ want'[r] = IF r \notin DOMAIN changes THEN want[r]
                        ELSE IF changes[r] = "D" THEN NoRow ELSE k
      BY <1>2, <2>0 DEF FlushLazy
    <2>3. \A n \in 1 .. Len(events) : RowsOf(n)' = RowsOf(n) /\ events'[n] = events[n]
      BY <1>a, Kept
    <2>4. CASE r \in DOMAIN changes
      <3>1. \A n \in 1 .. Len(events') : LastOn(n, r)' => k <= n
        BY <2>1, <2>4 DEF LastOn
      <3>2. \A n \in 1 .. Len(events') : LastOn(n, r)' => n = k
        BY <2>1, <3>1
      <3> QED
        BY <2>1, <2>2, <2>4, <3>2
    <2>5. CASE r \notin DOMAIN changes
      <3>1. \A n \in 1 .. Len(events') : LastOn(n, r)' => n \in 1 .. Len(events) /\ LastOn(n, r)
        BY <2>1, <2>3, <2>5 DEF LastOn
      <3>2. \A n \in 1 .. Len(events) : n \in 1 .. Len(events')
        BY <2>1
      <3> QED
        BY <2>2, <2>3, <2>5, <3>1, <3>2 DEF WantIs
    <2> QED
      BY <2>4, <2>5
  <1> QED
    BY <1>1, <1>2, EventKinds

LEMMA ExecuteWrites ==
  ASSUME LazyInv, NEW g \in Groups, Execute(g)
  PROVE  /\ Follows(g, Len(events), db', TRUE)
         /\ executed' = executed \cup Statements(g) /\ UNCHANGED <<acked, batch, phase, todo>>
         /\ run[g] = "query" /\ run' = [run EXCEPT ![g] = "ack"] /\ phase = "groups"
         /\ \A n, r : <<n, r>> \in Statements(g) <=> n \in todo[g] /\ r \in RowsIn(n, g)
         /\ \A n \in todo[g] : n \in 1 .. Len(events) /\ n \in batch /\ ~IsInsert(n)
         /\ todo[g] # {}
  <1>a. Types /\ Values /\ GroupGoroutines
    BY DEF LazyInv
  <1>1. run[g] = "query" /\ todo[g] # {}
    BY <1>a DEF Execute, GroupGoroutines, GroupGoroutine
  <1>2. phase = "groups" /\ \A n \in todo[g] : n \in 1 .. Len(events) /\ n \in batch /\ ~IsInsert(n)
    BY <1>a, <1>1 DEF Types, GroupGoroutines, GroupGoroutine
  <1>3. Outcome(g).ok /\ db' = Outcome(g).db
    BY DEF Execute
  <1>4. Outcome(g).ok \in BOOLEAN /\ Follows(g, Len(events), Outcome(g).db, Outcome(g).ok)
    BY <1>a, OutcomeFacts DEF Follows
  <1>5. Outcome(g).ok = TRUE
    BY <1>3, <1>4
  <1>6. Follows(g, Len(events), db', TRUE)
    BY <1>3, <1>4, <1>5
  <1>7. \A n, r : <<n, r>> \in Statements(g) <=> n \in todo[g] /\ r \in RowsIn(n, g)
    BY DEF Statements
  <1>8. /\ executed' = executed \cup Statements(g) /\ UNCHANGED <<acked, batch, phase, todo>>
        /\ run' = [run EXCEPT ![g] = "ack"]
    BY DEF Execute, streamVars
  <1> QED
    BY <1>1, <1>2, <1>6, <1>7, <1>8

LEMMA ExecutedIsOfStep == LazyInv /\ Histories /\ [Next]_vars => ExecutedIsOf'
  <1> SUFFICES ASSUME LazyInv, ExecutedIsOf, [Next]_vars,
                      NEW n \in 1 .. Len(events'), NEW r, <<n, r>> \in executed'
               PROVE  r \in RowsOf(n)'
    BY DEF Histories, ExecutedIsOf
  <1>a. Types /\ Values
    BY DEF LazyInv
  <1>b. ASSUME n \in 1 .. Len(events), r \in RowsOf(n) PROVE r \in RowsOf(n)'
    BY <1>a, <1>b, Kept
  <1>c. ASSUME <<n, r>> \in executed PROVE r \in RowsOf(n)'
    <2>1. n \in 1 .. Len(events)
      BY <1>a, <1>c DEF Values
    <2> QED
      BY <1>b, <1>c, <2>1 DEF ExecutedIsOf
  <1>1. CASE UNCHANGED <<db, executed>>
    BY <1>1, <1>c
  <1>2. ASSUME NEW p \in Pools, Query(p) PROVE r \in RowsOf(n)'
    <2>1. PICK m \in Least(left[p]), S \in SUBSET Rows :
             /\ S \subseteq RowsOf(m) \ ran[p] /\ m \in 1 .. Len(events)
             /\ executed' \in {executed, executed \cup ({m} \X S)}
      BY <1>2, QueryWrites
    <2> QED
      BY <2>1, <1>b, <1>c
  <1>3. ASSUME NEW g \in Groups, Execute(g) PROVE r \in RowsOf(n)'
    <2>1. CASE <<n, r>> \in Statements(g)
      <3>1. n \in 1 .. Len(events) /\ r \in RowsOf(n)
        BY <1>3, <2>1, ExecuteWrites DEF RowsIn
      <3> QED
        BY <1>b, <3>1
    <2>2. CASE <<n, r>> \notin Statements(g)
      BY <1>3, <1>c, <2>2, ExecuteWrites
    <2> QED
      BY <2>1, <2>2
  <1> QED
    BY <1>1, <1>2, <1>3, DbKinds

\* When the groups run, the inserts of the batch are acknowledged, and no insert waits
\* behind an event of the batch.
LEMMA InsertsBefore ==
  ASSUME LazyInv, BatchInv, phase = "groups", NEW n \in batch, NEW m \in 1 .. Len(events),
         IsInsert(m), m < n
  PROVE  m \in acked
  <1> SUFFICES ASSUME m \notin acked PROVE FALSE
    OBVIOUS
  <1>1. m \in batch
    BY DEF BatchInv, BatchIsFirst, Unacked
  <1>2. PICK p \in Pools : m \in left[p]
    BY <1>1 DEF BatchInv, InsertsHeld
  <1> QED
    BY <1>2 DEF LazyInv, InsertGoroutines, InsertGoroutine

LEMMA BehindInsertsStep == LazyInv /\ BatchInv /\ Histories /\ [Next]_vars => BehindInserts'
  <1> SUFFICES ASSUME LazyInv, BatchInv, BehindInserts, [Next]_vars,
                      NEW n \in 1 .. Len(events'), NEW m \in 1 .. Len(events'), NEW r,
                      <<n, r>> \in executed', ~IsInsert(n)', IsInsert(m)', m < n
               PROVE  m \in acked'
    BY DEF Histories, BehindInserts
  <1>a. Types /\ Values /\ acked \subseteq acked'
    BY AckedGrows DEF LazyInv
  <1>b. ASSUME n \in 1 .. Len(events)
        PROVE  m \in 1 .. Len(events) /\ ~IsInsert(n) /\ IsInsert(m)
    <2>1. m \in 1 .. Len(events)
      BY <1>b
    <2> QED
      BY <1>a, <1>b, <2>1, Kept
  <1>c. ASSUME <<n, r>> \in executed PROVE m \in acked'
    <2>1. n \in 1 .. Len(events)
      BY <1>a, <1>c DEF Values
    <2> QED
      BY <1>a, <1>b, <1>c, <2>1 DEF BehindInserts
  <1>1. CASE UNCHANGED <<db, executed>>
    BY <1>1, <1>c
  <1>2. ASSUME NEW p \in Pools, Query(p) PROVE m \in acked'
    <2>1. PICK k \in Least(left[p]), S \in SUBSET Rows :
             /\ k \in 1 .. Len(events) /\ IsInsert(k)
             /\ executed' \in {executed, executed \cup ({k} \X S)}
      BY <1>2, QueryWrites
    <2> QED
      BY <2>1, <1>b, <1>c
  <1>3. ASSUME NEW g \in Groups, Execute(g) PROVE m \in acked'
    <2>1. CASE <<n, r>> \in Statements(g)
      <3>1. n \in 1 .. Len(events) /\ n \in batch /\ phase = "groups"
        BY <1>3, <2>1, ExecuteWrites
      <3> QED
        BY <1>a, <1>b, <3>1, InsertsBefore
    <2>2. CASE <<n, r>> \notin Statements(g)
      BY <1>3, <1>c, <2>2, ExecuteWrites
    <2> QED
      BY <2>1, <2>2
  <1> QED
    BY <1>1, <1>2, <1>3, DbKinds

LEMMA HistoriesInit == Init => Histories
  <1> SUFFICES ASSUME Init PROVE Histories
    OBVIOUS
  <1>1. events = << >> /\ executed = {} /\ want = db
    BY DEF Init
  <1>2. 1 .. Len(events) = {}
    BY <1>1
  <1> QED
    BY <1>1, <1>2 DEF Histories, InsertIsFirst, DeleteIsLast, WantIs, ExecutedIsOf, BehindInserts

LEMMA HistoriesStep == LazyInv /\ BatchInv /\ Histories /\ [Next]_vars => Histories'
  BY InsertIsFirstStep, DeleteIsLastStep, WantIsStep, ExecutedIsOfStep, BehindInsertsStep
     DEF Histories

-----------------------------------------------------------------------------
(* What Redis holds.                                                       *)

\* Event n will be worked on before anybody is done with it, its group will clear it
\* after its transaction, or some group has acknowledged it and clears it next.
Waits(n) == n \notin acked /\ \A p \in Pools : ~(n \in Least(left[p]) /\ at[p] = "ack")
InGroup(n, r) == n \in todo[GroupOf(n, r)] /\ run[GroupOf(n, r)] \in {"ack", "clear"}
Clearing(n) == \E g \in Groups : n \in Least(todo[g]) /\ run[g] = "clear"

Due(n, r) == Waits(n) \/ InGroup(n, r) \/ Clearing(n)

\* A uuid row was SET ahead of its insert.
SetAhead(r, v) ==
    /\ Ids = "uuid" /\ v \in 1 .. Len(events)
    /\ r \in Inserted(v) /\ <<v, r>> \notin executed

\* There is a reason for the value v of row r, in Redis or in a load that will SET it
\* unless the key is deleted first.
Fits(r, v) ==
    \/ v = Miss \/ v = db[r]
    \/ \E n \in 1 .. Len(events) : r \in Keys(n) /\ Due(n, r)
    \/ r \in uncleared
    \/ Ids = "uuid" /\ v = NoRow
    \/ SetAhead(r, v)

RedisIs == \A r \in Rows : Fits(r, redis[r]) \/ r \in overtaken
LoadsAre == \A l \in loads : l.passed \/ Fits(l.row, l.value)

\* A step that deletes the key of row r.
Dropped(r) == redis'[r] = Miss /\ \E S : r \in S /\ Passes(S)

LEMMA RedisImplies == LazyInv /\ RedisIs => RedisFollows
  <1> SUFFICES ASSUME LazyInv, NEW r \in Rows, Fits(r, redis[r]) \/ r \in overtaken
               PROVE  \/ redis[r] \in {Miss, db[r]}
                      \/ \E n \in 1 .. Len(events) :
                            r \in RowsOf(n) /\ (n \notin acked \/ \E g \in Groups : n \in todo[g])
                      \/ r \in uncleared \/ r \in overtaken
                      \/ Ids = "uuid" /\ redis[r] = NoRow
                      \/ SetAhead(r, redis[r])
    BY DEF RedisFollows, RedisIs, SetAhead
  <1>1. ASSUME NEW n \in 1 .. Len(events), r \in Keys(n), Due(n, r)
        PROVE  r \in RowsOf(n) /\ (n \notin acked \/ \E g \in Groups : n \in todo[g])
    <2>1. r \in RowsOf(n) /\ GroupOf(n, r) \in Groups
      BY <1>1, GroupOfGroups DEF Keys
    <2> QED
      BY <1>1, <2>1, LeastKept DEF Due, Waits, InGroup, Clearing
  <1> QED
    BY <1>1 DEF Fits

\* A row that Redis, the database and the statements leave alone.
LEMMA FitsKept ==
  ASSUME LazyInv, [Next]_vars, NEW r \in Rows, NEW v, Fits(r, v),
         db'[r] = db[r], r \in uncleared => r \in uncleared',
         \A n : <<n, r>> \in executed' => <<n, r>> \in executed,
         \A n \in 1 .. Len(events) : r \in Keys(n) /\ Due(n, r) => Due(n, r)' \/ r \in uncleared'
  PROVE  Fits(r, v)'
  <1>a. Types
    BY DEF LazyInv
  <1>1. ASSUME NEW n \in 1 .. Len(events), r \in Keys(n), Due(n, r) PROVE Fits(r, v)'
    <2>1. n \in 1 .. Len(events') /\ r \in Keys(n)'
      BY <1>a, <1>1, Kept
    <2> QED
      BY <1>1, <2>1 DEF Fits
  <1>2. CASE SetAhead(r, v)
    <2>1. v \in 1 .. Len(events)
      BY <1>2 DEF SetAhead
    <2>2. Ids = "uuid" /\ r \in Inserted(v) /\ <<v, r>> \notin executed'
      BY <1>2 DEF SetAhead
    <2>3. v \in 1 .. Len(events') /\ r \in Inserted(v)'
      BY <1>a, <2>1, <2>2, Kept
    <2>4. SetAhead(r, v)'
      BY <2>2, <2>3 DEF SetAhead
    <2> QED
      BY <2>4 DEF Fits
  <1> QED
    BY <1>1, <1>2 DEF Fits

\* What is due stays due where only events or the place of an insert goroutine change,
\* short of its acknowledgement.
LEMMA DueKept ==
  ASSUME LazyInv, [Next]_vars, UNCHANGED <<acked, todo>>, NEW n \in 1 .. Len(events), NEW r \in Rows,
         Due(n, r), \A g \in Groups : run[g] \in {"ack", "clear"} => run'[g] = run[g],
         \A p \in Pools : n \in Least(left'[p]) /\ at'[p] = "ack" =>
            n \in Least(left[p]) /\ at[p] = "ack"
  PROVE  Due(n, r)'
  <1>1. GroupOf(n, r)' = GroupOf(n, r)
    BY Kept DEF LazyInv
  <1>2. CASE Waits(n)
    BY <1>2 DEF Waits, Due
  <1>3. CASE InGroup(n, r) \/ Clearing(n)
    BY <1>1, <1>3, GroupOfGroups DEF InGroup, Clearing, Due
  <1> QED
    BY <1>2, <1>3 DEF Due

\* A process that dies leaves its keys: an event not acknowledged is delivered again.
LEMMA DueOrUncleared ==
  ASSUME LazyInv, BatchInv, [Next]_vars, NEW n \in 1 .. Len(events), NEW r \in Keys(n),
         acked' = acked, Due(n, r), \A p \in Pools : left'[p] = {},
         \A g \in Groups : Unfinished(g) \subseteq uncleared'
  PROVE  Due(n, r)' \/ r \in uncleared'
  <1>a. r \in RowsOf(n) /\ GroupOf(n, r) \in Groups
    BY EventRows, GroupOfGroups DEF Keys, LazyInv
  <1>1. CASE n \notin acked
    BY <1>1, LeastKept DEF Waits, Due
  <1>2. CASE n \in acked
    <2>1. PICK g \in Groups : n \in todo[g] /\ run[g] \in {"ack", "clear"}
      BY <1>a, <1>2, LeastKept DEF Due, Waits, InGroup, Clearing
    <2>2. r \in Unfinished(g)
      BY <1>2, <1>a, <2>1 DEF Unfinished
    <2> QED
      BY <2>2
  <1> QED
    BY <1>1, <1>2

LEMMA LeastOne ==
  ASSUME NEW S \in SUBSET Nat, NEW n \in Least(S), NEW m \in Least(S)
  PROVE  m = n
  BY DEF Least

\* The insert of a uuid row takes effect: Redis holds the value that was set ahead, or
\* one of the others that RedisFollows allows.
LEMMA UuidInserted ==
  ASSUME LazyInv, Histories, [Next]_vars, NEW r \in Rows, NEW v, Fits(r, v), Ids = "uuid",
         NEW k \in 1 .. Len(events), r \in Inserted(k), db[r] = NoRow, db'[r] = k,
         r \in uncleared => r \in uncleared',
         \A n \in 1 .. Len(events) : r \in Keys(n) /\ Due(n, r) => Due(n, r)'
  PROVE  Fits(r, v)'
  <1>a. Types
    BY DEF LazyInv
  <1>1. ASSUME NEW n \in 1 .. Len(events), r \in Keys(n), Due(n, r) PROVE Fits(r, v)'
    <2>1. n \in 1 .. Len(events') /\ r \in Keys(n)'
      BY <1>a, <1>1, Kept
    <2> QED
      BY <1>1, <2>1 DEF Fits
  <1>2. CASE SetAhead(r, v)
    <2>1. v \in 1 .. Len(events)
      BY <1>2 DEF SetAhead
    <2>2. r \in Inserted(v)
      BY <1>2 DEF SetAhead
    <2>3. v <= k /\ k <= v
      BY <2>1, <2>2 DEF Histories, InsertIsFirst, Inserted
    <2>4. v = db'[r]
      BY <2>1, <2>3
    <2> QED
      BY <2>4 DEF Fits
  <1> QED
    BY <1>1, <1>2 DEF Fits

LEMMA FitsQuery ==
  ASSUME LazyInv, BatchInv, Histories, [Next]_vars, NEW r \in Rows, NEW v, Fits(r, v),
         NEW p \in Pools, Query(p)
  PROVE  Fits(r, v)'
  <1>a. Types /\ LeftUnacked
    BY DEF LazyInv, BatchInv
  <1>1. PICK k \in Least(left[p]), S \in SUBSET Rows :
           /\ S \subseteq RowsOf(k) \ ran[p] /\ k \in 1 .. Len(events)
           /\ \/ /\ ~Duplicate(k, S, db) /\ db' = Effect(k, S, db)
                 /\ executed' = executed \cup ({k} \X S)
              \/ UNCHANGED <<db, executed>>
    BY QueryWrites
  <1>2. UNCHANGED <<uncleared, acked, left, todo, run>>
    BY DEF Query, streamVars, groupVars
  <1>3. at[p] = "query" /\ at'[p] # "ack" /\ \A q \in Pools \ {p} : at'[q] = at[q]
    BY <1>a DEF Query, Types
  <1>4. \A n \in 1 .. Len(events) : Due(n, r) => Due(n, r)'
    BY <1>2, <1>3, DueKept
  <1>5. CASE UNCHANGED <<db, executed>>
    BY <1>2, <1>4, <1>5, FitsKept
  <1>6. CASE r \notin S
    <2>1. db'[r] = db[r] /\ \A n : <<n, r>> \in executed' => <<n, r>> \in executed
      BY <1>1, <1>6 DEF Effect
    <2> QED
      BY <1>2, <1>4, <2>1, FitsKept
  <1>7. CASE r \in S /\ r \in Keys(k)
    <2>1. k \in left[p] /\ k \notin acked /\ \A q \in Pools \ {p} : k \notin left[q]
      BY <1>a, LeastKept DEF LeftUnacked
    <2>2. Waits(k)'
      BY <1>2, <1>3, <2>1, LeastKept DEF Waits
    <2>3. k \in 1 .. Len(events') /\ r \in Keys(k)'
      BY <1>a, <1>1, <1>7, Kept
    <2> QED
      BY <2>2, <2>3 DEF Fits, Due
  <1>8. CASE r \in S /\ r \notin Keys(k) /\ ~Duplicate(k, S, db) /\ db' = Effect(k, S, db)
    <2>1. Ids = "uuid" /\ r \in Inserted(k)
      BY <1>1, <1>8 DEF Keys
    <2>2. db[r] = NoRow
      BY <1>8, <2>1 DEF Duplicate
    <2>3. db'[r] = k
      BY <1>8, <2>1 DEF Effect, Inserted
    <2> QED
      BY <1>1, <1>2, <1>4, <2>1, <2>2, <2>3, UuidInserted
  <1> QED
    BY <1>1, <1>5, <1>6, <1>7, <1>8

LEMMA FitsExecute ==
  ASSUME LazyInv, BatchInv, Histories, [Next]_vars, NEW r \in Rows, NEW v, Fits(r, v),
         NEW g \in Groups, Execute(g)
  PROVE  Fits(r, v)'
  <1> DEFINE T == Touching(g, Len(events), r)
  <1>a. Types
    BY DEF LazyInv
  <1>1. UNCHANGED <<uncleared, acked, left, at, todo>>
    BY DEF Execute, streamVars, insertVars
  <1>2. run[g] = "query" /\ run'[g] = "ack" /\ \A h \in Groups \ {g} : run'[h] = run[h]
    BY <1>a, ExecuteWrites DEF Types
  <1>3. \A n \in 1 .. Len(events) : Due(n, r) => Due(n, r)'
    BY <1>1, <1>2, DueKept
  <1>4. Follows(g, Len(events), db', TRUE)
    BY ExecuteWrites
  <1>5. \A n : n \in T <=> n \in todo[g] /\ r \in RowsIn(n, g)
    BY <1>a DEF Touching, Types
  <1>6. \A n \in T : n \in 1 .. Len(events) /\ GroupOf(n, r) = g /\ r \in RowsOf(n)
    BY <1>a, <1>5 DEF RowsIn, Types
  <1>7. CASE T = {}
    <2>1. db'[r] = db[r]
      BY <1>4, <1>7 DEF Follows
    <2>2. \A n : <<n, r>> \in executed' => <<n, r>> \in executed
      BY <1>5, <1>7, ExecuteWrites
    <2> QED
      BY <1>1, <1>3, <2>1, <2>2, FitsKept
  <1>8. ASSUME NEW n \in T, r \in Keys(n) PROVE Fits(r, v)'
    <2>1. n \in 1 .. Len(events') /\ r \in Keys(n)' /\ GroupOf(n, r)' = g
      BY <1>a, <1>6, <1>8, Kept
    <2>2. InGroup(n, r)'
      BY <1>1, <1>2, <1>5, <2>1 DEF InGroup
    <2> QED
      BY <2>1, <2>2 DEF Fits, Due
  <1>9. CASE T # {} /\ \A n \in T : r \notin Keys(n)
    <2>1. Ids = "uuid" /\ \A n \in T : r \in Inserted(n)
      BY <1>6, <1>9 DEF Keys
    <2>2. \A n, m \in T : n <= m
      BY <1>6, <2>1 DEF Histories, InsertIsFirst
    <2>3. PICK k \in T : TRUE
      BY <1>9
    <2> HIDE DEF T
    <2>4. k \in Touching(g, Len(events), r) /\ r \in Inserted(k)
      BY <2>1 DEF T
    <2>5. Leaves(k, r, db'[r])
      <3>1. \A m \in Touching(g, Len(events), r) : m <= k
        BY <2>2 DEF T
      <3> QED
        BY <1>4, <2>4, <3>1 DEF Follows
    <2>6. db[r] = NoRow
      <3>1. \A m \in Touching(g, Len(events), r) : k <= m
        BY <2>2 DEF T
      <3> QED
        BY <1>4, <2>1, <2>4, <3>1 DEF Follows
    <2>7. db'[r] = k
      BY <2>4, <2>5 DEF Leaves, Inserted
    <2> QED
      BY <1>1, <1>3, <1>6, <2>1, <2>4, <2>6, <2>7, UuidInserted
  <1> QED
    BY <1>7, <1>8, <1>9

\* A step that changes no row, only who works on the events.
LEMMA FitsWork ==
  ASSUME LazyInv, [Next]_vars, NEW r \in Rows, NEW v, Fits(r, v), UNCHANGED <<db, executed>>,
         uncleared \subseteq uncleared',
         \A n \in 1 .. Len(events) : r \in Keys(n) /\ Due(n, r) => Due(n, r)' \/ r \in uncleared'
  PROVE  Fits(r, v)'
  BY FitsKept

\* A deletion of the keys of event k's rows.
LEMMA FitsClear ==
  ASSUME LazyInv, [Next]_vars, NEW r \in Rows, NEW v, Fits(r, v), UNCHANGED <<db, executed>>,
         NEW k \in 1 .. Len(events),
         redis' = [s \in Rows |-> IF s \in Keys(k) THEN Miss ELSE redis[s]],
         Passes(Keys(k)), uncleared' = uncleared \ Keys(k),
         \A n \in 1 .. Len(events) : n # k /\ Due(n, r) => Due(n, r)'
  PROVE  Fits(r, v)' \/ Dropped(r)
  <1>1. CASE r \in Keys(k)
    BY <1>1 DEF Dropped
  <1>2. CASE r \notin Keys(k)
    BY <1>2, FitsKept
  <1> QED
    BY <1>1, <1>2

LEMMA FitsFlush ==
  ASSUME LazyInv, [Next]_vars, NEW r \in Rows, NEW v, Fits(r, v),
         NEW changes \in Flushes, FlushLazy(changes)
  PROVE  Fits(r, v)' \/ Dropped(r)
  <1>1. UNCHANGED <<acked, db, executed, left, at, run, todo>>
    BY DEF FlushLazy, insertVars, groupVars
  <1>2. PICK deleted \in SUBSET DOMAIN changes :
           /\ \A s \in deleted \cap Rows : redis'[s] = Miss
           /\ Passes(deleted) /\ uncleared' = uncleared \ deleted
    BY DEF FlushLazy
  <1>3. CASE r \in deleted
    BY <1>2, <1>3 DEF Dropped
  <1>4. CASE r \notin deleted
    <2>1. \A n \in 1 .. Len(events) : Due(n, r) => Due(n, r)'
      BY <1>1, DueKept
    <2> QED
      BY <1>1, <1>2, <1>4, <2>1, FitsKept
  <1> QED
    BY <1>3, <1>4

\* No step takes away the reason of a value, but a deletion of its key.
LEMMA FitsStep ==
  ASSUME LazyInv, BatchInv, Histories, [Next]_vars, NEW r \in Rows, NEW v, Fits(r, v)
  PROVE  Fits(r, v)' \/ Dropped(r)
  <1>a. /\ Types /\ InsertGoroutines /\ GroupGoroutines
        /\ InsertsHeld /\ OthersHeld /\ GroupsAck
    BY DEF LazyInv, BatchInv
  <1>b. \A n \in 1 .. Len(events) : r \in Keys(n) => r \in RowsOf(n) /\ GroupOf(n, r) \in Groups
    BY GroupOfGroups DEF Keys
  <1>c. ASSUME \A p \in Pools : left[p] = {} PROVE \A n : n \notin acked => Waits(n)
    BY <1>c DEF Waits, Least
  <1>d. phase = "groups" => \A p \in Pools : left[p] = {}
    BY <1>a DEF InsertGoroutines, InsertGoroutine
  <1>e. ASSUME \A g \in Groups : todo[g] = {}
        PROVE  \A n \in 1 .. Len(events) : r \in Keys(n) /\ Due(n, r) => Waits(n)
    BY <1>b, <1>e DEF Due, InGroup, Clearing, Least
  <1>f. phase # "groups" => \A g \in Groups : todo[g] = {}
    BY <1>a DEF GroupGoroutines, GroupGoroutine
  <1>1. ASSUME NEW changes \in Flushes, FlushLazy(changes) PROVE Fits(r, v)' \/ Dropped(r)
    BY <1>1, FitsFlush
  <1>2. CASE LoadStep
    <2>1. \A n \in 1 .. Len(events) : Due(n, r) => Due(n, r)'
      BY <1>2, LoadLeaves, DueKept
    <2> QED
      BY <1>2, <2>1, LoadLeaves, FitsKept
  <1>3. CASE Take
    <2>1. /\ UNCHANGED <<db, executed, uncleared, acked, at, run, todo>>
      BY <1>3 DEF Take, streamVars, groupVars, historyVars
    <2>2. \A p \in Pools : at'[p] = "query"
      BY <1>3, <1>a, <2>1 DEF Take, InsertGoroutines, InsertGoroutine
    <2>3. \A n \in 1 .. Len(events) : Due(n, r) => Due(n, r)'
      BY <2>1, <2>2, DueKept
    <2> QED
      BY <2>1, <2>3, FitsWork
  <1>4. CASE InsertsDone
    <2>1. UNCHANGED <<db, executed, uncleared, acked, left, at>> /\ phase = "inserts"
      BY <1>4 DEF InsertsDone, streamVars, insertVars, historyVars
    <2>2. \A n \in 1 .. Len(events) : r \in Keys(n) /\ Due(n, r) => Waits(n)
      BY <1>e, <1>f, <2>1
    <2>3. \A n : Waits(n) => Due(n, r)'
      BY <2>1 DEF Waits, Due
    <2> QED
      BY <2>1, <2>2, <2>3, FitsWork
  <1>5. CASE BatchDone
    <2>1. /\ UNCHANGED <<db, executed, uncleared, events>> /\ phase = "groups" /\ Restart
          /\ acked' = IF lazyError THEN acked ELSE acked \cup batch
      BY <1>5 DEF BatchDone, historyVars
    <2>2. \A g \in Groups : todo[g] = {}
      BY <1>5, <1>a DEF BatchDone, GroupGoroutines, GroupGoroutine
    <2>3. ASSUME NEW n \in 1 .. Len(events), r \in Keys(n), n \notin acked, ~lazyError
          PROVE  n \notin batch
      <3>1. CASE IsInsert(n)
        BY <1>a, <1>d, <2>1, <2>3, <3>1 DEF InsertsHeld
      <3>2. CASE ~IsInsert(n)
        <4>1. GroupOf(n, r) \in Groups /\ r \in RowsIn(n, GroupOf(n, r))
          BY <1>b, <2>3 DEF RowsIn
        <4> QED
          BY <1>a, <2>1, <2>2, <2>3, <3>2, <4>1 DEF OthersHeld
      <3> QED
        BY <3>1, <3>2
    <2>4. ASSUME NEW n \in 1 .. Len(events), r \in Keys(n), Due(n, r) PROVE Due(n, r)'
      <3>1. n \notin acked
        BY <1>e, <2>2, <2>4 DEF Waits
      <3>2. n \notin acked'
        BY <2>1, <2>3, <2>4, <3>1
      <3>3. \A p \in Pools : left'[p] = {}
        BY <2>1, RestartTypes
      <3> QED
        BY <3>2, <3>3 DEF Due, Waits, Least
    <2> QED
      BY <2>1, <2>4, FitsWork
  <1>6. ASSUME NEW p \in Pools, Query(p) PROVE Fits(r, v)'
    BY <1>6, FitsQuery
  <1>7. ASSUME Die, UNCHANGED <<db, executed, acked>> PROVE Fits(r, v)'
    <2>1. /\ \A p \in Pools : left'[p] = {}
          /\ \A g \in Groups : Unfinished(g) \subseteq uncleared'
          /\ uncleared \subseteq uncleared'
      BY <1>7, RestartTypes DEF Die
    <2>2. \A n \in 1 .. Len(events) : r \in Keys(n) /\ Due(n, r) => Due(n, r)' \/ r \in uncleared'
      BY <1>7, <2>1, DueOrUncleared
    <2> QED
      BY <1>7, <2>1, <2>2, FitsWork
  <1>8. ASSUME NEW p \in Pools, QueryPanics(p) \/ ClearPanics(p) PROVE Fits(r, v)'
    BY <1>7, <1>8 DEF QueryPanics, ClearPanics, streamVars
  <1>9. CASE Crash
    BY <1>7, <1>9 DEF Crash, streamVars
  <1>10. ASSUME NEW p \in Pools, Clear(p) PROVE Fits(r, v)' \/ Dropped(r)
    <2>1. PICK k \in Least(left[p]) :
             /\ redis' = [s \in Rows |-> IF s \in Keys(k) THEN Miss ELSE redis[s]]
             /\ Passes(Keys(k)) /\ uncleared' = uncleared \ Keys(k)
      BY <1>10 DEF Clear
    <2>2. UNCHANGED <<db, executed, acked, left, run, todo>>
      BY <1>10 DEF Clear, streamVars, groupVars
    <2>3. \A q \in Pools \ {p} : at'[q] = at[q]
      BY <1>10, <1>a DEF Clear, Types
    <2>4. left[p] \in SUBSET Nat /\ k \in 1 .. Len(events)
      BY <1>a, LeastKept DEF Types
    <2>5. \A n \in Least(left[p]) : n = k
      BY <2>4, LeastOne
    <2>6. \A n \in 1 .. Len(events) : n # k /\ Due(n, r) => Due(n, r)'
      BY <2>2, <2>3, <2>5, DueKept
    <2> QED
      BY <2>1, <2>2, <2>4, <2>6, FitsClear
  <1>11. ASSUME NEW p \in Pools, Ack(p) PROVE Fits(r, v)'
    <2>1. PICK k \in Least(left[p]) :
             /\ at[p] = "ack" /\ acked' = acked \cup {k} /\ at' = [at EXCEPT ![p] = "query"]
             /\ left' = [left EXCEPT ![p] = @ \ {k}]
      BY <1>11 DEF Ack
    <2>2. UNCHANGED <<db, executed, uncleared>>
      BY <1>11 DEF Ack, historyVars
    <2>3. left[p] # {}
      BY <2>1, LeastKept
    <2>4. \A n \in 1 .. Len(events) : r \in Keys(n) /\ Due(n, r) => Waits(n)
      BY <1>d, <1>e, <1>f, <2>3
    <2>5. ASSUME NEW n, Waits(n) PROVE Due(n, r)'
      <3>1. n # k
        BY <2>1, <2>5 DEF Waits
      <3>2. \A q \in Pools : ~(n \in Least(left'[q]) /\ at'[q] = "ack")
        BY <1>a, <2>1, <2>5 DEF Waits, Types
      <3> QED
        BY <2>1, <2>5, <3>1, <3>2 DEF Waits, Due
    <2> QED
      BY <2>2, <2>4, <2>5, FitsWork
  <1>12. ASSUME NEW g \in Groups, Execute(g) PROVE Fits(r, v)'
    BY <1>12, FitsExecute
  <1>13. ASSUME NEW g \in Groups, Refused(g) \/ Fails(g) PROVE Fits(r, v)'
    <2>1. /\ UNCHANGED <<db, executed, uncleared, acked, left, at>> /\ run[g] = "query"
      BY <1>13 DEF Refused, Fails, streamVars, insertVars
    <2>2. CASE LetGo(g)
      <3>1. todo' = todo /\ \A h \in Groups : run[h] \in {"ack", "clear"} => run'[h] = run[h]
        BY <1>a, <2>1, <2>2 DEF LetGo, Types
      <3>2. \A n \in 1 .. Len(events) : Due(n, r) => Due(n, r)'
        BY <2>1, <3>1, DueKept
      <3> QED
        BY <2>1, <3>2, FitsWork
    <2>3. CASE Panic(g)
      <3>1. \A h \in Groups \ {g} : run'[h] = run[h] /\ todo'[h] = todo[h]
        BY <1>a, <2>3 DEF Panic, Types
      <3>2. ASSUME NEW n \in 1 .. Len(events), r \in Keys(n), Due(n, r) PROVE Due(n, r)'
        <4>1. GroupOf(n, r)' = GroupOf(n, r)
          BY <1>a, Kept
        <4>2. CASE Waits(n)
          BY <2>1, <4>2 DEF Waits, Due
        <4>3. CASE InGroup(n, r)
          BY <1>b, <2>1, <3>1, <3>2, <4>1, <4>3 DEF InGroup, Due
        <4>4. CASE Clearing(n)
          BY <2>1, <3>1, <4>4 DEF Clearing, Due
        <4> QED
          BY <3>2, <4>2, <4>3, <4>4 DEF Due
      <3> QED
        BY <2>1, <3>2, FitsWork
    <2> QED
      BY <1>13, <2>2, <2>3 DEF Refused, Fails
  <1>14. ASSUME NEW g \in Groups, GroupAck(g) PROVE Fits(r, v)'
    <2>1. PICK k \in Least(todo[g]) :
             /\ run[g] = "ack" /\ run' = [run EXCEPT ![g] = "clear"]
             /\ acked' = acked \cup {k} /\ todo' = todo
      BY <1>14 DEF GroupAck
    <2>2. UNCHANGED <<db, executed, uncleared, left, at>>
      BY <1>14 DEF GroupAck, historyVars, insertVars
    <2>3. run'[g] = "clear" /\ \A h \in Groups \ {g} : run'[h] = run[h]
      BY <1>a, <2>1 DEF Types
    <2>4. ASSUME NEW n \in 1 .. Len(events), r \in Keys(n), Due(n, r) PROVE Due(n, r)'
      <3>1. CASE n = k
        BY <2>1, <2>3, <3>1 DEF Clearing, Due
      <3>2. CASE n # k /\ Waits(n)
        BY <2>1, <2>2, <3>2 DEF Waits, Due
      <3>3. CASE InGroup(n, r)
        <4>1. GroupOf(n, r)' = GroupOf(n, r)
          BY <1>a, Kept
        <4> QED
          BY <1>b, <2>1, <2>3, <2>4, <3>3, <4>1 DEF InGroup, Due
      <3>4. CASE Clearing(n)
        BY <2>1, <2>3, <3>4 DEF Clearing, Due
      <3> QED
        BY <2>4, <3>1, <3>2, <3>3, <3>4 DEF Due
    <2> QED
      BY <2>2, <2>4, FitsWork
  <1>15. ASSUME NEW g \in Groups, GroupClear(g) PROVE Fits(r, v)' \/ Dropped(r)
    <2>1. PICK k \in Least(todo[g]) :
             /\ redis' = [s \in Rows |-> IF s \in Keys(k) THEN Miss ELSE redis[s]]
             /\ Passes(Keys(k)) /\ uncleared' = uncleared \ Keys(k)
             /\ run' = [run EXCEPT ![g] = IF todo[g] = {k} THEN "done" ELSE "ack"]
             /\ todo' = [todo EXCEPT ![g] = @ \ {k}]
      BY <1>15 DEF GroupClear
    <2>2. UNCHANGED <<db, executed, acked, left, at>>
      BY <1>15 DEF GroupClear, streamVars, insertVars
    <2>3. /\ todo'[g] = todo[g] \ {k} /\ run'[g] = IF todo[g] = {k} THEN "done" ELSE "ack"
          /\ \A h \in Groups \ {g} : run'[h] = run[h] /\ todo'[h] = todo[h]
      BY <1>a, <2>1 DEF Types
    <2>4. todo[g] \in SUBSET Nat /\ k \in 1 .. Len(events)
      BY <1>a, LeastKept DEF Types
    <2>5. \A n \in Least(todo[g]) : n = k
      BY <2>4, LeastOne
    <2>6. ASSUME NEW n \in 1 .. Len(events), n # k, Due(n, r) PROVE Due(n, r)'
      <3>1. CASE Waits(n)
        BY <2>2, <3>1 DEF Waits, Due
      <3>2. CASE InGroup(n, r)
        <4>1. GroupOf(n, r)' = GroupOf(n, r)
          BY <1>a, Kept
        <4>2. CASE GroupOf(n, r) = g
          BY <2>3, <2>6, <3>2, <4>1, <4>2 DEF InGroup, Due
        <4>3. CASE GroupOf(n, r) # g
          <5>1. GroupOf(n, r) \in Groups
            BY GroupOfGroups
          <5> QED
            BY <2>3, <3>2, <4>1, <4>3, <5>1 DEF InGroup, Due
        <4> QED
          BY <4>2, <4>3
      <3>3. CASE Clearing(n)
        <4>1. PICK h \in Groups : n \in Least(todo[h]) /\ run[h] = "clear"
          BY <3>3 DEF Clearing
        <4>2. h # g
          BY <2>5, <2>6, <4>1
        <4> QED
          BY <2>3, <4>1, <4>2 DEF Clearing, Due
      <3> QED
        BY <2>6, <3>1, <3>2, <3>3 DEF Due
    <2> QED
      BY <2>1, <2>2, <2>4, <2>6, FitsClear
  <1>16. ASSUME NEW g \in Groups, GroupClearPanics(g) PROVE Fits(r, v)'
    <2>1. /\ UNCHANGED <<db, executed, acked, left, at>> /\ run[g] = "clear"
          /\ uncleared' = uncleared \cup Unfinished(g) /\ Panic(g)
      BY <1>16 DEF GroupClearPanics, streamVars, insertVars
    <2>2. \A h \in Groups \ {g} : run'[h] = run[h] /\ todo'[h] = todo[h]
      BY <1>a, <2>1 DEF Panic, Types
    <2>3. phase = "groups"
      BY <1>a, <2>1 DEF GroupGoroutines, GroupGoroutine
    <2>4. \A n : n \notin acked => Waits(n)
      BY <1>c, <1>d, <2>3
    <2>5. ASSUME NEW n \in 1 .. Len(events), r \in Keys(n), Due(n, r)
          PROVE  Due(n, r)' \/ r \in uncleared'
      <3>1. CASE n \notin acked
        <4>1. Waits(n)
          BY <2>4, <3>1
        <4> QED
          BY <2>1, <4>1 DEF Waits, Due
      <3>2. CASE n \in acked
        <4>1. CASE n \in todo[g]
          BY <1>b, <2>1, <2>5, <3>2, <4>1 DEF Unfinished
        <4>2. CASE n \notin todo[g] /\ InGroup(n, r)
          <5>1. GroupOf(n, r)' = GroupOf(n, r) /\ GroupOf(n, r) # g
            BY <1>a, <4>2, Kept DEF InGroup
          <5> QED
            BY <1>b, <2>2, <2>5, <4>2, <5>1 DEF InGroup, Due
        <4>3. CASE n \notin todo[g] /\ Clearing(n)
          <5>1. PICK h \in Groups : n \in Least(todo[h]) /\ run[h] = "clear"
            BY <4>3 DEF Clearing
          <5>2. h # g
            BY <4>3, <5>1, LeastKept
          <5> QED
            BY <2>2, <5>1, <5>2 DEF Clearing, Due
        <4> QED
          BY <2>5, <3>2, <4>1, <4>2, <4>3 DEF Due, Waits
      <3> QED
        BY <3>1, <3>2
    <2> QED
      BY <2>1, <2>5, FitsWork
  <1>17. CASE UNCHANGED vars
    <2>1. UNCHANGED <<db, executed, uncleared, acked, left, at, run, todo>>
      BY <1>17 DEF vars, streamVars, insertVars, groupVars, historyVars
    <2>2. \A n \in 1 .. Len(events) : Due(n, r) => Due(n, r)'
      BY <2>1, DueKept
    <2> QED
      BY <2>1, <2>2, FitsWork
  <1> QED
    BY <1>1, <1>2, <1>3, <1>4, <1>5, <1>6, <1>8, <1>9, <1>10, <1>11, <1>12, <1>13, <1>14, <1>15,
       <1>16, <1>17 DEF Next, Consumer, LoadStep

\* Where the value of a key comes from: it stays, is deleted, SET by a load or by the
\* flush of a new uuid row.
LEMMA RedisMoves ==
  ASSUME LazyInv, [Next]_vars, NEW r \in Rows
  PROVE  \/ redis'[r] = redis[r] /\ (r \in overtaken => r \in overtaken')
         \/ redis'[r] = Miss
         \/ \E l \in loads : /\ l.row = r /\ redis'[r] = l.value /\ db' = db
                             /\ l.passed => l.value = db[r] \/ r \in overtaken'
         \/ Ids = "uuid" /\ SetAhead(r, redis[r])'
  <1> DEFINE Goal == \/ redis'[r] = redis[r] /\ (r \in overtaken => r \in overtaken')
                     \/ redis'[r] = Miss
                     \/ \E l \in loads : /\ l.row = r /\ redis'[r] = l.value /\ db' = db
                                         /\ l.passed => l.value = db[r] \/ r \in overtaken'
                     \/ Ids = "uuid" /\ SetAhead(r, redis[r])'
  <1>a. /\ Types /\ Values /\ LoadsOK /\ redis \in [Rows -> {Miss} \cup ValueSet]
    BY DEF LazyInv, Values
  <1>1. CASE UNCHANGED <<redis, overtaken>>
    BY <1>1
  <1>2. ASSUME NEW changes \in Flushes, FlushLazy(changes) PROVE Goal
    <2>0. PICK k : k = Len(events) + 1
      OBVIOUS
    <2>1. /\ k \in 1 .. Len(events') /\ k \notin 1 .. Len(events)
          /\ Inserted(k)' = {s \in DOMAIN changes : changes[s] = "I"}
      BY <1>a, <1>2, <2>0, Flushed
    <2>2. \/ redis'[r] = redis[r] /\ (r \in overtaken => r \in overtaken')
          \/ redis'[r] = Miss
          \/ redis'[r] = k /\ Ids = "uuid" /\ r \in Inserted(k)'
      BY <1>2, <2>0, <2>1 DEF FlushLazy, Passes
    <2>3. CASE redis'[r] = k /\ Ids = "uuid" /\ r \in Inserted(k)'
      <3>1. <<k, r>> \notin executed'
        BY <1>a, <1>2, <2>1 DEF Values, FlushLazy
      <3> QED
        BY <2>1, <2>3, <3>1 DEF SetAhead
    <2> QED
      BY <2>2, <2>3
  <1>3. ASSUME NEW n, redis' = [s \in Rows |-> IF s \in Keys(n) THEN Miss ELSE redis[s]],
               Passes(Keys(n))
        PROVE  Goal
    BY <1>3 DEF Passes
  <1>4. ASSUME NEW p \in Pools, Clear(p) PROVE Goal
    BY <1>3, <1>4 DEF Clear
  <1>5. ASSUME NEW g \in Groups, GroupClear(g) PROVE Goal
    BY <1>3, <1>5 DEF GroupClear
  <1>6. CASE LoadStep
    <2>1. ASSUME NEW s \in Rows, LoadSelects(s) PROVE Goal
      BY <2>1 DEF LoadSelects
    <2>2. ASSUME NEW s \in Rows, Evict(s) PROVE Goal
      BY <1>a, <2>2 DEF Evict
    <2>3. ASSUME NEW l \in loads, LoadSets(l) PROVE Goal
      <3>1. l.row \in Rows
        BY <1>a DEF LoadsOK
      <3>2. CASE l.row = r
        BY <1>a, <2>3, <3>1, <3>2 DEF LoadSets
      <3>3. CASE l.row # r
        BY <1>a, <2>3, <3>1, <3>3 DEF LoadSets
      <3> QED
        BY <3>2, <3>3
    <2> QED
      BY <1>6, <2>1, <2>2, <2>3 DEF LoadStep
  <1> QED
    BY <1>1, <1>2, <1>4, <1>5, <1>6, LoadsMove

LEMMA RedisStep ==
  LazyInv /\ BatchInv /\ Histories /\ RedisIs /\ LoadsAre /\ [Next]_vars => RedisIs'
  <1> SUFFICES ASSUME LazyInv, BatchInv, Histories, RedisIs, LoadsAre, [Next]_vars,
                      NEW r \in Rows
               PROVE  (Fits(r, redis[r]) \/ r \in overtaken)'
    BY DEF RedisIs
  <1>1. ASSUME NEW v, v = redis'[r], Fits(r, v)' \/ Dropped(r)
        PROVE  (Fits(r, redis[r]) \/ r \in overtaken)'
    BY <1>1 DEF Fits, SetAhead, Dropped
  <1>2. CASE redis'[r] = Miss
    BY <1>2 DEF Fits
  <1>3. CASE redis'[r] = redis[r] /\ (r \in overtaken => r \in overtaken')
    <2>1. CASE r \in overtaken
      BY <1>3, <2>1
    <2>2. CASE Fits(r, redis[r])
      <3>1. PICK v : v = redis[r]
        OBVIOUS
      <3>2. Fits(r, v)
        BY <2>2, <3>1
      <3> QED
        BY <1>1, <1>3, <3>1, <3>2, FitsStep
    <2> QED
      BY <2>1, <2>2 DEF RedisIs
  <1>4. ASSUME NEW l \in loads, l.row = r, redis'[r] = l.value, db' = db,
               l.passed => l.value = db[r] \/ r \in overtaken'
        PROVE  (Fits(r, redis[r]) \/ r \in overtaken)'
    <2>1. CASE l.passed
      BY <1>4, <2>1 DEF Fits
    <2>2. CASE ~l.passed
      <3>1. Fits(r, l.value)
        BY <1>4, <2>2 DEF LoadsAre
      <3> QED
        BY <1>1, <1>4, <3>1, FitsStep
    <2> QED
      BY <2>1, <2>2
  <1>5. CASE SetAhead(r, redis[r])'
    BY <1>5 DEF Fits
  <1> QED
    BY <1>2, <1>3, <1>4, <1>5, RedisMoves

\* Where the value of a load comes from.
LEMMA LoadMoves ==
  ASSUME LazyInv, [Next]_vars, NEW l \in loads'
  PROVE  \/ \E k \in loads : /\ l.row = k.row /\ l.value = k.value
                             /\ k.passed => l.passed
         \/ l.row \in Rows /\ l.value = db[l.row] /\ db' = db
  <1>a. LoadsOK
    BY DEF LazyInv
  <1>1. CASE UNCHANGED loads
    BY <1>1
  <1>2. ASSUME NEW S, Passes(S)
        PROVE  \E k \in loads : /\ l.row = k.row /\ l.value = k.value
                                /\ k.passed => l.passed
    BY <1>a, <1>2, PassesIs
  <1>3. CASE LoadStep
    BY <1>3 DEF LoadStep, LoadSelects, LoadSets, Evict
  <1>4. ASSUME NEW changes \in Flushes, FlushLazy(changes) PROVE \E S : Passes(S)
    BY <1>4 DEF FlushLazy
  <1>5. ASSUME NEW p \in Pools, Clear(p) PROVE \E S : Passes(S)
    BY <1>5 DEF Clear
  <1>6. ASSUME NEW g \in Groups, GroupClear(g) PROVE \E S : Passes(S)
    BY <1>6 DEF GroupClear
  <1> QED
    BY <1>1, <1>2, <1>3, <1>4, <1>5, <1>6, LoadsMove

LEMMA LoadsAreStep ==
  LazyInv /\ BatchInv /\ Histories /\ LoadsAre /\ [Next]_vars => LoadsAre'
  <1> SUFFICES ASSUME LazyInv, BatchInv, Histories, LoadsAre, [Next]_vars, NEW l \in loads'
               PROVE  l.passed \/ Fits(l.row, l.value)'
    BY DEF LoadsAre
  <1>a. LoadsOK
    BY DEF LazyInv
  <1>1. ASSUME NEW k \in loads, l.row = k.row, l.value = k.value, k.passed => l.passed
        PROVE  l.passed \/ Fits(l.row, l.value)'
    <2>1. CASE k.passed
      BY <1>1, <2>1
    <2>2. CASE ~k.passed
      <3>1. Fits(l.row, l.value) /\ l.row \in Rows
        BY <1>a, <1>1, <2>2 DEF LoadsAre, LoadsOK
      <3>2. Fits(l.row, l.value)' \/ Dropped(l.row)
        BY <3>1, FitsStep
      <3>3. CASE Dropped(l.row)
        BY <1>a, <3>3, PassesIs DEF Dropped
      <3> QED
        BY <3>2, <3>3
    <2> QED
      BY <2>1, <2>2
  <1>2. CASE l.row \in Rows /\ l.value = db[l.row] /\ db' = db
    BY <1>2 DEF Fits
  <1> QED
    BY <1>1, <1>2, LoadMoves

\* The keys of a row are cleared by whoever still works on one of its events: what
\* Redis holds is the committed value, or will be cleared, or was lost by a process that
\* died or panicked between acknowledging and clearing, or was SET after the clearing by
\* a load that had read the row before; uuid rows are set ahead of their insert.  For
\* any batch size, modulo, number of rows, pools, loads and faults.
THEOREM RedisIsCommittedOrCleared == Spec => []RedisFollows
  <1> DEFINE Inv == LazyInv /\ BatchInv /\ Histories /\ RedisIs /\ LoadsAre
  <1>1. Init => Inv
    <2>1. Init => RedisIs /\ LoadsAre
      BY DEF Init, RedisIs, LoadsAre, Fits
    <2> QED
      BY <2>1, LazyInit, BatchInit, HistoriesInit
  <1>2. Inv /\ [Next]_vars => Inv'
    BY LazyStep, BatchStep, HistoriesStep, RedisStep, LoadsAreStep
  <1>3. Inv => RedisFollows
    BY RedisImplies
  <1> HIDE DEF Inv
  <1> QED
    BY <1>1, <1>2, <1>3, PTL DEF Spec

-----------------------------------------------------------------------------
(* The order of the statements of a row, where inserts travel alone, no    *)
(* row is inserted again, and no fault meets an event spread over groups.  *)

NoSpans == \A n \in 1 .. Len(events) : ~Spans(n)
Calm ==
    /\ ~reborn /\ \A n \in 1 .. Len(events) : ~Mixed(n)
    /\ faults = 0 \/ NoSpans

\* One statement inserts the rows of a pool.
RanWhole ==
    \A p \in Pools : \A n \in Least(left[p]) : \A r \in ran[p] : \A s \in RowsOf(n) :
        PoolOf[r] = PoolOf[s] => s \in ran[p]

Together ==
    \A n \in 1 .. Len(events) : \A r \in Inserted(n) : \A s \in Inserted(n) :
        PoolOf[r] = PoolOf[s] /\ <<n, r>> \in executed => <<n, s>> \in executed

\* A row to insert is not there yet: only a statement run before is a duplicate.
FreshIsNoRow ==
    Ids # "auto" =>
        \A n \in 1 .. Len(events) : \A r \in Inserted(n) :
            <<n, r>> \notin executed => db[r] = NoRow

GivenUpIsExecuted ==
    \A n \in 1 .. Len(events) : \A r \in Inserted(n) :
        <<n, r>> \in givenUp => <<n, r>> \in executed

\* A row that is wanted and whose inserts were executed exists.
InsertedExists ==
    \A r \in Rows :
        want[r] # NoRow
        /\ (\A n \in 1 .. Len(events) : r \in Inserted(n) => <<n, r>> \in executed)
        => db[r] # NoRow

\* An event executed ahead of an earlier one on the same row will be executed again: it
\* is in the batch, or in the next.
Held(n) == IF phase = "idle" THEN n \in FirstN(Unacked, Count) ELSE n \in batch

Ahead(n, m, r) ==
    /\ <<n, r>> \in executed /\ r \in RowsOf(m) /\ m \notin acked /\ m < n
    /\ ~IsInsert(n) /\ ~IsInsert(m)

InOrder ==
    \A n, m \in 1 .. Len(events) : \A r \in Rows :
        Ahead(n, m, r) => Held(n) /\ (NoSpans => n \notin acked)

GroupInOrder ==
    \A g \in Groups : run[g] = "query" =>
        \A m \in todo[g] : \A n \in 1 .. Len(events) : \A r \in RowsIn(m, g) :
            <<n, r>> \in executed /\ m < n => n \in todo[g]

LastIsWant ==
    \A n \in 1 .. Len(events) : \A r \in Rows :
        LastOn(n, r) /\ <<n, r>> \in executed => db[r] = want[r]

Ordered ==
    /\ RanWhole /\ Together /\ FreshIsNoRow /\ GivenUpIsExecuted /\ InsertedExists
    /\ InOrder /\ GroupInOrder /\ LastIsWant

\* All that holds while it is calm.
InCalm == LazyInv /\ BatchInv /\ Histories /\ Calm /\ Ordered

-----------------------------------------------------------------------------
(* Events while it is calm.                                                *)

LEMMA CalmEvents ==
  ASSUME Types, Calm, NEW n \in 1 .. Len(events)
  PROVE  /\ IsInsert(n) => Inserted(n) = RowsOf(n)
         /\ ~IsInsert(n) => Inserted(n) = {}
         /\ ~IsInsert(n) => \A r \in RowsOf(n) :
                               GroupOf(n, r) = <<PoolOf[r], IdOf[r] % Modulo>>
  <1>1. ~Mixed(n)
    BY DEF Calm
  <1>2. IsInsert(n) => Inserted(n) = RowsOf(n)
    BY <1>1 DEF IsInsert, Mixed
  <1>3. ~IsInsert(n) => Inserted(n) = {}
    BY <1>1 DEF IsInsert, Mixed, Inserted
  <1>4. ASSUME ~IsInsert(n), NEW r \in RowsOf(n)
        PROVE  GroupOf(n, r) = <<PoolOf[r], IdOf[r] % Modulo>>
    <2>1. events[n][r] # "I"
      BY <1>3, <1>4 DEF Inserted
    <2> QED
      BY <2>1 DEF GroupOf
  <1> QED
    BY <1>2, <1>3, <1>4

\* Two events that are not inserts have a row in the same group.
LEMMA SameGroup ==
  ASSUME Types, Calm, NEW n \in 1 .. Len(events), NEW m \in 1 .. Len(events),
         ~IsInsert(n), ~IsInsert(m), NEW r \in RowsOf(n), r \in RowsOf(m)
  PROVE  /\ GroupOf(n, r) = GroupOf(m, r)
         /\ \A g : r \in RowsIn(n, g) <=> r \in RowsIn(m, g)
  BY CalmEvents DEF RowsIn

LEMMA CalmBefore == ASSUME Types, [Next]_vars, Calm' PROVE Calm /\ (NoSpans' => NoSpans)
  <1>1. NoSpans' => NoSpans
    BY Kept DEF NoSpans
  <1>2. \A n \in 1 .. Len(events) : ~Mixed(n)
    BY Kept DEF Calm
  <1>3. reborn => reborn'
    <2>1. ASSUME NEW changes \in Flushes, FlushLazy(changes) PROVE reborn => reborn'
      BY <2>1 DEF FlushLazy
    <2> QED
      BY <2>1, EventKinds
  <1>4. faults = 0 \/ NoSpans
    <2>1. faults' = 0 => ~(faults > 0)
      BY Monotone DEF Grows
    <2>2. faults \in Nat
      BY DEF Types
    <2> QED
      BY <1>1, <2>1, <2>2 DEF Calm
  <1> QED
    BY <1>1, <1>2, <1>3, <1>4 DEF Calm

\* What an insert goroutine acknowledged was executed.
LEMMA InsertExecuted ==
  ASSUME LazyInv, Calm, GivenUpIsExecuted, NEW n \in 1 .. Len(events), n \in acked,
         NEW r \in Inserted(n)
  PROVE  <<n, r>> \in executed
  <1>1. r \in RowsOf(n) /\ r \in Rows /\ IsInsert(n)
    BY EventRows, CalmEvents DEF Inserted, LazyInv
  <1>2. <<n, r>> \in executed \cup givenUp
    BY <1>1 DEF LazyInv, AckedIsExecuted, Spans
  <1> QED
    BY <1>2 DEF GivenUpIsExecuted

\* An insert of a row is before every other event of it.
LEMMA OneInsert ==
  ASSUME Histories, Calm, NEW n \in 1 .. Len(events), NEW m \in 1 .. Len(events), m # n,
         NEW r \in Inserted(n), r \in RowsOf(m)
  PROVE  n < m /\ r \notin Inserted(m)
  <1>1. n <= m
    BY DEF Histories, InsertIsFirst, Calm
  <1>2. r \in Inserted(m) => m <= n
    BY DEF Histories, InsertIsFirst, Calm, Inserted
  <1>3. n \in Int /\ m \in Int
    OBVIOUS
  <1> QED
    BY <1>1, <1>2, <1>3

LEMMA GivenUpKinds ==
  ASSUME [Next]_vars
  PROVE  \/ givenUp' = givenUp
         \/ \E p \in Pools : Query(p)
         \/ \E g \in Groups : run[g] = "query" /\ givenUp' = givenUp \cup Statements(g)
  <1>1. ASSUME NEW changes \in Flushes, FlushLazy(changes) PROVE givenUp' = givenUp
    BY <1>1 DEF FlushLazy
  <1>2. CASE LoadStep
    BY <1>2, LoadLeaves
  <1>3. CASE Take \/ InsertsDone \/ BatchDone \/ Crash \/ UNCHANGED vars
    BY <1>3 DEF Take, InsertsDone, BatchDone, Crash, vars, historyVars
  <1>4. ASSUME NEW p \in Pools, QueryPanics(p) \/ Clear(p) \/ ClearPanics(p) \/ Ack(p)
        PROVE  givenUp' = givenUp
    BY <1>4, Zenon DEF QueryPanics, Clear, ClearPanics, Ack, historyVars
  <1>5. ASSUME NEW g \in Groups,
               Execute(g) \/ GroupAck(g) \/ GroupClear(g) \/ GroupClearPanics(g)
        PROVE  givenUp' = givenUp
    BY <1>5, Zenon DEF Execute, GroupAck, GroupClear, GroupClearPanics, Panic, historyVars
  <1>6. ASSUME NEW g \in Groups, Refused(g) \/ Fails(g)
        PROVE  \/ givenUp' = givenUp
               \/ run[g] = "query" /\ givenUp' = givenUp \cup Statements(g)
    BY <1>6, Zenon DEF Refused, Fails, LetGo, Panic
  <1> QED
    BY <1>1, <1>2, <1>3, <1>4, <1>5, <1>6 DEF Next, Consumer, LoadStep

LEMMA RanKinds ==
  ASSUME [Next]_vars
  PROVE  \/ UNCHANGED <<left, ran>> \/ Take \/ Restart
         \/ \E p \in Pools : Query(p) \/ Ack(p)
  <1>1. ASSUME NEW changes \in Flushes, FlushLazy(changes) PROVE UNCHANGED <<left, ran>>
    BY <1>1 DEF FlushLazy, insertVars
  <1>2. CASE LoadStep
    BY <1>2, LoadLeaves
  <1>3. CASE InsertsDone \/ UNCHANGED vars
    BY <1>3 DEF InsertsDone, vars, insertVars
  <1>4. CASE BatchDone \/ Crash
    BY <1>4 DEF BatchDone, Crash, Die
  <1>5. ASSUME NEW p \in Pools, QueryPanics(p) \/ ClearPanics(p) PROVE Restart
    BY <1>5 DEF QueryPanics, ClearPanics, Die
  <1>6. ASSUME NEW p \in Pools, Clear(p) PROVE UNCHANGED <<left, ran>>
    BY <1>6 DEF Clear
  <1>7. ASSUME NEW g \in Groups,
               \/ Execute(g) \/ Refused(g) \/ Fails(g) \/ GroupAck(g) \/ GroupClear(g)
               \/ GroupClearPanics(g)
        PROVE  UNCHANGED <<left, ran>>
    BY <1>7, Zenon DEF Execute, Refused, Fails, GroupAck, GroupClear, GroupClearPanics,
                       insertVars
  <1> QED
    BY <1>1, <1>2, <1>3, <1>4, <1>5, <1>6, <1>7 DEF Next, Consumer, LoadStep

\* What an insert goroutine's statement writes while it is calm: the rows of a pool.
LEMMA CalmQuery ==
  ASSUME InCalm, NEW p \in Pools, Query(p)
  PROVE  \E n \in Least(left[p]), S \in SUBSET Rows :
            /\ n \in 1 .. Len(events) /\ n \notin acked /\ IsInsert(n)
            /\ S \subseteq Inserted(n) \ ran[p] /\ Inserted(n) = RowsOf(n)
            /\ \A r \in S : \A s \in RowsOf(n) \ ran[p] : PoolOf[r] = PoolOf[s] => s \in S
            /\ \A r, s \in S : PoolOf[r] = PoolOf[s]
            /\ ran' = [ran EXCEPT ![p] = @ \cup S]
            /\ \/ /\ db' = Effect(n, S, db) /\ executed' = executed \cup ({n} \X S)
                  /\ givenUp' = givenUp
               \/ /\ Duplicate(n, S, db) /\ givenUp' = givenUp \cup ({n} \X S)
                  /\ UNCHANGED <<db, executed>>
  <1>a. LazyInv /\ Types /\ Calm /\ LeftUnacked
    BY DEF InCalm, LazyInv, BatchInv
  <1>1. PICK n \in Least(left[p]), S \in SUBSET Rows :
            /\ S \in NextStatements(n, RowsOf(n) \ ran[p]) /\ S \subseteq RowsOf(n) \ ran[p]
            /\ n \in 1 .. Len(events) /\ IsInsert(n)
            /\ ran' = [ran EXCEPT ![p] = @ \cup S]
            /\ \/ /\ ~Duplicate(n, S, db) /\ db' = Effect(n, S, db)
                  /\ executed' = executed \cup ({n} \X S) /\ givenUp' = givenUp
               \/ /\ Duplicate(n, S, db) /\ givenUp' = givenUp \cup ({n} \X S)
                  /\ UNCHANGED <<db, executed>>
    BY <1>a, QueryWrites
  <1>2. n \notin acked
    BY <1>a, LeastKept DEF LeftUnacked
  <1>3. Inserted(n) = RowsOf(n)
    BY <1>a, <1>1, CalmEvents
  <1>4. PICK q : S = {r \in RowsOf(n) \ ran[p] : PoolOf[r] = q}
    BY <1>1, <1>3 DEF NextStatements
  <1> QED
    BY <1>1, <1>2, <1>3, <1>4

LEMMA CalmQueryDb ==
  ASSUME InCalm, NEW p \in Pools, Query(p)
  PROVE  \E n \in Least(left[p]), S \in SUBSET Rows :
            /\ n \in 1 .. Len(events) /\ S \subseteq Inserted(n) \ ran[p]
            /\ \/ db' = Effect(n, S, db) /\ executed' = executed \cup ({n} \X S)
               \/ UNCHANGED <<db, executed>>
  BY CalmQuery

-----------------------------------------------------------------------------
(* Each part of the order is kept.                                         *)

LEMMA RanWholeStep == InCalm /\ [Next]_vars /\ Calm' => RanWhole'
  <1> SUFFICES ASSUME InCalm, [Next]_vars, Calm' PROVE RanWhole'
    OBVIOUS
  <1>a. LazyInv /\ Types /\ InsertGoroutines /\ GroupGoroutines /\ Calm /\ RanWhole
    BY DEF InCalm, LazyInv, Ordered
  <1>b. \A p \in Pools : \A n \in Least(left[p]) : n \in 1 .. Len(events) /\ RowsOf(n)' = RowsOf(n)
    BY <1>a, Kept, LeastKept DEF Types
  <1>c. (\A p \in Pools : ran'[p] = {}) => RanWhole'
    BY DEF RanWhole
  <1>1. CASE UNCHANGED <<left, ran>>
    BY <1>a, <1>b, <1>1 DEF RanWhole
  <1>2. CASE Take
    <2>1. \A p \in Pools : left[p] = {}
      BY <1>a, <1>2 DEF Take, InsertGoroutines, InsertGoroutine
    <2>2. ran' = ran
      BY <1>2 DEF Take
    <2> QED
      BY <1>a, <1>c, <2>1, <2>2 DEF InsertGoroutines, InsertGoroutine
  <1>3. CASE Restart
    BY <1>3, <1>c, RestartTypes
  <1>4. ASSUME NEW p \in Pools, Query(p) PROVE RanWhole'
    <2>1. PICK n \in Least(left[p]), S \in SUBSET Rows :
             /\ n \in 1 .. Len(events)
             /\ S \subseteq Inserted(n) \ ran[p] /\ Inserted(n) = RowsOf(n)
             /\ \A r \in S : \A s \in RowsOf(n) \ ran[p] : PoolOf[r] = PoolOf[s] => s \in S
             /\ ran' = [ran EXCEPT ![p] = @ \cup S]
      BY <1>4, CalmQuery
    <2>2. left' = left
      BY <1>4 DEF Query
    <2>3. \A m \in Least(left[p]) : m = n
      BY <1>a, LeastOne DEF Types
    <2>4. ran'[p] = ran[p] \cup S /\ \A q \in Pools \ {p} : ran'[q] = ran[q]
      BY <1>a, <2>1 DEF Types
    <2>5. ASSUME NEW q \in Pools, NEW m \in Least(left[q]), NEW r \in ran'[q], NEW s \in RowsOf(m),
                 PoolOf[r] = PoolOf[s]
          PROVE  s \in ran'[q]
      <3>1. CASE q # p \/ r \in ran[q]
        BY <1>a, <2>4, <2>5, <3>1 DEF RanWhole
      <3>2. CASE q = p /\ r \in S
        BY <2>1, <2>3, <2>4, <2>5, <3>2
      <3> QED
        BY <2>4, <3>1, <3>2
    <2> QED
      BY <1>b, <2>2, <2>5 DEF RanWhole
  <1>5. ASSUME NEW p \in Pools, Ack(p) PROVE RanWhole'
    <2>1. PICK n \in left[p] : left' = [left EXCEPT ![p] = @ \ {n}]
      BY <1>5, LeastKept DEF Ack
    <2>2. ran' = [ran EXCEPT ![p] = {}]
      BY <1>5 DEF Ack
    <2>3. ran'[p] = {} /\ \A q \in Pools \ {p} : ran'[q] = ran[q] /\ left'[q] = left[q]
      BY <1>a, <2>1, <2>2 DEF Types
    <2>4. \A q \in Pools \ {p} : \A m \in Least(left'[q]) : m \in Least(left[q])
      BY <2>3
    <2> QED
      BY <1>a, <1>b, <2>3, <2>4 DEF RanWhole
  <1> QED
    BY <1>1, <1>2, <1>3, <1>4, <1>5, RanKinds

\* A group executes no insert.
LEMMA GroupInsertsNone ==
  ASSUME LazyInv, Calm, NEW g \in Groups, NEW n \in 1 .. Len(events), NEW r \in Inserted(n)
  PROVE  <<n, r>> \notin Statements(g)
  <1>1. ~IsInsert(n) => Inserted(n) = {}
    BY CalmEvents DEF LazyInv
  <1>2. n \notin todo[g]
    BY <1>1 DEF LazyInv, GroupGoroutines, GroupGoroutine
  <1> QED
    BY <1>2 DEF Statements

LEMMA TogetherStep == InCalm /\ [Next]_vars /\ Calm' => Together'
  <1> SUFFICES ASSUME InCalm, [Next]_vars, Calm',
                      NEW n \in 1 .. Len(events'), NEW r \in Inserted(n)', NEW s \in Inserted(n)',
                      PoolOf[r] = PoolOf[s], <<n, r>> \in executed'
               PROVE  <<n, s>> \in executed'
    BY DEF Together
  <1>a. LazyInv /\ Types /\ Values /\ Calm /\ RanWhole /\ Together /\ executed \subseteq executed'
    BY Monotone DEF InCalm, LazyInv, Ordered, Grows
  <1>b. n \in 1 .. Len(events) => r \in Inserted(n) /\ s \in Inserted(n)
    BY <1>a, Kept
  <1>c. ASSUME <<n, r>> \in executed PROVE <<n, s>> \in executed'
    <2>1. n \in 1 .. Len(events)
      BY <1>a, <1>c DEF Values
    <2> QED
      BY <1>a, <1>b, <1>c, <2>1 DEF Together
  <1>1. CASE UNCHANGED <<db, executed>>
    BY <1>1, <1>c
  <1>2. ASSUME NEW p \in Pools, Query(p), <<n, r>> \notin executed PROVE <<n, s>> \in executed'
    <2>1. PICK k \in Least(left[p]), S \in SUBSET Rows :
             /\ k \in 1 .. Len(events)
             /\ S \subseteq Inserted(k) \ ran[p] /\ Inserted(k) = RowsOf(k)
             /\ \A u \in S : \A v \in RowsOf(k) \ ran[p] : PoolOf[u] = PoolOf[v] => v \in S
             /\ executed' \in {executed, executed \cup ({k} \X S)}
      BY <1>2, CalmQuery
    <2>2. n = k /\ r \in S /\ executed' = executed \cup ({k} \X S)
      BY <1>2, <2>1
    <2>3. s \in RowsOf(k)
      BY <1>b, <2>1, <2>2
    <2>4. s \notin ran[p]
      BY <1>a, <2>1, <2>2, <2>3 DEF RanWhole
    <2> QED
      BY <2>1, <2>2, <2>3, <2>4
  <1>3. ASSUME NEW g \in Groups, Execute(g), <<n, r>> \notin executed PROVE <<n, s>> \in executed'
    <2>1. executed' = executed \cup Statements(g)
      BY <1>3 DEF Execute
    <2>2. n \in 1 .. Len(events)
      BY <1>3, <1>a, <2>1, ExecuteWrites
    <2> QED
      BY <1>3, <1>a, <1>b, <2>1, <2>2, GroupInsertsNone
  <1> QED
    BY <1>c, <1>1, <1>2, <1>3, DbKinds

LEMMA FreshIsNoRowStep == InCalm /\ [Next]_vars /\ Calm' => FreshIsNoRow'
  <1> SUFFICES ASSUME InCalm, [Next]_vars, Calm', Ids # "auto",
                      NEW n \in 1 .. Len(events'), NEW r \in Inserted(n)',
                      <<n, r>> \notin executed'
               PROVE  db'[r] = NoRow
    BY DEF FreshIsNoRow
  <1>a. /\ LazyInv /\ Types /\ Values /\ Calm /\ BatchInv /\ Histories /\ FreshIsNoRow
        /\ GivenUpIsExecuted /\ executed \subseteq executed'
    BY Monotone DEF InCalm, LazyInv, Ordered, Grows
  <1>b. ASSUME n \in 1 .. Len(events)
        PROVE  r \in Inserted(n) /\ r \in RowsOf(n) /\ r \in Rows /\ db[r] = NoRow
    <2>1. r \in Inserted(n)
      BY <1>a, <1>b, Kept
    <2>2. r \in RowsOf(n) /\ r \in Rows
      BY <1>a, <1>b, <2>1, EventRows DEF Inserted
    <2> QED
      BY <1>a, <1>b, <2>1, <2>2 DEF FreshIsNoRow
  <1>1. CASE UNCHANGED <<db, executed>> /\ UNCHANGED <<events, want, reborn>>
    BY <1>1, <1>b
  <1>2. ASSUME NEW changes \in Flushes, FlushLazy(changes) PROVE db'[r] = NoRow
    <2>0. PICK k : k = Len(events) + 1
      OBVIOUS
    <2>1. /\ 1 .. Len(events') = (1 .. Len(events)) \cup {k}
          /\ Inserted(k)' = {i \in DOMAIN changes : changes[i] = "I"} /\ DOMAIN changes \subseteq Rows
      BY <1>2, <1>a, <2>0, Flushed
    <2>2. db' = db
      BY <1>2 DEF FlushLazy
    <2>3. CASE n = k
      <3>1. r \in Rows /\ r \in DOMAIN changes /\ changes[r] = "I"
        BY <2>1, <2>3
      <3>2. want[r] = NoRow /\ \A i \in 1 .. Len(events) : r \notin RowsOf(i)
        BY <1>2, <3>1 DEF FlushLazy, Calm
      <3>3. want[r] = db[r]
        BY <1>a, <3>1, <3>2 DEF Histories, WantIs
      <3> QED
        BY <2>2, <3>2, <3>3
    <2> QED
      BY <1>b, <2>1, <2>2, <2>3
  <1>3. ASSUME NEW p \in Pools, Query(p) PROVE db'[r] = NoRow
    <2>1. PICK k \in Least(left[p]), S \in SUBSET Rows :
             /\ k \in 1 .. Len(events) /\ S \subseteq Inserted(k) \ ran[p]
             /\ \/ db' = Effect(k, S, db) /\ executed' = executed \cup ({k} \X S)
                \/ UNCHANGED <<db, executed>>
      BY <1>3, CalmQueryDb
    <2>2. events' = events
      BY <1>3 DEF Query, streamVars
    <2>3. r \in Inserted(n) /\ r \in RowsOf(n) /\ r \in Rows /\ db[r] = NoRow
      BY <1>b, <2>2
    <2>4. CASE db' = Effect(k, S, db) /\ executed' = executed \cup ({k} \X S)
      <3>1. r \notin S
        <4>1. ASSUME r \in S PROVE n = k
          BY <1>a, <2>1, <2>2, <2>3, <4>1, OneInsert
        <4> QED
          BY <2>4, <4>1
      <3> QED
        BY <2>3, <2>4, <3>1 DEF Effect
    <2> QED
      BY <2>1, <2>3, <2>4
  <1>4. ASSUME NEW g \in Groups, Execute(g) PROVE db'[r] = NoRow
    <2>1. events' = events
      BY <1>4 DEF Execute, streamVars
    <2>2. n \in 1 .. Len(events) /\ r \in Inserted(n) /\ r \in Rows /\ db[r] = NoRow
      BY <1>b, <2>1
    <2>3. ASSUME NEW m \in todo[g], r \in RowsIn(m, g) PROVE FALSE
      <3>1. /\ m \in 1 .. Len(events) /\ m \in batch /\ phase = "groups" /\ ~IsInsert(m)
            /\ r \in RowsOf(m)
        BY <1>4, <1>a, <2>3, ExecuteWrites DEF RowsIn
      <3>2. IsInsert(n)
        BY <1>a, <2>2, CalmEvents
      <3>3. n < m
        BY <1>a, <2>2, <3>1, <3>2, OneInsert
      <3>4. n \in acked
        BY <1>a, <2>2, <3>1, <3>2, <3>3, InsertsBefore
      <3>5. <<n, r>> \in executed
        BY <1>a, <2>2, <3>4, InsertExecuted
      <3> QED
        BY <1>a, <3>5
    <2>4. Touching(g, Len(events), r) = {}
      BY <2>3 DEF Touching
    <2> QED
      BY <1>4, <1>a, <2>2, <2>4, ExecuteWrites DEF Follows
  <1> QED
    BY <1>1, <1>2, <1>3, <1>4, DbKinds, EventKinds

LEMMA GivenUpStep == InCalm /\ [Next]_vars /\ Calm' => GivenUpIsExecuted'
  <1> SUFFICES ASSUME InCalm, [Next]_vars, Calm',
                      NEW n \in 1 .. Len(events'), NEW r \in Inserted(n)', <<n, r>> \in givenUp'
               PROVE  <<n, r>> \in executed'
    BY DEF GivenUpIsExecuted
  <1>a. /\ LazyInv /\ Types /\ Values /\ Calm /\ FreshIsNoRow /\ Together
        /\ GivenUpIsExecuted /\ executed \subseteq executed'
    BY Monotone DEF InCalm, LazyInv, Ordered, Grows
  <1>b. n \in 1 .. Len(events) => r \in Inserted(n)
    BY <1>a, Kept
  <1>c. ASSUME <<n, r>> \in givenUp PROVE <<n, r>> \in executed'
    <2>1. n \in 1 .. Len(events)
      BY <1>a, <1>c DEF Values
    <2> QED
      BY <1>a, <1>b, <1>c, <2>1 DEF GivenUpIsExecuted
  <1>1. ASSUME NEW p \in Pools, Query(p), <<n, r>> \notin givenUp PROVE <<n, r>> \in executed'
    <2>1. PICK k \in Least(left[p]), S \in SUBSET Rows :
             /\ k \in 1 .. Len(events)
             /\ S \subseteq Inserted(k) \ ran[p] /\ \A u, v \in S : PoolOf[u] = PoolOf[v]
             /\ \/ givenUp' = givenUp
                \/ Duplicate(k, S, db) /\ givenUp' = givenUp \cup ({k} \X S)
      BY <1>1, CalmQuery
    <2>2. /\ n = k /\ r \in S /\ Duplicate(k, S, db)
      BY <1>1, <2>1
    <2>3. PICK s \in S : s \in Inserted(k) /\ db[s] # NoRow /\ Ids # "auto"
      BY <2>2 DEF Duplicate
    <2>4. <<k, s>> \in executed
      BY <1>a, <2>1, <2>3 DEF FreshIsNoRow
    <2>5. r \in Inserted(k) /\ PoolOf[s] = PoolOf[r]
      BY <2>1, <2>2
    <2> QED
      BY <1>a, <2>1, <2>2, <2>3, <2>4, <2>5 DEF Together
  <1>2. ASSUME NEW g \in Groups, givenUp' = givenUp \cup Statements(g), <<n, r>> \notin givenUp
        PROVE  FALSE
    <2>1. <<n, r>> \in Statements(g)
      BY <1>2
    <2>2. n \in 1 .. Len(events)
      BY <1>a, <2>1 DEF Statements, Types
    <2> QED
      BY <1>a, <1>b, <2>1, <2>2, GroupInsertsNone
  <1> QED
    BY <1>c, <1>1, <1>2, GivenUpKinds

LEMMA ExistsStep == InCalm /\ [Next]_vars /\ Calm' => InsertedExists'
  <1> SUFFICES ASSUME InCalm, [Next]_vars, Calm', NEW r \in Rows, want'[r] # NoRow,
                      \A n \in 1 .. Len(events') : r \in Inserted(n)' => <<n, r>> \in executed'
               PROVE  db'[r] # NoRow
    BY DEF InsertedExists
  <1>a. /\ LazyInv /\ Types /\ Values /\ Calm /\ Histories /\ InsertedExists
    BY DEF InCalm, LazyInv, Ordered
  <1>b. \A n \in 1 .. Len(events) : r \in Inserted(n) => <<n, r>> \in executed'
    BY <1>a, Kept
  <1>1. CASE UNCHANGED <<db, executed>> /\ UNCHANGED <<events, want, reborn>>
    BY <1>1, <1>a, <1>b DEF InsertedExists
  <1>2. ASSUME NEW changes \in Flushes, FlushLazy(changes) PROVE db'[r] # NoRow
    <2>0. PICK k : k = Len(events) + 1
      OBVIOUS
    <2>1. /\ 1 .. Len(events') = (1 .. Len(events)) \cup {k} /\ k \notin 1 .. Len(events)
          /\ Inserted(k)' = {i \in DOMAIN changes : changes[i] = "I"}
      BY <1>2, <1>a, <2>0, Flushed
    <2>2. db' = db /\ executed' = executed
      BY <1>2 DEF FlushLazy
    <2>3. r \notin Inserted(k)'
      BY <1>a, <2>1, <2>2 DEF Values
    <2>4. want[r] # NoRow
      <3>1. CASE r \in DOMAIN changes
        BY <1>2, <2>1, <2>3, <3>1 DEF FlushLazy
      <3>2. CASE r \notin DOMAIN changes
        BY <1>2, <3>2 DEF FlushLazy
      <3> QED
        BY <3>1, <3>2
    <2> QED
      BY <1>a, <1>b, <2>2, <2>4 DEF InsertedExists
  <1>3. ASSUME NEW p \in Pools, Query(p) PROVE db'[r] # NoRow
    <2>1. PICK k \in Least(left[p]), S \in SUBSET Rows :
             /\ k \in 1 .. Len(events) /\ S \subseteq Inserted(k) \ ran[p]
             /\ \/ db' = Effect(k, S, db) /\ executed' = executed \cup ({k} \X S)
                \/ UNCHANGED <<db, executed>>
      BY <1>3, CalmQueryDb
    <2>2. want' = want
      BY <1>3 DEF Query
    <2>3. CASE r \notin S
      <3>1. \A n \in 1 .. Len(events) : <<n, r>> \in executed' => <<n, r>> \in executed
        BY <2>1, <2>3
      <3>2. db[r] # NoRow
        BY <1>a, <1>b, <2>2, <3>1 DEF InsertedExists
      <3> QED
        BY <2>1, <2>3, <3>2 DEF Effect
    <2>4. CASE r \in S /\ db' = Effect(k, S, db)
      <3>1. events[k][r] = "I" /\ k # NoRow
        BY <2>1, <2>4 DEF Inserted, NoRow
      <3>2. db'[r] = k
        BY <2>4, <3>1 DEF Effect
      <3> QED
        BY <3>1, <3>2
    <2>5. CASE UNCHANGED <<db, executed>>
      BY <1>a, <1>b, <2>2, <2>5 DEF InsertedExists
    <2> QED
      BY <2>1, <2>3, <2>4, <2>5
  <1>4. ASSUME NEW g \in Groups, Execute(g) PROVE db'[r] # NoRow
    <2>1. want' = want
      BY <1>4 DEF Execute
    <2>2. \A n \in 1 .. Len(events) : r \in Inserted(n) => <<n, r>> \in executed
      BY <1>4, <1>a, <1>b, ExecuteWrites, GroupInsertsNone
    <2>3. db[r] # NoRow
      BY <1>a, <2>1, <2>2 DEF InsertedExists
    <2>4. ASSUME NEW n \in Touching(g, Len(events), r), events[n][r] = "D" PROVE FALSE
      <3>1. n \in 1 .. Len(events) /\ r \in RowsOf(n)
        BY <1>a DEF Touching, RowsIn, Types
      <3>2. LastOn(n, r)
        BY <1>a, <2>4, <3>1 DEF Histories, DeleteIsLast, Calm
      <3>3. want[r] = NoRow
        BY <1>a, <2>4, <3>1, <3>2 DEF Histories, WantIs
      <3> QED
        BY <2>1, <3>3
    <2> QED
      BY <1>4, <1>a, <2>3, <2>4, ExecuteWrites DEF Follows
  <1> QED
    BY <1>1, <1>2, <1>3, <1>4, DbKinds, EventKinds

LEMMA GroupInOrderStep == InCalm /\ [Next]_vars /\ Calm' => GroupInOrder'
  <1> SUFFICES ASSUME InCalm, [Next]_vars, Calm', NEW g \in Groups, run'[g] = "query",
                      NEW m \in todo'[g], NEW n \in 1 .. Len(events'), NEW r \in RowsIn(m, g)',
                      <<n, r>> \in executed', m < n
               PROVE  n \in todo'[g]
    BY DEF GroupInOrder
  <1>a. /\ LazyInv /\ Types /\ Types' /\ Values /\ GroupGoroutines /\ GroupGoroutines'
        /\ InsertGoroutines /\ Calm /\ OthersUnacked /\ InOrder /\ GroupInOrder
    BY LazyStep DEF InCalm, LazyInv, BatchInv, Ordered
  <1>b. /\ m \in 1 .. Len(events') /\ ~IsInsert(m)' /\ r \in RowsOf(m)' /\ r \in Rows
    <2>1. m \in 1 .. Len(events') /\ ~IsInsert(m)' /\ r \in RowsOf(m)'
      BY <1>a DEF Types, GroupGoroutines, GroupGoroutine, RowsIn
    <2>2. events'[m] \in Flushes
      BY <1>a, <2>1 DEF Types
    <2>3. RowsOf(m)' \subseteq Rows
      BY <2>2 DEF RowsOf, Flushes
    <2> QED
      BY <2>1, <2>3
  <1>c. ASSUME m \in 1 .. Len(events), UNCHANGED executed
        PROVE  n \in 1 .. Len(events) /\ r \in RowsIn(m, g) /\ <<n, r>> \in executed
    BY <1>a, <1>c, Kept DEF Values
  <1>d. ASSUME UNCHANGED executed, todo'[g] = todo[g], run[g] = "query" PROVE n \in todo'[g]
    <2>1. m \in 1 .. Len(events)
      BY <1>a, <1>d DEF Types
    <2> QED
      BY <1>a, <1>c, <1>d, <2>1 DEF GroupInOrder
  <1>1. CASE InsertsDone
    <2>1. /\ UNCHANGED <<events, executed, acked, batch>> /\ phase = "inserts"
          /\ todo'[g] = {i \in {j \in batch : ~IsInsert(j)} : RowsIn(i, g) # {}}
      BY <1>1 DEF InsertsDone, streamVars, historyVars
    <2>2. m \in batch /\ m \notin acked /\ ~IsInsert(m)
      BY <1>a, <2>1 DEF OthersUnacked
    <2>3. m \in 1 .. Len(events)
      BY <1>a, <2>2 DEF Types
    <2>4. n \in 1 .. Len(events) /\ r \in RowsIn(m, g) /\ <<n, r>> \in executed
      BY <1>c, <2>1, <2>3
    <2>5. r \in RowsOf(n) /\ r \in RowsOf(m)
      BY <2>4 DEF InCalm, Histories, ExecutedIsOf, RowsIn
    <2>6. ~IsInsert(n)
      <3>1. SUFFICES ASSUME IsInsert(n) PROVE FALSE
        OBVIOUS
      <3>2. r \in Inserted(n)
        BY <1>a, <2>4, <2>5, <3>1, CalmEvents
      <3>3. n < m
        BY <2>3, <2>4, <2>5, <3>2, OneInsert DEF InCalm
      <3> QED
        BY <2>3, <2>4, <3>3
    <2>7. n \in batch
      BY <1>a, <1>b, <2>1, <2>2, <2>3, <2>4, <2>5, <2>6 DEF InOrder, Ahead, Held
    <2>8. r \in RowsIn(n, g)
      BY <1>a, <2>2, <2>3, <2>4, <2>5, <2>6, SameGroup
    <2> QED
      BY <2>1, <2>6, <2>7, <2>8
  <1>2. ASSUME NEW p \in Pools, Query(p) PROVE n \in todo'[g]
    <2>1. phase = "inserts" /\ todo' = todo
      BY <1>2, <1>a, LeastKept DEF Query, InsertGoroutines, InsertGoroutine, groupVars
    <2> QED
      BY <1>a, <2>1 DEF GroupGoroutines, GroupGoroutine
  <1>3. ASSUME NEW h \in Groups, Execute(h) PROVE n \in todo'[g]
    <2>1. /\ executed' = executed \cup Statements(h) /\ todo' = todo
          /\ run' = [run EXCEPT ![h] = "ack"] /\ events' = events
      BY <1>3 DEF Execute, streamVars
    <2>2. h # g /\ run[g] = "query"
      BY <1>a, <2>1 DEF Types
    <2>3. m \in todo[g] /\ m \in 1 .. Len(events)
      BY <1>a, <2>1 DEF Types
    <2>4. r \in RowsIn(m, g) /\ ~IsInsert(m) /\ r \in RowsOf(m)
      BY <1>a, <1>b, <2>3, Kept
    <2>5. <<n, r>> \notin Statements(h)
      <3>1. SUFFICES ASSUME n \in todo[h], r \in RowsIn(n, h) PROVE FALSE
        BY <1>3, <1>a, ExecuteWrites
      <3>2. n \in 1 .. Len(events) /\ ~IsInsert(n) /\ r \in RowsOf(n)
        BY <1>a, <3>1 DEF Types, GroupGoroutines, GroupGoroutine, RowsIn
      <3>3. r \in RowsIn(m, h)
        BY <1>a, <2>3, <2>4, <3>1, <3>2, SameGroup
      <3> QED
        BY <2>2, <2>4, <3>3 DEF RowsIn
    <2>6. <<n, r>> \in executed /\ n \in 1 .. Len(events)
      BY <2>1, <2>5
    <2> QED
      BY <1>a, <2>1, <2>2, <2>3, <2>4, <2>6 DEF GroupInOrder
  <1>4. CASE UNCHANGED executed /\ ~InsertsDone
    <2>1. CASE Quiet \/ Take
      BY <1>4, <1>d, <2>1 DEF Quiet, Take, groupVars
    <2>2. CASE BatchDone \/ Dies
      BY <2>2, RestartTypes DEF BatchDone, Dies
    <2>3. ASSUME NEW p \in Pools, Ack(p) PROVE n \in todo'[g]
      BY <1>4, <1>d, <2>3 DEF Ack, groupVars
    <2>4. ASSUME NEW h \in Groups, Goes(h) \/ Falls(h) \/ GroupAck(h) \/ GroupClear(h)
          PROVE  n \in todo'[g]
      <3>1. run'[h] # "query" /\ \A i \in Groups \ {h} : run'[i] = run[i] /\ todo'[i] = todo[i]
        BY <1>a, <2>4, GroupKinds
      <3> QED
        BY <1>4, <1>d, <3>1
    <2> QED
      BY <1>4, <1>a, <2>1, <2>2, <2>3, <2>4, Kinds
  <1> QED
    BY <1>1, <1>2, <1>3, <1>4, DbKinds

LEMMA LastIsWantStep == InCalm /\ [Next]_vars /\ Calm' => LastIsWant'
  <1> SUFFICES ASSUME InCalm, [Next]_vars, Calm', NEW n \in 1 .. Len(events'), NEW r \in Rows,
                      LastOn(n, r)', <<n, r>> \in executed'
               PROVE  db'[r] = want'[r]
    BY DEF LastIsWant
  <1>a. /\ LazyInv /\ Types /\ Values /\ Calm /\ BatchInv /\ Histories /\ LastIsWant
        /\ InsertedExists /\ GroupInOrder /\ GivenUpIsExecuted /\ LeftUnacked
    BY DEF InCalm, LazyInv, Ordered, BatchInv
  <1>b. ASSUME UNCHANGED events
        PROVE  /\ n \in 1 .. Len(events) /\ LastOn(n, r) /\ r \in RowsOf(n)
               /\ want[r] = IF events[n][r] = "D" THEN NoRow ELSE n
    <2>1. n \in 1 .. Len(events) /\ LastOn(n, r)
      BY <1>a, <1>b, LastOnKept
    <2> QED
      BY <1>a, <2>1 DEF LastOn, Histories, WantIs
  <1>1. CASE UNCHANGED <<db, executed>> /\ UNCHANGED <<events, want, reborn>>
    BY <1>1, <1>a, <1>b DEF LastIsWant
  <1>2. ASSUME NEW changes \in Flushes, FlushLazy(changes) PROVE db'[r] = want'[r]
    <2>0. PICK k : k = Len(events) + 1
      OBVIOUS
    <2>1. /\ 1 .. Len(events') = (1 .. Len(events)) \cup {k} /\ k \notin 1 .. Len(events)
          /\ RowsOf(k)' = DOMAIN changes /\ k \in Nat
          /\ \A i \in 1 .. Len(events) : i < k
      BY <1>2, <1>a, <2>0, Flushed
    <2>2. db' = db /\ executed' = executed
      BY <1>2 DEF FlushLazy
    <2>3. n \in 1 .. Len(events)
      BY <1>a, <2>2 DEF Values
    <2>4. r \notin DOMAIN changes
      <3>1. r \in DOMAIN changes => k <= n
        BY <2>1 DEF LastOn
      <3> QED
        BY <2>1, <2>3, <3>1
    <2>5. want'[r] = want[r]
      BY <1>2, <2>4 DEF FlushLazy
    <2>6. LastOn(n, r)
      <3>1. r \in RowsOf(n) /\ \A m \in 1 .. Len(events) : RowsOf(m)' = RowsOf(m)
        BY <1>a, <2>3, Kept DEF LastOn
      <3> QED
        BY <2>1, <2>3, <3>1 DEF LastOn
    <2> QED
      BY <1>a, <2>2, <2>3, <2>5, <2>6 DEF LastIsWant
  <1>3. ASSUME NEW p \in Pools, Query(p) PROVE db'[r] = want'[r]
    <2>1. PICK k \in Least(left[p]), S \in SUBSET Rows :
             /\ k \in 1 .. Len(events) /\ S \subseteq Inserted(k) \ ran[p]
             /\ \/ db' = Effect(k, S, db) /\ executed' = executed \cup ({k} \X S)
                \/ UNCHANGED <<db, executed>>
      BY <1>3, CalmQueryDb
    <2>2. UNCHANGED <<events, want>>
      BY <1>3 DEF Query, streamVars
    <2>3. /\ n \in 1 .. Len(events) /\ LastOn(n, r) /\ r \in RowsOf(n)
          /\ want[r] = IF events[n][r] = "D" THEN NoRow ELSE n
      BY <1>b, <2>2
    <2>4. CASE UNCHANGED <<db, executed>>
      BY <1>a, <2>2, <2>3, <2>4 DEF LastIsWant
    <2>5. CASE db' = Effect(k, S, db) /\ executed' = executed \cup ({k} \X S) /\ r \notin S
      <3>1. db'[r] = db[r] /\ <<n, r>> \in executed
        BY <2>5 DEF Effect
      <3> QED
        BY <1>a, <2>2, <2>3, <3>1 DEF LastIsWant
    <2>6. CASE db' = Effect(k, S, db) /\ executed' = executed \cup ({k} \X S) /\ r \in S
      <3>1. r \in Inserted(k) /\ events[k][r] = "I"
        BY <2>1, <2>6 DEF Inserted
      <3>2. CASE n = k
        BY <2>2, <2>3, <2>6, <3>1, <3>2 DEF Effect
      <3>3. CASE n # k
        <4>1. k < n /\ r \notin Inserted(n)
          BY <1>a, <2>1, <2>3, <3>1, <3>3, OneInsert
        <4>2. ~IsInsert(n) /\ IsInsert(k)
          BY <1>a, <2>1, <2>3, <3>1, <4>1, CalmEvents
        <4>3. <<n, r>> \in executed
          BY <2>6, <3>3
        <4>4. k \in acked
          BY <1>a, <2>1, <2>3, <4>1, <4>2, <4>3 DEF Histories, BehindInserts
        <4>5. k \in left[p]
          BY LeastKept
        <4> QED
          BY <1>a, <4>4, <4>5 DEF LeftUnacked
      <3> QED
        BY <3>2, <3>3
    <2> QED
      BY <2>1, <2>4, <2>5, <2>6
  <1>4. ASSUME NEW g \in Groups, Execute(g) PROVE db'[r] = want'[r]
    <2>1. UNCHANGED <<events, want>>
      BY <1>4 DEF Execute, streamVars
    <2>2. /\ n \in 1 .. Len(events) /\ LastOn(n, r) /\ r \in RowsOf(n)
          /\ want[r] = IF events[n][r] = "D" THEN NoRow ELSE n
      BY <1>b, <2>1
    <2>3. /\ Follows(g, Len(events), db', TRUE) /\ executed' = executed \cup Statements(g)
          /\ run[g] = "query" /\ phase = "groups"
          /\ \A i, s : <<i, s>> \in Statements(g) <=> i \in todo[g] /\ s \in RowsIn(i, g)
          /\ \A i \in todo[g] : i \in 1 .. Len(events) /\ i \in batch /\ ~IsInsert(i)
      BY <1>4, <1>a, ExecuteWrites
    <2>4. ASSUME NEW m \in Touching(g, Len(events), r) PROVE m \in todo[g] /\ r \in RowsIn(m, g) /\ m <= n
      <3>1. m \in todo[g] /\ r \in RowsIn(m, g)
        BY DEF Touching
      <3> QED
        BY <2>2, <2>3, <3>1 DEF LastOn, RowsIn
    <2>5. CASE <<n, r>> \in Statements(g)
      <3>1. n \in todo[g] /\ r \in RowsIn(n, g) /\ ~IsInsert(n)
        BY <2>3, <2>5
      <3>2. n \in Touching(g, Len(events), r)
        BY <2>2, <3>1 DEF Touching
      <3>3. Leaves(n, r, db'[r])
        BY <2>3, <2>4, <3>2 DEF Follows
      <3>4. events[n][r] \in {"U", "D"}
        <4>1. Inserted(n) = {} /\ events[n][r] \in {"I", "U", "D"}
          BY <1>a, <2>2, <3>1, CalmEvents, EventRows
        <4> QED
          BY <2>2, <4>1 DEF Inserted
      <3>5. CASE events[n][r] = "D"
        BY <2>1, <2>2, <3>3, <3>5 DEF Leaves
      <3>6. CASE events[n][r] = "U"
        <4>1. ASSUME NEW m \in 1 .. Len(events), r \in Inserted(m) PROVE <<m, r>> \in executed
          <5>1. m # n
            BY <3>6, <4>1 DEF Inserted
          <5>2. m < n /\ IsInsert(m)
            BY <1>a, <2>2, <4>1, <5>1, OneInsert, CalmEvents
          <5>3. m \in acked
            BY <1>a, <2>3, <3>1, <5>2, InsertsBefore
          <5> QED
            BY <1>a, <4>1, <5>3, InsertExecuted
        <4>2. want[r] = n /\ n # NoRow
          BY <2>2, <3>6 DEF NoRow
        <4>3. db[r] # NoRow
          BY <1>a, <4>1, <4>2 DEF InsertedExists
        <4>4. ASSUME NEW m \in Touching(g, Len(events), r), events[m][r] = "D" PROVE FALSE
          <5>1. m \in 1 .. Len(events) /\ r \in RowsOf(m)
            BY <2>3, <2>4 DEF RowsIn
          <5>2. LastOn(m, r)
            BY <1>a, <4>4, <5>1 DEF Histories, DeleteIsLast, Calm
          <5>3. want[r] = NoRow
            BY <1>a, <4>4, <5>1, <5>2 DEF Histories, WantIs
          <5> QED
            BY <4>2, <5>3
        <4>5. db'[r] # NoRow
          BY <2>3, <4>3, <4>4 DEF Follows
        <4> QED
          BY <2>1, <3>3, <3>6, <4>2, <4>5 DEF Leaves
      <3> QED
        BY <3>4, <3>5, <3>6
    <2>6. CASE <<n, r>> \notin Statements(g)
      <3>1. <<n, r>> \in executed
        BY <2>3, <2>6
      <3>2. ASSUME NEW m \in Touching(g, Len(events), r) PROVE FALSE
        <4>1. /\ m \in todo[g] /\ r \in RowsIn(m, g) /\ m <= n
              /\ m \in 1 .. Len(events) /\ ~IsInsert(m) /\ r \in RowsOf(m)
          BY <2>3, <2>4 DEF RowsIn
        <4>2. m # n
          BY <2>3, <2>6, <4>1
        <4>3. m < n
          BY <2>2, <4>1, <4>2
        <4>4. n \in todo[g]
          BY <1>a, <2>2, <2>3, <3>1, <4>1, <4>3 DEF GroupInOrder
        <4>5. r \in RowsIn(n, g)
          BY <1>a, <2>2, <2>3, <4>1, <4>4, SameGroup
        <4> QED
          BY <2>3, <2>6, <4>4, <4>5
      <3>3. db'[r] = db[r]
        <4>1. Touching(g, Len(events), r) = {}
          BY <3>2
        <4> QED
          BY <2>3, <4>1 DEF Follows
      <3> QED
        BY <1>a, <2>1, <2>2, <3>1, <3>3 DEF LastIsWant
    <2> QED
      BY <2>5, <2>6
  <1> QED
    BY <1>1, <1>2, <1>3, <1>4, DbKinds, EventKinds

\* Where the batch ends or dies, an event executed ahead of another is not acknowledged
\* before it, and so among the oldest.
LEMMA InOrderStep == InCalm /\ [Next]_vars /\ Calm' => InOrder'
  <1> DEFINE Kept1(n) == Held(n) /\ (NoSpans => n \notin acked)
  <1> SUFFICES ASSUME InCalm, [Next]_vars, Calm',
                      NEW n \in 1 .. Len(events'), NEW m \in 1 .. Len(events'), NEW r \in Rows,
                      Ahead(n, m, r)'
               PROVE  Kept1(n)'
    BY DEF InOrder
  <1>a. /\ LazyInv /\ Types /\ Values /\ Values' /\ GroupGoroutines /\ InsertGoroutines
        /\ Calm /\ BatchInv /\ OthersUnacked /\ OthersHeld /\ BatchIsFirst /\ InOrder
        /\ acked \subseteq acked' /\ (NoSpans' => NoSpans)
    BY LazyStep, AckedGrows, CalmBefore DEF InCalm, LazyInv, BatchInv, Ordered
  <1>b. <<n, r>> \in executed' /\ m \notin acked' /\ m \notin acked /\ m < n
    BY <1>a DEF Ahead
  <1>c. ASSUME n \in 1 .. Len(events)
        PROVE  /\ m \in 1 .. Len(events) /\ ~IsInsert(n) /\ ~IsInsert(m) /\ r \in RowsOf(m)
               /\ m \in Unacked
    <2>1. m \in 1 .. Len(events)
      BY <1>b, <1>c
    <2>2. ~IsInsert(n) /\ ~IsInsert(m) /\ r \in RowsOf(m)
      BY <1>a, <1>c, <2>1, Kept DEF Ahead
    <2> QED
      BY <1>b, <2>1, <2>2 DEF Unacked
  \* An event that was executed before ...
  <1>1. ASSUME <<n, r>> \in executed PROVE Kept1(n)'
    <2>1. n \in 1 .. Len(events)
      BY <1>a, <1>1 DEF Values
    <2>2. /\ m \in 1 .. Len(events) /\ ~IsInsert(n) /\ ~IsInsert(m) /\ r \in RowsOf(m)
          /\ m \in Unacked
      BY <1>c, <2>1
    <2>3. Held(n) /\ (NoSpans => n \notin acked)
      BY <1>1, <1>a, <1>b, <2>1, <2>2 DEF InOrder, Ahead
    \* ... is in the batch or the next one, where no more is acknowledged ...
    <2>4. ASSUME n \in FirstN(Unacked, Count), n \notin acked' PROVE n \in FirstN(Unacked, Count)'
      <3>1. 1 .. Len(events) \subseteq 1 .. Len(events') /\ Len(events') \in Nat
        BY <1>a, Kept, TypesStep DEF Types
      <3> QED
        BY <1>a, <2>4, <3>1, FirstKept
    <2>5. CASE Quiet
      <3>1. UNCHANGED <<acked, phase, batch>>
        BY <2>5 DEF Quiet
      <3>2. n \in FirstN(Unacked, Count) => n \notin acked'
        BY <3>1 DEF FirstN, Unacked
      <3> QED
        BY <1>a, <2>3, <2>4, <3>1, <3>2 DEF Held
    <2>6. CASE Take
      <3>1. phase = "idle" /\ phase' = "inserts" /\ batch' = FirstN(Unacked, Count)
            /\ acked' = acked
        BY <2>6 DEF Take, streamVars, Unacked
      <3> QED
        BY <1>a, <2>3, <3>1 DEF Held
    <2>7. CASE InsertsDone
      <3>1. phase = "inserts" /\ phase' = "groups" /\ UNCHANGED <<acked, batch>>
        BY <2>7 DEF InsertsDone, streamVars
      <3> QED
        BY <1>a, <2>3, <3>1 DEF Held
    \* ... and where the batch ends, it is not acknowledged before the other.
    <2>8. ASSUME n \in batch, n \notin acked, acked' = acked, phase' = "idle" PROVE Kept1(n)'
      <3>1. n \in FirstN(Unacked, Count)
        BY <1>a, <2>8 DEF BatchIsFirst
      <3> QED
        BY <2>4, <2>8, <3>1 DEF Held
    <2>9. CASE Dies
      <3>1. phase' = "idle" /\ acked' = acked /\ phase # "idle" /\ n \in batch
            /\ (phase = "inserts" \/ faults' > 0)
        BY <2>9, <2>3, RestartTypes DEF Dies, Held
      <3>2. CASE phase = "inserts"
        BY <1>a, <2>2, <2>8, <3>1, <3>2 DEF OthersUnacked
      <3>3. CASE faults' > 0
        <4>1. NoSpans
          <5>1. ~(faults' = 0)
            BY <3>3
          <5> QED
            BY <1>a, <5>1 DEF Calm
        <4> QED
          BY <2>3, <2>8, <3>1, <4>1
      <3> QED
        BY <3>1, <3>2, <3>3
    <2>10. CASE BatchDone
      <3>1. phase' = "idle" /\ phase = "groups" /\ n \in batch
            /\ acked' = IF lazyError THEN acked ELSE acked \cup batch
        BY <2>10, <2>3, RestartTypes DEF BatchDone, Held
      <3>2. CASE lazyError
        <4>1. faults > 0
          BY <1>a, <3>2 DEF BatchInv, ErrorIsExplained, Calm
        <4>2. ~(faults = 0)
          BY <4>1
        <4>3. NoSpans
          BY <1>a, <4>2 DEF Calm
        <4> QED
          BY <2>3, <2>8, <3>1, <3>2, <4>3
      <3>3. CASE ~lazyError
        <4>1. m \in batch
          BY <1>a, <1>b, <2>2, <3>1 DEF BatchIsFirst
        <4> QED
          BY <1>b, <3>1, <3>3, <4>1
      <3> QED
        BY <3>2, <3>3
    <2>11. ASSUME NEW p \in Pools, Ack(p) PROVE Kept1(n)'
      <3>1. PICK k \in left[p] : acked' = acked \cup {k}
        BY <2>11, LeastKept DEF Ack
      <3>2. IsInsert(k) /\ phase = "inserts" /\ UNCHANGED <<phase, batch>>
        BY <1>a, <2>11 DEF Ack, InsertGoroutines, InsertGoroutine
      <3>3. n # k
        BY <2>2, <3>2
      <3> QED
        BY <1>a, <2>3, <3>1, <3>2, <3>3 DEF Held
    <2>12. ASSUME NEW g \in Groups, Goes(g) \/ Falls(g) \/ GroupAck(g) \/ GroupClear(g)
           PROVE  Kept1(n)'
      <3>1. phase = "groups" /\ UNCHANGED <<phase, batch>>
        <4>1. run[g] # "done"
          BY <2>12 DEF Goes, Falls, GroupAck, GroupClear
        <4>2. todo[g] # {}
          BY <1>a, <4>1 DEF GroupGoroutines, GroupGoroutine
        <4>3. phase = "groups"
          BY <1>a, <4>2 DEF GroupGoroutines, GroupGoroutine
        <4> QED
          BY <1>a, <2>12, <4>3, GroupKinds
      <3>2. n \in batch /\ Held(n)'
        BY <2>3, <3>1 DEF Held
      <3>3. CASE acked' = acked
        BY <1>a, <2>3, <3>2, <3>3
      <3>4. CASE GroupAck(g)
        <4>1. PICK k \in Least(todo[g]) : acked' = acked \cup {k}
          BY <3>4 DEF GroupAck
        <4>2. ASSUME NoSpans, n = k PROVE FALSE
          <5>1. n \in todo[g] /\ RowsIn(n, g) # {}
            BY <1>a, <4>2, LeastKept DEF GroupGoroutines, GroupGoroutine
          <5>2. r \in RowsOf(n)
            BY <1>1, <2>1 DEF InCalm, Histories, ExecutedIsOf
          <5>3. r \in RowsIn(n, g)
            BY <2>1, <2>2, <4>2, <5>1, <5>2 DEF NoSpans, Spans, RowsIn
          <5>4. r \in RowsIn(m, g)
            BY <1>a, <2>1, <2>2, <5>2, <5>3, SameGroup
          <5>5. m \in batch
            BY <1>a, <1>b, <2>2, <3>2 DEF BatchIsFirst
          <5>6. m \in todo[g]
            BY <1>a, <1>b, <2>2, <3>1, <5>1, <5>4, <5>5 DEF OthersHeld
          <5>7. n <= m
            BY <4>1, <4>2, <5>6 DEF Least
          <5> QED
            BY <1>b, <2>1, <2>2, <5>7
        <4> QED
          BY <1>a, <2>3, <3>2, <4>1, <4>2
      <3>5. Goes(g) \/ Falls(g) \/ GroupClear(g) => acked' = acked
        BY DEF Goes, Falls, GroupClear, streamVars
      <3> QED
        BY <2>12, <3>3, <3>4, <3>5
    <2> QED
      BY <1>a, <2>5, <2>6, <2>7, <2>9, <2>10, <2>11, <2>12, Kinds
  \* A group executes events of the batch.
  <1>2. ASSUME <<n, r>> \notin executed PROVE Kept1(n)'
    <2>1. ASSUME NEW p \in Pools, Query(p) PROVE FALSE
      <3>1. PICK k \in Least(left[p]), S \in SUBSET Rows :
               /\ k \in 1 .. Len(events) /\ IsInsert(k)
               /\ executed' \in {executed, executed \cup ({k} \X S)}
        BY <1>a, <2>1, QueryWrites
      <3> QED
        BY <1>b, <1>c, <1>2, <3>1
    <2>2. ASSUME NEW g \in Groups, Execute(g) PROVE Kept1(n)'
      <3>1. /\ n \in todo[g] /\ n \in batch /\ run[g] = "query" /\ phase = "groups"
            /\ UNCHANGED <<acked, batch, phase>>
        BY <1>a, <1>b, <1>2, <2>2, ExecuteWrites
      <3>2. ASSUME NoSpans, n \in acked PROVE FALSE
        <4>1. n \in 1 .. Len(events)
          BY <1>a, <3>1 DEF Types
        <4>2. Spans(n)
          BY <1>a, <3>1, <3>2 DEF BatchInv, GroupsAck
        <4> QED
          BY <3>2, <4>1, <4>2 DEF NoSpans
      <3> QED
        BY <1>a, <3>1, <3>2 DEF Held
    <2> QED
      BY <1>b, <1>2, <2>1, <2>2, DbKinds
  <1> QED
    BY <1>1, <1>2

-----------------------------------------------------------------------------
LEMMA OrderedInit == Init => (Calm => Ordered)
  <1> SUFFICES ASSUME Init PROVE Ordered
    OBVIOUS
  <1>1. /\ events = << >> /\ executed = {} /\ givenUp = {} /\ want = db
        /\ \A p \in Pools : left[p] = {} /\ ran[p] = {}
        /\ \A g \in Groups : run[g] = "done"
    BY DEF Init
  <1>2. 1 .. Len(events) = {}
    BY <1>1
  <1>3. RanWhole /\ Together /\ FreshIsNoRow /\ GivenUpIsExecuted
    BY <1>1, <1>2 DEF RanWhole, Together, FreshIsNoRow, GivenUpIsExecuted
  <1>4. InsertedExists /\ InOrder /\ GroupInOrder /\ LastIsWant
    BY <1>1, <1>2 DEF InsertedExists, InOrder, GroupInOrder, LastIsWant
  <1> QED
    BY <1>3, <1>4 DEF Ordered

LEMMA OrderedStep ==
  LazyInv /\ BatchInv /\ Histories /\ (Calm => Ordered) /\ [Next]_vars => (Calm => Ordered)'
  <1> SUFFICES ASSUME LazyInv, BatchInv, Histories, Calm => Ordered, [Next]_vars, Calm'
               PROVE  Ordered'
    OBVIOUS
  <1>1. InCalm
    BY CalmBefore DEF InCalm, LazyInv
  <1> QED
    BY <1>1, RanWholeStep, TogetherStep, FreshIsNoRowStep, GivenUpStep, ExistsStep, InOrderStep,
       GroupInOrderStep, LastIsWantStep DEF Ordered

\* A row that some event writes has a last event.
LEMMA LastExists ==
  ASSUME Types, NEW r, NEW k \in 1 .. Len(events), r \in RowsOf(k)
  PROVE  \E n \in 1 .. Len(events) : LastOn(n, r)
  <1> DEFINE N == Len(events)
             T == {j \in Nat : N - j \in 1 .. N /\ r \in RowsOf(N - j)}
  <1>1. N \in Nat
    BY DEF Types
  <1>2. N - k \in T
    <2>1. N - k \in Nat /\ N - (N - k) = k
      BY <1>1
    <2> QED
      BY <2>1
  <1>3. PICK j \in T : \A i \in T : j <= i
    BY <1>2, LeastNumber
  <1>4. PICK n : n = N - j
    OBVIOUS
  <1>5. n \in 1 .. N /\ r \in RowsOf(n)
    BY <1>3, <1>4
  <1>6. ASSUME NEW m \in 1 .. N, r \in RowsOf(m) PROVE m <= n
    <2>1. N - m \in Nat /\ N - (N - m) = m
      BY <1>1
    <2>2. N - m \in T
      BY <1>6, <2>1
    <2>3. j <= N - m
      BY <1>3, <2>2
    <2> QED
      BY <1>1, <1>3, <1>4, <2>3
  <1> QED
    BY <1>5, <1>6 DEF LastOn

LEMMA OrderedImplies == LazyInv /\ Histories /\ (Calm => Ordered) => LastFlushWins
  <1> SUFFICES ASSUME LazyInv, Histories, Calm => Ordered,
                      acked = 1 .. Len(events), phase = "idle", givenUp \subseteq executed, ~reborn,
                      \A n \in acked : ~Mixed(n) /\ (faults = 0 \/ ~Spans(n))
               PROVE  db = want
    BY DEF LastFlushWins
  <1>a. Types /\ Values /\ GroupGoroutines /\ AckedIsExecuted
    BY DEF LazyInv
  <1>1. Calm
    BY DEF Calm, NoSpans
  <1>2. ASSUME NEW r \in Rows PROVE db[r] = want[r]
    <2>1. CASE \A n \in 1 .. Len(events) : r \notin RowsOf(n)
      BY <2>1 DEF Histories, WantIs
    <2>2. ASSUME NEW k \in 1 .. Len(events), r \in RowsOf(k) PROVE db[r] = want[r]
      <3>1. PICK n \in 1 .. Len(events) : LastOn(n, r)
        BY <1>a, <2>2, LastExists
      <3>2. n \in acked /\ r \in RowsOf(n)
        BY <3>1 DEF LastOn
      <3>3. GroupOf(n, r) \in Groups
        BY GroupOfGroups
      <3>4. todo[GroupOf(n, r)] = {}
        BY <1>a, <3>3 DEF GroupGoroutines, GroupGoroutine
      <3>5. Spans(n) => faults = 0
        BY <3>2
      <3>6. <<n, r>> \in executed \cup givenUp \/ (Spans(n) /\ Excused)
        BY <1>a, <3>2, <3>4 DEF AckedIsExecuted
      <3>7. Excused => faults > 0
        BY <1>1 DEF Excused, Calm
      <3>8. faults = 0 => ~(faults > 0)
        OBVIOUS
      <3>9. <<n, r>> \in executed
        BY <3>5, <3>6, <3>7, <3>8
      <3> QED
        BY <1>1, <3>1, <3>9 DEF Ordered, LastIsWant
    <2> QED
      BY <2>1, <2>2
  <1> QED
    BY <1>a, <1>2 DEF Values

\* When all events are done every row has the value of its last flush, through
\* redelivery after crashes and panics, for any batch size, modulo, number of rows,
\* pools and faults, as long as inserts travel alone, no row is inserted again after its
\* deletion and no fault met an event spread over groups: the statements of a row that
\* were run ahead of an earlier event's are run again behind it.
THEOREM LastFlushIsKept == Spec => []LastFlushWins
  <1> DEFINE Inv == LazyInv /\ BatchInv /\ Histories /\ (Calm => Ordered)
  <1>1. Init => Inv
    BY LazyInit, BatchInit, HistoriesInit, OrderedInit
  <1>2. Inv /\ [Next]_vars => Inv'
    BY LazyStep, BatchStep, HistoriesStep, OrderedStep
  <1>3. Inv => LastFlushWins
    BY OrderedImplies
  <1> HIDE DEF Inv
  <1> QED
    BY <1>1, <1>2, <1>3, PTL DEF Spec
=============================================================================
