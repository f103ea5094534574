-------------------------- MODULE EventBrokerProofs --------------------------
(* Theorems about EventBroker, for any groups, consumers, collectors,      *)
(* batch and chunk sizes and bounds.                                       *)
EXTENDS EventBroker, FiniteSetTheorems, TLAPS

(* The first n members of a set of entries are members of it.              *)
LEMMA FirstNSubset == ASSUME NEW S, NEW n PROVE FirstN(S, n) \subseteq S
  BY DEF FirstN

(* COUNT n leaves no gap: an entry below one it keeps is kept.             *)
LEMMA FirstNDownward ==
  ASSUME NEW m \in Nat, NEW S \in SUBSET (1 .. m), NEW n \in Nat,
         NEW i \in S, NEW j \in FirstN(S, n), i < j
  PROVE  i \in FirstN(S, n)
  <1> DEFINE Below(k) == {x \in S : x < k}
  <1>1. IsFiniteSet(S)
    <2>1. IsFiniteSet(1 .. m)
      BY FS_Interval
    <2> QED
      BY <2>1, FS_Subset
  <1>2. j \in S /\ Cardinality(Below(j)) < n
    BY DEF FirstN
  <1>3. Below(i) \in SUBSET Below(j)
    <2>1. i \in Int /\ j \in Int /\ S \subseteq Int
      BY <1>2
    <2>2. \A x \in S : x < i => x < j
      BY <2>1
    <2> QED
      BY <2>2
  <1>4. IsFiniteSet(Below(j)) /\ Cardinality(Below(j)) \in Nat
    <2>1. Below(j) \in SUBSET S
      OBVIOUS
    <2>2. IsFiniteSet(Below(j))
      BY <1>1, <2>1, FS_Subset
    <2> QED
      BY <2>2, FS_CardinalityType
  <1>5. /\ Cardinality(Below(i)) <= Cardinality(Below(j))
        /\ Cardinality(Below(i)) \in Nat
    BY <1>3, <1>4, FS_Subset, FS_CardinalityType
  <1>6. Cardinality(Below(i)) < n
    BY <1>2, <1>4, <1>5
  <1> QED
    BY <1>6 DEF FirstN

-----------------------------------------------------------------------------
(* Every variable keeps its type.                                          *)

LEMMA TypeInit == Init => TypeOK
  <1> SUFFICES ASSUME Init PROVE TypeOK
    OBVIOUS
  <1>1. /\ last \in Nat /\ stream \subseteq 1 .. last /\ created \subseteq Groups
        /\ delivered \in [Groups -> 0 .. last]
        /\ lock \in [Groups -> [Names -> Procs \cup {NoProc}]]
    BY DEF Init
  <1>2. pel \in [Groups -> [Names -> SUBSET (1 .. last)]]
    BY DEF Init
  <1>3. /\ pc \in [Procs -> {"idle", "create", "loop", "read", "handle", "ack"}]
        /\ pending \in [Procs -> BOOLEAN]
        /\ lastID \in [Procs -> 0 .. last]
        /\ batch \in [Procs -> SUBSET (1 .. last)]
        /\ toAck \in [Procs -> SUBSET (1 .. last)]
    BY DEF Init
  <1>4. /\ gcEvents \in Nat /\ gcKey \in BOOLEAN
        /\ gcPc \in [Collectors -> {"idle", "info", "pending"}]
        /\ gcTodo \in [Collectors -> SUBSET Groups]
        /\ inPending \in [Collectors -> BOOLEAN]
    BY DEF Init
  <1>7. gcID \in [Collectors -> [Groups -> 0 .. last]]
    <2>1. [g \in Groups |-> 0] \in [Groups -> 0 .. last]
      BY DEF Init
    <2> QED
      BY <2>1 DEF Init
  <1>5. claiming \subseteq [group : Groups, to : Names, ids : SUBSET (1 .. last)]
    BY DEF Init
  <1>6. /\ acked \in [Groups -> SUBSET (1 .. last)]
        /\ handled \in [Groups -> SUBSET (1 .. last)]
        /\ faults \in Nat /\ expiries \in Nat /\ claims \in Nat
    BY DEF Init
  <1> QED
    BY <1>1, <1>2, <1>3, <1>4, <1>5, <1>6, <1>7 DEF TypeOK

LEMMA TypeStep == TypeOK /\ [Next]_vars => TypeOK'
  <1> SUFFICES ASSUME TypeOK, [Next]_vars PROVE TypeOK'
    OBVIOUS
  <1> USE ProcsAssumption
  <1>1. CASE Publish
    <2>1. 1 .. last \subseteq 1 .. last' /\ 0 .. last \subseteq 0 .. last'
      BY <1>1 DEF Publish, TypeOK
    <2>2. last' \in Nat /\ stream' \subseteq 1 .. last'
      BY <1>1, <2>1 DEF Publish, TypeOK
    <2>3. /\ delivered' \in [Groups -> 0 .. last']
          /\ lastID' \in [Procs -> 0 .. last']
          /\ gcID' \in [Collectors -> [Groups -> 0 .. last']]
      BY <1>1, <2>1 DEF Publish, TypeOK, groupVars, consumerVars, gcVars
    <2>4. /\ pel' \in [Groups -> [Names -> SUBSET (1 .. last')]]
          /\ batch' \in [Procs -> SUBSET (1 .. last')]
          /\ toAck' \in [Procs -> SUBSET (1 .. last')]
          /\ acked' \in [Groups -> SUBSET (1 .. last')]
          /\ handled' \in [Groups -> SUBSET (1 .. last')]
      BY <1>1, <2>1
      DEF Publish, TypeOK, groupVars, consumerVars, gcVars, historyVars
    <2>5. claiming' \subseteq [group : Groups, to : Names, ids : SUBSET (1 .. last')]
      BY <1>1, <2>1 DEF Publish, TypeOK
    <2> QED
      BY <1>1, <2>2, <2>3, <2>4, <2>5
      DEF Publish, TypeOK, groupVars, consumerVars, gcVars, historyVars
  <1>2. ASSUME NEW p \in Procs, Obtain(p) PROVE TypeOK'
    BY <1>2 DEF Obtain, Garbage, TypeOK, streamVars, groupVars, gcVars, historyVars
  <1>3. ASSUME NEW p \in Procs, CreateGroup(p) PROVE TypeOK'
    BY <1>3 DEF CreateGroup, TypeOK, streamVars, gcVars, historyVars
  <1>4. ASSUME NEW p \in Procs, Digest(p) PROVE TypeOK'
    BY <1>4 DEF Digest, TypeOK, streamVars, groupVars, gcVars, historyVars
  <1>5. ASSUME NEW p \in Procs,
               RefreshFails(p) \/ Stop(p) \/ HandlerPanic(p) \/ Crash(p)
        PROVE  TypeOK'
    <2>1. /\ pc' = [pc EXCEPT ![p] = "idle"]
          /\ pending' = [pending EXCEPT ![p] = TRUE]
          /\ lastID' = [lastID EXCEPT ![p] = 0]
          /\ batch' = [batch EXCEPT ![p] = {}]
          /\ toAck' = [toAck EXCEPT ![p] = {}]
      BY <1>5 DEF RefreshFails, Stop, HandlerPanic, Crash, Leave
    <2>2. lock' \in [Groups -> [Names -> Procs \cup {NoProc}]]
      <3>1. PICK g \in Groups, n \in Names : g = GroupOf[p] /\ n = NameOf[p]
        OBVIOUS
      <3>2. lock' = lock \/ lock' = [lock EXCEPT ![g][n] = NoProc]
        BY <1>5, <3>1 DEF RefreshFails, Stop, HandlerPanic, Crash, Release
      <3>3. CASE lock' = [lock EXCEPT ![g][n] = NoProc]
        BY <3>3 DEF TypeOK
      <3>4. CASE lock' = lock
        BY <3>4 DEF TypeOK
      <3> QED
        BY <3>2, <3>3, <3>4
    <2>3. faults' \in Nat
      BY <1>5 DEF RefreshFails, Stop, HandlerPanic, Crash, TypeOK
    <2>4. UNCHANGED <<last, stream, created, delivered, pel, gcEvents, gcVars,
                      claiming, acked, handled, expiries, claims>>
      BY <1>5 DEF RefreshFails, Stop, HandlerPanic, Crash, streamVars, groupVars,
                  historyVars
    <2>5. 0 \in 0 .. last
      BY DEF TypeOK
    <2> QED
      BY <2>1, <2>2, <2>3, <2>4, <2>5 DEF TypeOK, gcVars
  <1>6. ASSUME NEW p \in Procs, ReadPending(p) PROVE TypeOK'
    <2> DEFINE mine == {i \in pel[GroupOf[p]][NameOf[p]] : i > lastID[p]}
    <2>1. mine \subseteq 1 .. last
      BY DEF TypeOK
    <2>2. FirstN(mine, Count) \subseteq 1 .. last
      BY <2>1, FirstNSubset
    <2> HIDE DEF mine
    <2>3. \/ pending' = [pending EXCEPT ![p] = FALSE] /\ UNCHANGED <<lastID, batch, toAck>>
          \/ /\ \E m \in mine : lastID' = [lastID EXCEPT ![p] = m]
             /\ Deliver(p, FirstN(mine, Count)) /\ UNCHANGED pending
      BY <1>6 DEF ReadPending, mine
    <2>4. /\ pending' \in [Procs -> BOOLEAN]
          /\ lastID' \in [Procs -> 0 .. last]
          /\ batch' \in [Procs -> SUBSET (1 .. last)]
          /\ toAck' \in [Procs -> SUBSET (1 .. last)]
      <3>1. 1 .. last \subseteq 0 .. last
        BY DEF TypeOK
      <3>2. CASE Deliver(p, FirstN(mine, Count))
        BY <2>1, <2>2, <2>3, <3>1, <3>2 DEF Deliver, TypeOK
      <3>3. CASE UNCHANGED <<lastID, batch, toAck>>
        BY <2>3, <3>3 DEF Deliver, TypeOK
      <3> QED
        BY <2>3, <3>2, <3>3
    <2>5. pc' \in [Procs -> {"idle", "create", "loop", "read", "handle", "ack"}]
      BY <1>6 DEF ReadPending, Deliver, TypeOK
    <2> QED
      BY <1>6, <2>4, <2>5
      DEF ReadPending, TypeOK, streamVars, groupVars, gcVars, historyVars
  <1>7. ASSUME NEW p \in Procs, ReadNew(p) PROVE TypeOK'
    <2> DEFINE g == GroupOf[p]
               new == {i \in stream : i > delivered[g]}
    <2>0. g \in Groups /\ NameOf[p] \in Names
      OBVIOUS
    <2>1. new \subseteq 1 .. last /\ new \subseteq 0 .. last
      <3>1. stream \subseteq 1 .. last /\ 1 .. last \subseteq 0 .. last
        BY DEF TypeOK
      <3>2. new \subseteq stream
        OBVIOUS
      <3> QED
        BY <3>1, <3>2
    <2>2. FirstN(new, Count) \subseteq 1 .. last
      BY <2>1, FirstNSubset
    <2> HIDE DEF new, g
    <2>3. \/ UNCHANGED <<delivered, pel, batch, toAck>>
          \/ /\ \E m \in new : delivered' = [delivered EXCEPT ![g] = m]
             /\ pel' = [pel EXCEPT ![g][NameOf[p]] = @ \cup FirstN(new, Count)]
             /\ Deliver(p, FirstN(new, Count))
      BY <1>7 DEF ReadNew, new, g
    <2>4. delivered' \in [Groups -> 0 .. last]
      BY <2>0, <2>1, <2>3 DEF TypeOK
    <2>5. pel' \in [Groups -> [Names -> SUBSET (1 .. last)]]
      <3>1. PICK n \in Names : n = NameOf[p]
        BY <2>0
      <3>2. pel[g][n] \cup FirstN(new, Count) \in SUBSET (1 .. last)
        BY <2>0, <2>2 DEF TypeOK
      <3>3. \/ pel' = pel
            \/ pel' = [pel EXCEPT ![g][n] = pel[g][n] \cup FirstN(new, Count)]
        BY <2>0, <2>3, <3>1
      <3>4. CASE pel' = [pel EXCEPT ![g][n] = pel[g][n] \cup FirstN(new, Count)]
        BY <2>0, <3>2, <3>4 DEF TypeOK
      <3>5. CASE pel' = pel
        BY <3>5 DEF TypeOK
      <3> QED
        BY <3>3, <3>4, <3>5
    <2>6. /\ batch' \in [Procs -> SUBSET (1 .. last)]
          /\ toAck' \in [Procs -> SUBSET (1 .. last)]
      <3>1. CASE Deliver(p, FirstN(new, Count))
        BY <2>2, <3>1 DEF Deliver, TypeOK
      <3>2. CASE UNCHANGED <<delivered, pel, batch, toAck>>
        BY <3>2 DEF TypeOK
      <3> QED
        BY <2>3, <3>1, <3>2
    <2>7. pc' \in [Procs -> {"idle", "create", "loop", "read", "handle", "ack"}]
      BY <1>7 DEF ReadNew, Deliver, TypeOK
    <2> QED
      BY <1>7, <2>4, <2>5, <2>6, <2>7
      DEF ReadNew, TypeOK, streamVars, gcVars, historyVars
  <1>8. ASSUME NEW p \in Procs, NEW i \in toAck[p], HandlerAck(p, i) PROVE TypeOK'
    BY <1>8 DEF HandlerAck, XAck, TypeOK, streamVars, gcVars
  <1>9. ASSUME NEW p \in Procs, HandlerReturn(p) PROVE TypeOK'
    BY <1>9 DEF HandlerReturn, Garbage, TypeOK, streamVars, groupVars, gcVars
  <1>10. ASSUME NEW p \in Procs, AckRest(p) PROVE TypeOK'
    BY <1>10 DEF AckRest, XAck, TypeOK, streamVars, gcVars
  <1>11. ASSUME NEW g \in Groups, NEW n \in Names,
                DeadLockExpires(g, n) \/ LiveLockExpires(g, n)
         PROVE  TypeOK'
    <2>1. lock' = [lock EXCEPT ![g][n] = NoProc] /\ expiries' \in Nat
      BY <1>11 DEF DeadLockExpires, LiveLockExpires, TypeOK
    <2>2. lock' \in [Groups -> [Names -> Procs \cup {NoProc}]]
      BY <2>1 DEF TypeOK
    <2> QED
      BY <1>11, <2>1, <2>2
      DEF DeadLockExpires, LiveLockExpires, TypeOK, streamVars, groupVars,
          consumerVars, gcVars, historyVars
  <1>12. ASSUME NEW g \in Groups, NEW from \in Names, NEW to \in Names,
                ClaimRead(g, from, to)
         PROVE  TypeOK'
    BY <1>12 DEF ClaimRead, TypeOK, streamVars, groupVars, consumerVars, gcVars,
                 historyVars
  <1>13. CASE ClaimApply
    <2>1. PICK c \in claiming :
            /\ pel' = [pel EXCEPT ![c.group] =
                         [n \in Names |->
                            IF n = c.to
                            THEN pel[c.group][n] \cup (c.ids \cap Pending(c.group))
                            ELSE pel[c.group][n] \ (c.ids \cap Pending(c.group))]]
            /\ claiming' = {}
      BY <1>13 DEF ClaimApply
    <2>2. c.group \in Groups /\ c.ids \subseteq 1 .. last
      BY DEF TypeOK
    <2>3. pel' \in [Groups -> [Names -> SUBSET (1 .. last)]]
      BY <2>1, <2>2 DEF TypeOK
    <2> QED
      BY <1>13, <2>1, <2>3
      DEF ClaimApply, TypeOK, streamVars, consumerVars, gcVars, historyVars
  <1>14. ASSUME NEW w \in Collectors, GcStart(w) \/ GcCrash(w) PROVE TypeOK'
    <2>0. [g \in Groups |-> 0] \in [Groups -> 0 .. last]
      BY DEF TypeOK
    <2>1. /\ gcPc' \in [Collectors -> {"idle", "info", "pending"}]
          /\ gcTodo' \in [Collectors -> SUBSET Groups]
          /\ inPending' \in [Collectors -> BOOLEAN]
      BY <1>14 DEF GcStart, GcCrash, GcDone, TypeOK
    <2>2. gcID' \in [Collectors -> [Groups -> 0 .. last]]
      <3>1. \/ gcID' = gcID
            \/ gcID' = [gcID EXCEPT ![w] = [g \in Groups |-> 0]]
        BY <1>14 DEF GcStart, GcCrash, GcDone
      <3> QED
        BY <2>0, <3>1 DEF TypeOK
    <2>3. gcEvents' \in Nat /\ gcKey' \in BOOLEAN /\ faults' \in Nat
      <3>1. /\ gcEvents' = gcEvents \/ (gcEvents > 0 /\ gcEvents' = gcEvents - 1)
            /\ faults' = faults \/ faults' = faults + 1
        BY <1>14 DEF GcStart, GcCrash, GcDone, TypeOK
      <3>2. gcKey' = gcKey \/ gcKey' = TRUE
        BY <1>14, Zenon DEF GcStart, GcCrash
      <3>3. gcEvents' \in Nat /\ faults' \in Nat
        BY <3>1 DEF TypeOK
      <3>4. gcKey' \in BOOLEAN
        BY <3>2 DEF TypeOK
      <3> QED
        BY <3>3, <3>4
    <2>4. UNCHANGED <<streamVars, groupVars, lock, consumerVars, claiming,
                      historyVars, expiries, claims>>
      BY <1>14 DEF GcStart, GcCrash
    <2> QED
      BY <2>1, <2>2, <2>3, <2>4
      DEF TypeOK, streamVars, groupVars, consumerVars, historyVars
  <1>15. ASSUME NEW w \in Collectors, GcInfo(w) PROVE TypeOK'
    BY <1>15 DEF GcInfo, TypeOK, streamVars, groupVars, consumerVars, historyVars
  <1>16. ASSUME NEW w \in Collectors, NEW g \in Groups, GcPending(w, g) PROVE TypeOK'
    <2>1. Pending(g) \subseteq 1 .. last
      BY DEF TypeOK, Pending
    <2>2. gcID' \in [Collectors -> [Groups -> 0 .. last]]
      <3>1. \/ gcID' = gcID
            \/ \E lower \in 0 .. last : gcID' = [gcID EXCEPT ![w][g] = lower]
        BY <1>16, <2>1 DEF GcPending
      <3>2. CASE \E lower \in 0 .. last : gcID' = [gcID EXCEPT ![w][g] = lower]
        <4>1. PICK lower \in 0 .. last : gcID' = [gcID EXCEPT ![w][g] = lower]
          BY <3>2
        <4> QED
          BY <4>1 DEF TypeOK
      <3> QED
        BY <3>1, <3>2 DEF TypeOK
    <2> QED
      BY <1>16, <2>2
      DEF GcPending, TypeOK, streamVars, groupVars, consumerVars, historyVars
  <1>17. ASSUME NEW w \in Collectors, GcTrim(w) PROVE TypeOK'
    <2>1. stream' \subseteq 1 .. last
      BY <1>17 DEF GcTrim, TypeOK
    <2>2. [g \in Groups |-> 0] \in [Groups -> 0 .. last]
      BY DEF TypeOK
    <2>3. GcDone(w) \/ UNCHANGED <<gcEvents, gcPc, gcID, gcTodo, inPending>>
      BY <1>17 DEF GcTrim
    <2>5. gcID' \in [Collectors -> [Groups -> 0 .. last]]
      BY <2>2, <2>3 DEF GcDone, TypeOK
    <2>6. gcEvents' \in Nat
      BY <2>3 DEF GcDone, TypeOK
    <2>4. /\ gcPc' \in [Collectors -> {"idle", "info", "pending"}]
          /\ gcTodo' \in [Collectors -> SUBSET Groups]
          /\ inPending' \in [Collectors -> BOOLEAN]
      BY <2>3 DEF GcDone, TypeOK
    <2> QED
      BY <1>17, <2>1, <2>4, <2>5, <2>6
      DEF GcTrim, TypeOK, groupVars, consumerVars, historyVars
  <1>18. CASE GcKeyExpires
    BY <1>18 DEF GcKeyExpires, TypeOK, streamVars, groupVars, consumerVars, historyVars
  <1>19. CASE UNCHANGED vars
    BY <1>19 DEF vars, TypeOK, streamVars, groupVars, consumerVars, gcVars, historyVars
  <1> QED
    BY <1>1, <1>2, <1>3, <1>4, <1>5, <1>6, <1>7, <1>8, <1>9, <1>10, <1>11, <1>12,
       <1>13, <1>14, <1>15, <1>16, <1>17, <1>18, <1>19
    DEF Next, Consume

(* Type correctness of the stream, its groups, consumers and collectors.   *)
THEOREM TypeCorrect == Spec => []TypeOK
  BY TypeInit, TypeStep, PTL DEF Spec

-----------------------------------------------------------------------------
(* The steps, by what they do to the stream and to the pending lists.      *)

QueueVars == <<last, stream, delivered, pel, acked>>

LEMMA QueueSteps ==
  ASSUME TypeOK, [Next]_vars
  PROVE  \/ UNCHANGED QueueVars
         \/ Publish
         \/ \E p \in Procs : ReadNew(p)
         \/ \E p \in Procs : \E ids \in SUBSET toAck[p] :
               XAck(GroupOf[p], ids) /\ UNCHANGED <<last, stream, delivered>>
         \/ ClaimApply
         \/ \E w \in Collectors : GcTrim(w)
  <1> USE DEF QueueVars
  <1>1. ASSUME NEW p \in Procs,
               \/ Obtain(p) \/ CreateGroup(p) \/ Digest(p) \/ RefreshFails(p)
               \/ ReadPending(p) \/ HandlerReturn(p) \/ Stop(p) \/ HandlerPanic(p)
               \/ Crash(p)
        PROVE  UNCHANGED QueueVars
    BY <1>1 DEF Obtain, CreateGroup, Digest, RefreshFails, ReadPending,
                HandlerReturn, Stop, HandlerPanic, Crash, streamVars, groupVars,
                historyVars
  <1>2. ASSUME NEW p \in Procs, AckRest(p)
        PROVE  XAck(GroupOf[p], toAck[p]) /\ UNCHANGED <<last, stream, delivered>>
    BY <1>2 DEF AckRest, streamVars
  <1>3. ASSUME NEW p \in Procs, NEW i \in toAck[p], HandlerAck(p, i)
        PROVE  XAck(GroupOf[p], {i}) /\ UNCHANGED <<last, stream, delivered>>
    BY <1>3 DEF HandlerAck, streamVars
  <1>4. ASSUME NEW g \in Groups, NEW n \in Names,
               \/ DeadLockExpires(g, n) \/ LiveLockExpires(g, n)
               \/ \E to \in Names : ClaimRead(g, n, to)
        PROVE  UNCHANGED QueueVars
    BY <1>4 DEF DeadLockExpires, LiveLockExpires, ClaimRead, streamVars, groupVars,
                historyVars
  <1>5. ASSUME NEW w \in Collectors,
               \/ GcStart(w) \/ GcInfo(w) \/ GcCrash(w)
               \/ \E g \in Groups : GcPending(w, g)
        PROVE  UNCHANGED QueueVars
    BY <1>5 DEF GcStart, GcInfo, GcCrash, GcPending, streamVars, groupVars, historyVars
  <1>6. GcKeyExpires \/ UNCHANGED vars => UNCHANGED QueueVars
    BY DEF GcKeyExpires, vars, streamVars, groupVars, historyVars
  <1>7. ASSUME NEW p \in Procs, AckRest(p) \/ \E i \in toAck[p] : HandlerAck(p, i)
        PROVE  \E ids \in SUBSET toAck[p] :
                  XAck(GroupOf[p], ids) /\ UNCHANGED <<last, stream, delivered>>
    <2>1. CASE AckRest(p)
      BY <2>1, <1>2
    <2>2. ASSUME NEW i \in toAck[p], HandlerAck(p, i)
          PROVE  \E ids \in SUBSET toAck[p] :
                    XAck(GroupOf[p], ids) /\ UNCHANGED <<last, stream, delivered>>
      <3>1. {i} \in SUBSET toAck[p]
        OBVIOUS
      <3> QED
        BY <3>1, <2>2, <1>3
    <2> QED
      BY <1>7, <2>1, <2>2
  <1> QED
    BY <1>1, <1>4, <1>5, <1>6, <1>7 DEF Next, Consume

(* Nothing is ever taken out of a group's acknowledged entries, and its    *)
(* last-delivered-id never goes back.                                      *)
LEMMA Growth ==
  ASSUME TypeOK, [Next]_vars, NEW g \in Groups
  PROVE  acked[g] \subseteq acked'[g] /\ delivered[g] <= delivered'[g]
  <1>1. CASE UNCHANGED QueueVars
    BY <1>1 DEF QueueVars, TypeOK
  <1>2. CASE Publish \/ ClaimApply \/ \E w \in Collectors : GcTrim(w)
    <2>1. acked' = acked /\ delivered' = delivered
      BY <1>2 DEF Publish, ClaimApply, GcTrim, groupVars, historyVars
    <2> QED
      BY <2>1 DEF TypeOK
  <1>3. ASSUME NEW p \in Procs, ReadNew(p)
        PROVE  acked[g] \subseteq acked'[g] /\ delivered[g] <= delivered'[g]
    <2>1. acked' = acked
      BY <1>3 DEF ReadNew, historyVars
    <2>2. \/ delivered' = delivered
          \/ \E m \in stream : m > delivered[GroupOf[p]]
                               /\ delivered' = [delivered EXCEPT ![GroupOf[p]] = m]
      BY <1>3 DEF ReadNew
    <2> QED
      BY <2>1, <2>2 DEF TypeOK
  <1>4. ASSUME NEW p \in Procs, NEW ids \in SUBSET toAck[p],
               XAck(GroupOf[p], ids), UNCHANGED <<last, stream, delivered>>
        PROVE  acked[g] \subseteq acked'[g] /\ delivered[g] <= delivered'[g]
    BY <1>4 DEF XAck, TypeOK
  <1> QED
    BY <1>1, <1>2, <1>3, <1>4, QueueSteps

-----------------------------------------------------------------------------
(* Only the collector removes entries, and only acknowledged ones.         *)

LEMMA NothingLostStep ==
  ASSUME TypeOK, NothingLost, CollectorKnows, [Next]_vars
  PROVE  NothingLost'
  <1>1. CASE UNCHANGED <<last, stream>>
    <2> SUFFICES ASSUME NEW i \in (1 .. last) \ stream, NEW g \in Groups
                 PROVE  i \in acked'[g]
      BY <1>1 DEF NothingLost
    <2> QED
      BY Growth DEF NothingLost
  <1>2. CASE Publish
    BY <1>2 DEF Publish, NothingLost, historyVars, TypeOK
  <1>3. ASSUME NEW w \in Collectors, GcTrim(w) PROVE NothingLost'
    <2> SUFFICES ASSUME NEW i \in (1 .. last) \ stream', NEW g \in Groups
                 PROVE  i \in acked[g]
      BY <1>3 DEF GcTrim, NothingLost, historyVars
    <2>1. CASE i \notin stream
      BY <2>1 DEF NothingLost
    <2>2. CASE i \in stream
      <3>1. i \in Trimmable(w)
        BY <1>3, <2>2, FirstNSubset DEF GcTrim
      <3>2. IF inPending[w] THEN i < gcID[w][g] ELSE i <= gcID[w][g]
        BY <3>1 DEF Trimmable
      <3>3. \A k \in 1 .. gcID[w][g] :
               k \in acked[g] \/ (k = gcID[w][g] /\ inPending[w])
        BY <1>3 DEF GcTrim, CollectorKnows
      <3>4. i \in 1 .. gcID[w][g]
        BY <3>2 DEF TypeOK
      <3> QED
        BY <3>2, <3>3, <3>4 DEF TypeOK
    <2> QED
      BY <2>1, <2>2
  <1>4. ASSUME NEW p \in Procs, ReadNew(p) PROVE UNCHANGED <<last, stream>>
    BY <1>4 DEF ReadNew, streamVars
  <1>5. ClaimApply => UNCHANGED <<last, stream>>
    BY DEF ClaimApply, streamVars
  <1> QED
    BY <1>1, <1>2, <1>3, <1>4, <1>5, QueueSteps DEF QueueVars

-----------------------------------------------------------------------------
(* Every group has, pending or acknowledged, exactly what it was given.    *)

\* XACK takes the ids out of the pending entries of its own group only.
LEMMA PendingAfterXAck ==
  ASSUME TypeOK, NEW h \in Groups, NEW ids, XAck(h, ids), NEW g \in Groups
  PROVE  /\ Pending(g)' = IF g = h THEN Pending(g) \ ids ELSE Pending(g)
         /\ acked'[g] = IF g = h THEN acked[g] \cup ids ELSE acked[g]
  <1>1. pel'[g] = IF g = h THEN [n \in Names |-> pel[g][n] \ ids] ELSE pel[g]
    BY DEF XAck, TypeOK
  <1>2. acked'[g] = IF g = h THEN acked[g] \cup ids ELSE acked[g]
    BY DEF XAck, TypeOK
  <1> QED
    BY <1>1, <1>2 DEF Pending

\* XCLAIM moves pending entries between the consumers of a group.
LEMMA PendingAfterClaim ==
  ASSUME TypeOK, ClaimApply, NEW g \in Groups
  PROVE  Pending(g)' = Pending(g)
  <1>1. PICK c \in claiming :
           pel' = [pel EXCEPT ![c.group] =
             [n \in Names |-> IF n = c.to
                              THEN pel[c.group][n] \cup (c.ids \cap Pending(c.group))
                              ELSE pel[c.group][n] \ (c.ids \cap Pending(c.group))]]
    BY DEF ClaimApply
  <1>2. c.to \in Names /\ c.group \in Groups
    BY DEF TypeOK
  <1>3. CASE g # c.group
    BY <1>1, <1>3 DEF Pending, TypeOK
  <1>4. CASE g = c.group
    <2> DEFINE ids == c.ids \cap Pending(g)
    <2>1. \A n \in Names :
             pel'[g][n] = IF n = c.to THEN pel[g][n] \cup ids ELSE pel[g][n] \ ids
      BY <1>1, <1>4 DEF TypeOK
    <2>2. ids \subseteq Pending(g)
      OBVIOUS
    <2> HIDE DEF ids
    <2>3. /\ \A i : i \in Pending(g) <=> \E n \in Names : i \in pel[g][n]
          /\ \A i : i \in Pending(g)' <=> \E n \in Names : i \in pel'[g][n]
      BY DEF Pending
    <2>4. ASSUME NEW i \in Pending(g)' PROVE i \in Pending(g)
      <3>1. PICK n \in Names : i \in pel'[g][n]
        BY <2>3, <2>4
      <3> QED
        BY <2>1, <2>2, <2>3, <3>1
    <2>5. ASSUME NEW i \in Pending(g) PROVE i \in Pending(g)'
      <3>1. PICK n \in Names : i \in pel[g][n]
        BY <2>3, <2>5
      <3>2. i \in ids => i \in pel'[g][c.to]
        BY <1>2, <2>1
      <3>3. i \notin ids => i \in pel'[g][n]
        BY <2>1, <3>1
      <3> QED
        BY <1>2, <2>3, <3>2, <3>3
    <2> QED
      BY <2>4, <2>5
  <1> QED
    BY <1>3, <1>4

LEMMA DeliveredOnceStep ==
  ASSUME TypeOK, NothingLost, DeliveredOnce, InHand, [Next]_vars
  PROVE  DeliveredOnce'
  <1> SUFFICES ASSUME NEW g \in Groups
               PROVE  /\ \A i \in 1 .. delivered'[g] : i \in Pending(g)' \/ i \in acked'[g]
                      /\ \A i \in Pending(g)' \cup acked'[g] : i <= delivered'[g]
                      /\ Pending(g)' \cap acked'[g] = {}
    BY DEF DeliveredOnce
  <1>1. ASSUME Pending(g)' = Pending(g), acked'[g] = acked[g],
               delivered'[g] = delivered[g]
        PROVE  /\ \A i \in 1 .. delivered'[g] : i \in Pending(g)' \/ i \in acked'[g]
               /\ \A i \in Pending(g)' \cup acked'[g] : i <= delivered'[g]
               /\ Pending(g)' \cap acked'[g] = {}
    BY <1>1 DEF DeliveredOnce
  <1>2. CASE UNCHANGED QueueVars
    BY <1>1, <1>2 DEF QueueVars, Pending
  <1>3. CASE Publish \/ \E w \in Collectors : GcTrim(w)
    BY <1>1, <1>3 DEF Publish, GcTrim, groupVars, historyVars, Pending
  <1>4. CASE ClaimApply
    BY <1>1, <1>4, PendingAfterClaim DEF ClaimApply, historyVars
  <1>5. ASSUME NEW p \in Procs, NEW ids \in SUBSET toAck[p],
               XAck(GroupOf[p], ids), UNCHANGED <<last, stream, delivered>>
        PROVE  /\ \A i \in 1 .. delivered'[g] : i \in Pending(g)' \/ i \in acked'[g]
               /\ \A i \in Pending(g)' \cup acked'[g] : i <= delivered'[g]
               /\ Pending(g)' \cap acked'[g] = {}
    <2>1. GroupOf[p] \in Groups
      BY ProcsAssumption
    <2>2. \A i \in ids : i <= delivered[GroupOf[p]]
      BY DEF InHand
    <2>3. /\ Pending(g)' = IF g = GroupOf[p] THEN Pending(g) \ ids ELSE Pending(g)
          /\ acked'[g] = IF g = GroupOf[p] THEN acked[g] \cup ids ELSE acked[g]
      BY <1>5, <2>1, PendingAfterXAck
    <2> QED
      BY <1>5, <2>2, <2>3 DEF DeliveredOnce
  <1>6. ASSUME NEW p \in Procs, ReadNew(p)
        PROVE  /\ \A i \in 1 .. delivered'[g] : i \in Pending(g)' \/ i \in acked'[g]
               /\ \A i \in Pending(g)' \cup acked'[g] : i <= delivered'[g]
               /\ Pending(g)' \cap acked'[g] = {}
    <2> DEFINE h == GroupOf[p]
               new == {i \in stream : i > delivered[h]}
               ids == FirstN(new, Count)
    <2>1. h \in Groups /\ NameOf[p] \in Names /\ Count \in Nat
      BY ProcsAssumption, SizesAssumption
    <2>2. acked' = acked
      BY <1>6 DEF ReadNew, historyVars
    <2>3. CASE UNCHANGED <<delivered, pel>>
      BY <1>1, <2>2, <2>3 DEF Pending
    <2>4. CASE \E m \in new : /\ IsMax(m, ids)
                              /\ delivered' = [delivered EXCEPT ![h] = m]
                              /\ pel' = [pel EXCEPT ![h][NameOf[p]] = @ \cup ids]
      <3>1. PICK m \in new : /\ IsMax(m, ids)
                             /\ delivered' = [delivered EXCEPT ![h] = m]
                             /\ pel' = [pel EXCEPT ![h][NameOf[p]] = @ \cup ids]
        BY <2>4
      <3>2. /\ new \in SUBSET (1 .. last) /\ last \in Nat
            /\ ids \subseteq new
            /\ \A i \in stream : i > delivered[h] => i \in new
            /\ \A i \in new : i > delivered[h]
        BY FirstNSubset DEF TypeOK
      <3>3. /\ m \in ids /\ \A j \in ids : j <= m
            /\ \A i \in new : i < m => i \in ids
        BY <2>1, <3>1, <3>2, FirstNDownward DEF IsMax
      <3> HIDE DEF ids, new
      <3>4. CASE g # h
        <4>1. delivered'[g] = delivered[g] /\ pel'[g] = pel[g]
          BY <3>1, <3>4, <2>1 DEF TypeOK
        <4> QED
          BY <1>1, <2>2, <4>1 DEF Pending
      <3>5. CASE g = h
        <4>1. delivered'[g] = m
          BY <2>1, <3>1, <3>5 DEF TypeOK
        <4>2. \A n \in Names : pel'[g][n] = IF n = NameOf[p] THEN pel[g][n] \cup ids
                                                            ELSE pel[g][n]
          BY <2>1, <3>1, <3>5 DEF TypeOK
        <4>3. Pending(g)' = Pending(g) \cup ids
          <5>1. /\ \A i : i \in Pending(g) <=> \E n \in Names : i \in pel[g][n]
                /\ \A i : i \in Pending(g)' <=> \E n \in Names : i \in pel'[g][n]
            BY DEF Pending
          <5>2. \A i : i \in Pending(g)' <=> i \in Pending(g) \/ i \in ids
            BY <2>1, <4>2, <5>1
          <5> QED
            BY <5>2
        <4>4. delivered[g] \in Nat /\ m \in Nat /\ ids \subseteq Int /\ m <= last
          BY <3>2, <3>3 DEF TypeOK
        <4>5. ASSUME NEW i \in 1 .. m PROVE i \in Pending(g)' \/ i \in acked[g]
          <5>1. CASE i <= delivered[g]
            BY <4>3, <4>4, <5>1 DEF DeliveredOnce
          <5>2. CASE i > delivered[g] /\ i \in stream
            <6>1. i \in new
              BY <3>2, <3>5, <5>2
            <6>2. i = m \/ i < m
              BY <4>4
            <6> QED
              BY <3>3, <4>3, <6>1, <6>2
          <5>3. CASE i \notin stream
            <6>1. i \in 1 .. last
              BY <3>2, <4>4
            <6> QED
              BY <5>3, <6>1 DEF NothingLost
          <5> QED
            BY <5>1, <5>2, <5>3, <4>4
        <4>6. \A i \in Pending(g) \cup acked[g] : i \in Int /\ i <= delivered[g]
          <5>1. Pending(g) \subseteq Int /\ acked[g] \subseteq Int
            BY DEF Pending, TypeOK
          <5> QED
            BY <5>1 DEF DeliveredOnce
        <4>7. delivered[g] < m /\ \A i \in ids : i > delivered[g]
          BY <3>2, <3>3, <3>5, <4>4
        <4>8. ASSUME NEW i \in Pending(g)' \cup acked[g] PROVE i <= m
          <5>1. CASE i \in ids
            BY <3>3, <5>1
          <5>2. CASE i \in Pending(g) \cup acked[g]
            BY <4>4, <4>6, <4>7, <5>2
          <5> QED
            BY <4>3, <5>1, <5>2
        <4>9. ids \cap acked[g] = {}
          BY <4>4, <4>6, <4>7
        <4>10. Pending(g)' \cap acked[g] = {}
          BY <4>3, <4>9 DEF DeliveredOnce
        <4> QED
          BY <2>2, <4>1, <4>5, <4>8, <4>10
      <3> QED
        BY <3>4, <3>5
    <2> QED
      BY <1>6, <2>3, <2>4 DEF ReadNew
  <1> QED
    BY <1>2, <1>3, <1>4, <1>5, <1>6, QueueSteps

-----------------------------------------------------------------------------
(* What a process holds of its last read.                                  *)

\* A handler's work is not undone.
LEMMA HandledGrows ==
  ASSUME TypeOK, [Next]_vars, NEW g \in Groups
  PROVE  handled[g] \subseteq handled'[g]
  <1>1. ASSUME NEW p \in Procs, NEW S, handled' = [handled EXCEPT ![GroupOf[p]] = @ \cup S]
        PROVE  handled[g] \subseteq handled'[g]
    BY <1>1 DEF TypeOK
  <1>2. \/ handled' = handled
        \/ \E p \in Procs : HandlerReturn(p) \/ \E i \in toAck[p] : HandlerAck(p, i)
    <2>1. ASSUME NEW p \in Procs,
                 \/ Obtain(p) \/ CreateGroup(p) \/ Digest(p) \/ RefreshFails(p)
                 \/ ReadPending(p) \/ ReadNew(p) \/ AckRest(p)
                 \/ Stop(p) \/ HandlerPanic(p) \/ Crash(p)
          PROVE  handled' = handled
      BY <2>1 DEF Obtain, CreateGroup, Digest, RefreshFails, ReadPending, ReadNew,
                  AckRest, Stop, HandlerPanic, Crash, historyVars
    <2>2. ASSUME \/ Publish \/ ClaimApply \/ GcKeyExpires \/ UNCHANGED vars
                 \/ \E g1 \in Groups, n \in Names :
                      \/ DeadLockExpires(g1, n) \/ LiveLockExpires(g1, n)
                      \/ \E to \in Names : ClaimRead(g1, n, to)
                 \/ \E w \in Collectors :
                      \/ GcStart(w) \/ GcInfo(w) \/ GcTrim(w) \/ GcCrash(w)
                      \/ \E g1 \in Groups : GcPending(w, g1)
          PROVE  handled' = handled
      BY <2>2 DEF Publish, ClaimApply, GcKeyExpires, vars, DeadLockExpires,
                  LiveLockExpires, ClaimRead, GcStart, GcInfo, GcTrim, GcCrash,
                  GcPending, historyVars
    <2> QED
      BY <2>1, <2>2 DEF Next, Consume
  <1> QED
    BY <1>1, <1>2 DEF HandlerReturn, HandlerAck

\* The part of InHand about one process.
Holds(p) ==
    /\ toAck[p] \subseteq batch[p]
    /\ \A i \in batch[p] : i <= delivered[GroupOf[p]]
    /\ pc[p] = "ack" => toAck[p] \subseteq handled[GroupOf[p]]

\* A process keeps what it holds while others step.
LEMMA HoldsKept ==
  ASSUME TypeOK, InHand, [Next]_vars, NEW q \in Procs,
         toAck'[q] \subseteq toAck[q], batch'[q] = batch[q],
         toAck'[q] \subseteq batch'[q], pc'[q] = pc[q]
  PROVE  Holds(q)'
  <1>1. GroupOf[q] \in Groups
    BY ProcsAssumption
  <1>2. /\ delivered[GroupOf[q]] <= delivered'[GroupOf[q]]
        /\ handled[GroupOf[q]] \subseteq handled'[GroupOf[q]]
    BY <1>1, Growth, HandledGrows
  <1>3. /\ delivered[GroupOf[q]] \in Int /\ batch[q] \subseteq Int
        /\ delivered'[GroupOf[q]] \in Int
    BY <1>1, TypeStep DEF TypeOK
  <1>4. \A i \in batch[q] : i <= delivered[GroupOf[q]]
    BY DEF InHand
  <1>5. \A i \in batch[q] : i <= delivered'[GroupOf[q]]
    BY <1>2, <1>3, <1>4
  <1>6. pc[q] = "ack" => toAck[q] \subseteq handled[GroupOf[q]]
    BY DEF InHand
  <1> QED
    BY <1>2, <1>5, <1>6 DEF Holds

\* A read that hands entries to the handler hands it delivered ones.
LEMMA HoldsAfterRead ==
  ASSUME TypeOK, DeliveredOnce, [Next]_vars, NEW p \in Procs, ReadPending(p) \/ ReadNew(p),
         pc'[p] # pc[p], pc'[p] = "handle"
  PROVE  Holds(p)'
  <1> DEFINE g == GroupOf[p]
  <1>1. g \in Groups /\ NameOf[p] \in Names
    BY ProcsAssumption
  <1>2. ASSUME NEW ids, Deliver(p, ids), \A i \in ids : i <= delivered'[g]
        PROVE  Holds(p)'
    <2>1. toAck'[p] = ids /\ batch'[p] = ids
      BY <1>2 DEF Deliver, TypeOK
    <2> QED
      BY <2>1, <1>2 DEF Holds
  <1>3. CASE ReadPending(p)
    <2> DEFINE mine == {i \in pel[g][NameOf[p]] : i > lastID[p]}
    <2>1. pc' # [pc EXCEPT ![p] = "loop"]
      BY DEF TypeOK
    <2>2. Deliver(p, FirstN(mine, Count)) /\ delivered' = delivered
      BY <1>3, <2>1 DEF ReadPending, groupVars
    <2>3. FirstN(mine, Count) \subseteq Pending(g)
      BY <1>1, FirstNSubset DEF Pending
    <2> QED
      BY <1>1, <1>2, <2>2, <2>3 DEF DeliveredOnce
  <1>4. CASE ReadNew(p)
    <2> DEFINE new == {i \in stream : i > delivered[g]}
               ids == FirstN(new, Count)
    <2>1. pc' # [pc EXCEPT ![p] = "loop"]
      BY DEF TypeOK
    <2>2. PICK m \in new : /\ IsMax(m, ids)
                           /\ delivered' = [delivered EXCEPT ![g] = m]
                           /\ Deliver(p, ids)
      BY <1>4, <2>1 DEF ReadNew
    <2>3. delivered'[g] = m
      BY <1>1, <2>2 DEF TypeOK
    <2> QED
      BY <1>2, <2>2, <2>3 DEF IsMax
  <1> QED
    BY <1>3, <1>4

LEMMA InHandStep ==
  ASSUME TypeOK, DeliveredOnce, InHand, [Next]_vars
  PROVE  InHand'
  <1> SUFFICES ASSUME NEW q \in Procs PROVE Holds(q)'
    BY DEF InHand, Holds
  <1>0. toAck[q] \subseteq batch[q]
    BY DEF InHand
  <1>1. CASE UNCHANGED <<pc, batch, toAck>>
    BY <1>0, <1>1, HoldsKept
  <1>2. ASSUME NEW p \in Procs, Leave(p) PROVE Holds(q)'
    <2>1. CASE p = q
      BY <1>2, <2>1 DEF Leave, Holds, TypeOK
    <2>2. CASE p # q
      <3>1. toAck'[q] = toAck[q] /\ batch'[q] = batch[q] /\ pc'[q] = pc[q]
        BY <1>2, <2>2 DEF Leave, TypeOK
      <3> QED
        BY <1>0, <3>1, HoldsKept
    <2> QED
      BY <2>1, <2>2
  <1>3. ASSUME NEW p \in Procs, Obtain(p) \/ CreateGroup(p) \/ Digest(p) PROVE Holds(q)'
    <2>1. /\ UNCHANGED <<batch, toAck>>
          /\ \E s \in {"create", "loop", "read"} : pc' = [pc EXCEPT ![p] = s]
      BY <1>3 DEF Obtain, CreateGroup, Digest
    <2>2. CASE pc'[q] = pc[q]
      BY <1>0, <2>1, <2>2, HoldsKept
    <2>3. CASE pc'[q] # pc[q]
      <3>1. p = q /\ pc'[q] # "ack"
        BY <2>1, <2>3 DEF TypeOK
      <3>2. UNCHANGED delivered
        BY <1>3 DEF Obtain, CreateGroup, Digest, groupVars
      <3> QED
        BY <2>1, <3>1, <3>2 DEF Holds, InHand
    <2> QED
      BY <2>2, <2>3
  <1>4. ASSUME NEW p \in Procs, ReadPending(p) \/ ReadNew(p) PROVE Holds(q)'
    <2>1. CASE pc'[q] = "handle" /\ pc'[q] # pc[q]
      <3>1. p = q
        BY <1>4, <2>1 DEF ReadPending, ReadNew, Deliver, TypeOK
      <3> QED
        BY <1>4, <2>1, <3>1, HoldsAfterRead
    <2>2. CASE pc'[q] = "loop" /\ pc'[q] # pc[q]
      <3>1. UNCHANGED <<batch, toAck, delivered>>
        BY <1>4, <2>2 DEF ReadPending, ReadNew, Deliver, TypeOK, groupVars
      <3> QED
        BY <2>2, <3>1 DEF Holds, InHand
    <2>3. CASE pc'[q] = pc[q]
      <3>1. p # q
        BY <1>4, <2>3 DEF ReadPending, ReadNew, Deliver, TypeOK
      <3>2. batch'[q] = batch[q] /\ toAck'[q] = toAck[q]
        BY <1>4, <3>1 DEF ReadPending, ReadNew, Deliver, TypeOK
      <3> QED
        BY <1>0, <2>3, <3>2, HoldsKept
    <2>4. \E s \in {"loop", "handle"} : pc' = [pc EXCEPT ![p] = s]
      BY <1>4 DEF ReadPending, ReadNew, Deliver
    <2> QED
      BY <2>1, <2>2, <2>3, <2>4 DEF TypeOK
  <1>5. ASSUME NEW p \in Procs, NEW i \in toAck[p], HandlerAck(p, i) PROVE Holds(q)'
    <2>1. /\ UNCHANGED <<pc, batch>>
          /\ toAck' = [toAck EXCEPT ![p] = @ \ {i}]
      BY <1>5 DEF HandlerAck
    <2>2. toAck'[q] \subseteq toAck[q]
      BY <2>1 DEF TypeOK
    <2> QED
      BY <1>0, <2>1, <2>2, HoldsKept
  <1>6. ASSUME NEW p \in Procs, HandlerReturn(p) PROVE Holds(q)'
    <2>1. /\ UNCHANGED <<batch, toAck, delivered>>
          /\ pc' = [pc EXCEPT ![p] = "ack"]
          /\ handled' = [handled EXCEPT ![GroupOf[p]] = @ \cup batch[p]]
      BY <1>6 DEF HandlerReturn, groupVars
    <2>2. CASE p = q
      <3>1. batch[q] \subseteq handled'[GroupOf[q]]
        BY <2>1, <2>2, ProcsAssumption DEF TypeOK
      <3> QED
        BY <1>0, <2>1, <3>1 DEF Holds, InHand
    <2>3. CASE p # q
      BY <1>0, <2>1, <2>3, HoldsKept DEF TypeOK
    <2> QED
      BY <2>2, <2>3
  <1>7. ASSUME NEW p \in Procs, AckRest(p) PROVE Holds(q)'
    <2>1. /\ batch' = [batch EXCEPT ![p] = {}]
          /\ toAck' = [toAck EXCEPT ![p] = {}]
          /\ pc' = [pc EXCEPT ![p] = "loop"]
      BY <1>7 DEF AckRest
    <2>2. CASE p = q
      BY <2>1, <2>2 DEF Holds, TypeOK
    <2>3. CASE p # q
      BY <1>0, <2>1, <2>3, HoldsKept DEF TypeOK
    <2> QED
      BY <2>2, <2>3
  <1>8. ASSUME \/ Publish \/ ClaimApply \/ GcKeyExpires \/ UNCHANGED vars
               \/ \E g \in Groups, n \in Names :
                    \/ DeadLockExpires(g, n) \/ LiveLockExpires(g, n)
                    \/ \E to \in Names : ClaimRead(g, n, to)
               \/ \E w \in Collectors :
                    \/ GcStart(w) \/ GcInfo(w) \/ GcTrim(w) \/ GcCrash(w)
                    \/ \E g \in Groups : GcPending(w, g)
        PROVE  UNCHANGED <<pc, batch, toAck>>
    BY <1>8 DEF Publish, ClaimApply, GcKeyExpires, vars, DeadLockExpires,
                LiveLockExpires, ClaimRead, GcStart, GcInfo, GcTrim, GcCrash,
                GcPending, consumerVars
  <1>9. ASSUME NEW p \in Procs, RefreshFails(p) \/ Stop(p) \/ HandlerPanic(p) \/ Crash(p)
        PROVE  Leave(p)
    BY <1>9 DEF RefreshFails, Stop, HandlerPanic, Crash
  <1> QED
    BY <1>1, <1>2, <1>3, <1>4, <1>5, <1>6, <1>7, <1>8, <1>9 DEF Next, Consume

-----------------------------------------------------------------------------
(* What a collector has read of a group stays true.                        *)

\* The part of CollectorKnows about one collector and one group.
Knows(w, g) ==
    gcPc[w] = "pending" =>
        IF g \in gcTodo[w]
        THEN gcID[w][g] <= delivered[g]
        ELSE \A i \in 1 .. gcID[w][g] :
                i \in acked[g] \/ (i = gcID[w][g] /\ inPending[w])

\* It ages well: groups only read on and acknowledge more.
LEMMA KnowsKept ==
  ASSUME TypeOK, CollectorKnows, [Next]_vars, NEW w \in Collectors, NEW g \in Groups,
         gcPc'[w] = gcPc[w], gcID'[w][g] = gcID[w][g],
         g \in gcTodo'[w] <=> g \in gcTodo[w], inPending[w] => inPending'[w]
  PROVE  Knows(w, g)'
  <1>1. acked[g] \subseteq acked'[g] /\ delivered[g] <= delivered'[g]
    BY Growth
  <1>2. gcID[w][g] \in Int /\ delivered[g] \in Int /\ delivered'[g] \in Int
    BY TypeStep DEF TypeOK
  <1>3. Knows(w, g)
    BY DEF CollectorKnows, Knows
  <1>4. CASE g \in gcTodo[w]
    BY <1>1, <1>2, <1>3, <1>4 DEF Knows
  <1>5. CASE g \notin gcTodo[w]
    BY <1>1, <1>3, <1>5 DEF Knows
  <1> QED
    BY <1>4, <1>5

\* XPENDING of group g: below its lowest pending entry everything is
\* acknowledged, and without one everything delivered is.
LEMMA KnowsAfterPending ==
  ASSUME TypeOK, DeliveredOnce, CollectorKnows, NEW w \in Collectors, NEW g \in Groups,
         GcPending(w, g)
  PROVE  Knows(w, g)'
  <1>1. /\ gcPc[w] = "pending" /\ g \in gcTodo[w] /\ g \notin gcTodo'[w]
        /\ UNCHANGED <<pel, delivered, acked>>
    BY DEF GcPending, groupVars, historyVars, TypeOK
  <1>2. CASE Pending(g) = {} /\ UNCHANGED <<gcID, inPending>>
    <2>1. gcID[w][g] <= delivered[g]
      BY <1>1 DEF CollectorKnows
    <2>2. gcID[w][g] \in Int /\ delivered[g] \in Int
      BY DEF TypeOK
    <2>3. \A i \in 1 .. gcID[w][g] : i \in acked[g]
      BY <1>2, <2>1, <2>2 DEF DeliveredOnce
    <2> QED
      BY <1>1, <1>2, <2>3 DEF Knows
  <1>3. ASSUME NEW lower \in Pending(g), IsMin(lower, Pending(g)),
               gcID' = [gcID EXCEPT ![w][g] = lower],
               inPending' = [inPending EXCEPT ![w] = TRUE]
        PROVE  Knows(w, g)'
    <2>1. gcID'[w][g] = lower /\ inPending'[w]
      BY <1>3 DEF TypeOK
    <2>2. lower \in Int /\ delivered[g] \in Int
      BY DEF Pending, TypeOK
    <2>3. lower <= delivered[g]
      BY DEF DeliveredOnce
    <2>4. \A i \in 1 .. lower : i \notin Pending(g) \/ i = lower
      BY <1>3, <2>2 DEF IsMin
    <2>5. \A i \in 1 .. lower : i \in acked[g] \/ i = lower
      BY <2>2, <2>3, <2>4 DEF DeliveredOnce
    <2> QED
      BY <1>1, <2>1, <2>5 DEF Knows
  <1> QED
    BY <1>2, <1>3 DEF GcPending

LEMMA CollectorKnowsStep ==
  ASSUME TypeOK, DeliveredOnce, CollectorKnows, [Next]_vars
  PROVE  CollectorKnows'
  <1> SUFFICES ASSUME NEW w \in Collectors, NEW g \in Groups PROVE Knows(w, g)'
    BY DEF CollectorKnows, Knows
  <1>1. CASE UNCHANGED <<gcPc, gcID, gcTodo, inPending>>
    BY <1>1, KnowsKept
  <1>2. ASSUME NEW v \in Collectors,
               \/ gcPc' = [gcPc EXCEPT ![v] = "idle"] \/ gcPc' = [gcPc EXCEPT ![v] = "info"],
               v # w => /\ gcID'[w] = gcID[w] /\ gcTodo'[w] = gcTodo[w]
                        /\ inPending'[w] = inPending[w]
        PROVE  Knows(w, g)'
    <2>1. CASE v = w
      BY <1>2, <2>1 DEF Knows, TypeOK
    <2>2. CASE v # w
      <3>1. gcPc'[w] = gcPc[w]
        BY <1>2, <2>2 DEF TypeOK
      <3> QED
        BY <1>2, <2>2, <3>1, KnowsKept
    <2> QED
      BY <2>1, <2>2
  <1>3. ASSUME NEW v \in Collectors, GcStart(v) \/ GcCrash(v) PROVE Knows(w, g)'
    <2>1. /\ gcPc' = [gcPc EXCEPT ![v] = "idle"] \/ gcPc' = [gcPc EXCEPT ![v] = "info"]
          /\ v # w => /\ gcID'[w] = gcID[w] /\ gcTodo'[w] = gcTodo[w]
                      /\ inPending'[w] = inPending[w]
      BY <1>3 DEF GcStart, GcDone, GcCrash, TypeOK
    <2> QED
      BY <1>2, <2>1
  <1>4. ASSUME NEW v \in Collectors, GcTrim(v) PROVE Knows(w, g)'
    <2>1. CASE GcDone(v)
      <3>1. /\ gcPc' = [gcPc EXCEPT ![v] = "idle"]
            /\ v # w => /\ gcID'[w] = gcID[w] /\ gcTodo'[w] = gcTodo[w]
                        /\ inPending'[w] = inPending[w]
        BY <2>1 DEF GcDone, TypeOK
      <3> QED
        BY <1>2, <3>1
    <2> QED
      BY <1>1, <1>4, <2>1 DEF GcTrim
  <1>5. ASSUME NEW v \in Collectors, GcInfo(v) PROVE Knows(w, g)'
    <2>1. CASE v = w
      <3>1. /\ gcID'[w][g] = IF g \in created THEN delivered[g] ELSE 0
            /\ gcTodo'[w] = created
            /\ delivered' = delivered
        BY <1>5, <2>1 DEF GcInfo, groupVars, TypeOK
      <3>2. delivered[g] \in Int
        BY DEF TypeOK
      <3>3. CASE g \in created
        BY <3>1, <3>2, <3>3 DEF Knows
      <3>4. CASE g \notin created
        BY <3>1, <3>4 DEF Knows
      <3> QED
        BY <3>3, <3>4
    <2>2. CASE v # w
      <3>1. /\ gcPc'[w] = gcPc[w] /\ gcID'[w] = gcID[w] /\ gcTodo'[w] = gcTodo[w]
            /\ inPending'[w] = inPending[w]
        BY <1>5, <2>2 DEF GcInfo, TypeOK
      <3> QED
        BY <3>1, KnowsKept
    <2> QED
      BY <2>1, <2>2
  <1>6. ASSUME NEW v \in Collectors, NEW h \in Groups, GcPending(v, h) PROVE Knows(w, g)'
    <2>1. CASE v = w /\ h = g
      BY <1>6, <2>1, KnowsAfterPending
    <2>2. CASE v # w \/ h # g
      <3>1. gcPc'[w] = gcPc[w] /\ (g \in gcTodo'[w] <=> g \in gcTodo[w])
        BY <1>6, <2>2 DEF GcPending, TypeOK
      <3>2. \/ UNCHANGED <<gcID, inPending>>
            \/ \E lower \in Pending(h) : /\ gcID' = [gcID EXCEPT ![v][h] = lower]
                                        /\ inPending' = [inPending EXCEPT ![v] = TRUE]
        BY <1>6 DEF GcPending
      <3>3. gcID'[w][g] = gcID[w][g]
        <4>1. ASSUME NEW lower, gcID' = [gcID EXCEPT ![v][h] = lower]
              PROVE  gcID'[w][g] = gcID[w][g]
          <5>1. CASE v # w
            BY <4>1, <5>1 DEF TypeOK
          <5>2. CASE v = w
            BY <2>2, <4>1, <5>2 DEF TypeOK
          <5> QED
            BY <5>1, <5>2
        <4> QED
          BY <3>2, <4>1
      <3>4. inPending[w] => inPending'[w]
        BY <3>2 DEF TypeOK
      <3> QED
        BY <3>1, <3>3, <3>4, KnowsKept
    <2> QED
      BY <2>1, <2>2
  <1>7. ASSUME \/ Publish \/ ClaimApply \/ GcKeyExpires \/ UNCHANGED vars
               \/ \E h \in Groups, n \in Names :
                    \/ DeadLockExpires(h, n) \/ LiveLockExpires(h, n)
                    \/ \E to \in Names : ClaimRead(h, n, to)
               \/ \E p \in Procs :
                    \/ Obtain(p) \/ CreateGroup(p) \/ Digest(p) \/ RefreshFails(p)
                    \/ ReadPending(p) \/ ReadNew(p) \/ HandlerReturn(p) \/ AckRest(p)
                    \/ Stop(p) \/ HandlerPanic(p) \/ Crash(p)
                    \/ \E i \in toAck[p] : HandlerAck(p, i)
        PROVE  UNCHANGED <<gcPc, gcID, gcTodo, inPending>>
    BY <1>7 DEF Publish, ClaimApply, GcKeyExpires, vars, DeadLockExpires,
                LiveLockExpires, ClaimRead, Obtain, CreateGroup, Digest, RefreshFails,
                ReadPending, ReadNew, HandlerReturn, AckRest, Stop, HandlerPanic,
                Crash, HandlerAck, gcVars
  <1> QED
    BY <1>1, <1>3, <1>4, <1>5, <1>6, <1>7 DEF Next, Consume

-----------------------------------------------------------------------------
(* The invariant, and what follows from it.                                *)

LEMMA BrokerInit == Init => BrokerInv
  <1> SUFFICES ASSUME Init PROVE BrokerInv
    OBVIOUS
  <1>1. TypeOK
    BY TypeInit
  <1>2. NothingLost /\ InHand /\ CollectorKnows
    BY DEF Init, NothingLost, InHand, CollectorKnows
  <1>3. \A g \in Groups : Pending(g) = {} /\ acked[g] = {} /\ delivered[g] = 0
    BY DEF Init, Pending
  <1>4. DeliveredOnce
    BY <1>3 DEF DeliveredOnce
  <1> QED
    BY <1>1, <1>2, <1>4 DEF BrokerInv

LEMMA BrokerStep == BrokerInv /\ [Next]_vars => BrokerInv'
  BY TypeStep, NothingLostStep, DeliveredOnceStep, InHandStep, CollectorKnowsStep
  DEF BrokerInv

(* The conjuncts of BrokerInv hold together: each collector's old readings *)
(* of the groups, what each process holds and what the groups were given.  *)
THEOREM BrokerInvariant == Spec => []BrokerInv
  BY BrokerInit, BrokerStep, PTL DEF Spec

(* The collector deletes no entry some group has not acknowledged.         *)
THEOREM NothingIsLost == Spec => []NothingLost
  <1>1. BrokerInv => NothingLost
    BY DEF BrokerInv
  <1> QED
    BY <1>1, BrokerInvariant, PTL

(* No consumer's pending entry has lost its body.                          *)
THEOREM PendingEntriesStay == Spec => []PendingInStream
  <1>1. BrokerInv => PendingInStream
    <2> SUFFICES ASSUME BrokerInv, NEW g \in Groups, NEW i \in Pending(g)
                 PROVE  i \in stream
      BY DEF PendingInStream
    <2>1. i \in 1 .. last
      BY DEF Pending, BrokerInv, TypeOK
    <2> QED
      BY <2>1 DEF BrokerInv, NothingLost, DeliveredOnce
  <1> QED
    BY <1>1, BrokerInvariant, PTL

-----------------------------------------------------------------------------
(* Consumers and collector implement the at-least-once queue.              *)

\* Steps that leave what the queue promises about alone.
LEMMA QueueStutter ==
  ASSUME [Next]_vars,
         ~ Publish, \A w \in Collectors : ~ GcTrim(w),
         \A p \in Procs : /\ ~ HandlerReturn(p) /\ ~ AckRest(p)
                          /\ \A i \in toAck[p] : ~ HandlerAck(p, i)
  PROVE  UNCHANGED <<last, stream, handled, acked>>
  <1>1. ASSUME NEW p \in Procs,
               \/ Obtain(p) \/ CreateGroup(p) \/ Digest(p) \/ RefreshFails(p)
               \/ ReadPending(p) \/ ReadNew(p) \/ Stop(p) \/ HandlerPanic(p) \/ Crash(p)
        PROVE  UNCHANGED <<last, stream, handled, acked>>
    BY <1>1 DEF Obtain, CreateGroup, Digest, RefreshFails, ReadPending, ReadNew, Stop,
                HandlerPanic, Crash, streamVars, historyVars
  <1>2. ASSUME \/ ClaimApply \/ GcKeyExpires \/ UNCHANGED vars
               \/ \E h \in Groups, n \in Names :
                    \/ DeadLockExpires(h, n) \/ LiveLockExpires(h, n)
                    \/ \E to \in Names : ClaimRead(h, n, to)
               \/ \E w \in Collectors :
                    \/ GcStart(w) \/ GcInfo(w) \/ GcCrash(w)
                    \/ \E g \in Groups : GcPending(w, g)
        PROVE  UNCHANGED <<last, stream, handled, acked>>
    BY <1>2 DEF ClaimApply, GcKeyExpires, vars, DeadLockExpires, LiveLockExpires,
                ClaimRead, GcStart, GcInfo, GcCrash, GcPending, streamVars, historyVars
  <1> QED
    BY <1>1, <1>2 DEF Next, Consume

LEMMA ServeStep ==
  ASSUME BrokerInv, NEW p \in Procs,
         \/ HandlerReturn(p) \/ AckRest(p)
         \/ \E i \in toAck[p] : HandlerAck(p, i)
  PROVE  Queue!Serve(GroupOf[p])
  <1> DEFINE g == GroupOf[p]
  <1>1. g \in Groups /\ TypeOK /\ InHand
    BY ProcsAssumption DEF BrokerInv
  <1>2. ASSUME NEW H \in SUBSET (1 .. last), NEW A \in SUBSET handled'[g],
               handled' = [handled EXCEPT ![g] = @ \cup H],
               acked' = [acked EXCEPT ![g] = @ \cup A],
               UNCHANGED <<last, stream>>
        PROVE  Queue!Serve(g)
    BY <1>2 DEF Queue!Serve
  <1>3. CASE HandlerReturn(p)
    <2>1. handled' = [handled EXCEPT ![g] = @ \cup batch[p]] /\ UNCHANGED <<last, stream>>
      BY <1>3 DEF HandlerReturn, streamVars
    <2>2. acked' = [acked EXCEPT ![g] = @ \cup {}]
      BY <1>1, <1>3 DEF HandlerReturn, TypeOK
    <2>3. batch[p] \in SUBSET (1 .. last)
      BY <1>1 DEF TypeOK
    <2> QED
      BY <1>2, <2>1, <2>2, <2>3
  <1>4. CASE AckRest(p)
    <2>1. acked' = [acked EXCEPT ![g] = @ \cup toAck[p]] /\ UNCHANGED <<last, stream>>
      BY <1>4 DEF AckRest, XAck, streamVars
    <2>2. handled' = [handled EXCEPT ![g] = @ \cup {}]
      BY <1>1, <1>4 DEF AckRest, TypeOK
    <2>3. toAck[p] \in SUBSET handled'[g]
      BY <1>1, <1>4 DEF AckRest, InHand
    <2> QED
      BY <1>2, <2>1, <2>2, <2>3
  <1>5. ASSUME NEW i \in toAck[p], HandlerAck(p, i) PROVE Queue!Serve(g)
    <2>1. /\ handled' = [handled EXCEPT ![g] = @ \cup {i}]
          /\ acked' = [acked EXCEPT ![g] = @ \cup {i}]
          /\ UNCHANGED <<last, stream>>
      BY <1>5 DEF HandlerAck, XAck, streamVars
    <2>2. {i} \in SUBSET (1 .. last)
      BY <1>1 DEF TypeOK
    <2>3. {i} \in SUBSET handled'[g]
      BY <1>1, <2>1 DEF TypeOK
    <2> QED
      BY <1>2, <2>1, <2>2, <2>3
  <1> QED
    BY <1>3, <1>4, <1>5

LEMMA DiscardStep ==
  ASSUME BrokerInv, BrokerInv', NEW w \in Collectors, GcTrim(w)
  PROVE  Queue!Discard
  <1> DEFINE S == FirstN(Trimmable(w), ChunkSize)
  <1>1. stream' = stream \ S /\ UNCHANGED <<last, handled, acked>>
    BY DEF GcTrim, historyVars
  <1>2. S \in SUBSET stream
    BY FirstNSubset DEF Trimmable
  <1>3. ASSUME NEW i \in S, NEW g \in Groups PROVE i \in acked[g]
    <2>1. i \in (1 .. last) \ stream'
      BY <1>1, <1>2 DEF BrokerInv, TypeOK
    <2> QED
      BY <1>1, <2>1 DEF BrokerInv, NothingLost
  <1> HIDE DEF S
  <1> QED
    BY <1>1, <1>2, <1>3 DEF Queue!Discard

(* Whatever is claimed, redelivered, crashed or handled twice, a group     *)
(* acknowledges only what its handlers dealt with, and an entry leaves the *)
(* stream only when every group has acknowledged it.                       *)
THEOREM Refinement == Spec => ImplementsAtLeastOnce
  <1>1. Init => Queue!Init
    BY DEF Init, Queue!Init
  <1>2. BrokerInv /\ [Next]_vars /\ BrokerInv' => [Queue!Next]_Queue!vars
    <2> SUFFICES ASSUME BrokerInv, [Next]_vars, BrokerInv'
                 PROVE  Queue!Next \/ UNCHANGED <<last, stream, handled, acked>>
      BY DEF Queue!vars
    <2>1. CASE Publish
      BY <2>1 DEF Publish, Queue!Next, Queue!Publish, historyVars
    <2>2. ASSUME NEW w \in Collectors, GcTrim(w) PROVE Queue!Next
      BY <2>2, DiscardStep DEF Queue!Next
    <2>3. ASSUME NEW p \in Procs,
                 \/ HandlerReturn(p) \/ AckRest(p)
                 \/ \E i \in toAck[p] : HandlerAck(p, i)
          PROVE  Queue!Next
      BY <2>3, ServeStep, ProcsAssumption DEF Queue!Next
    <2> QED
      BY <2>1, <2>2, <2>3, QueueStutter
  <1> QED
    BY <1>1, <1>2, BrokerInvariant, PTL DEF Spec, ImplementsAtLeastOnce, Queue!Spec

-----------------------------------------------------------------------------
(* One process at a time consumes under a name.                            *)

\* Until a lock expires under its holder, whoever consumes holds its lock.
ConsumerHoldsLock == expiries = 0 => \A p \in Procs : pc[p] # "idle" => Holder(p) = p

LEMMA HoldsLockStep ==
  ASSUME TypeOK, ConsumerHoldsLock, [Next]_vars
  PROVE  ConsumerHoldsLock'
  <1> SUFFICES ASSUME expiries' = 0, NEW q \in Procs, pc'[q] # "idle"
               PROVE  Holder(q)' = q
    BY DEF ConsumerHoldsLock
  <1> USE DEF Holder
  <1>1. GroupOf[q] \in Groups /\ NameOf[q] \in Names /\ q # NoProc
    BY ProcsAssumption
  <1>2. CASE UNCHANGED <<pc, lock, expiries>>
    BY <1>2 DEF ConsumerHoldsLock
  <1>3. ASSUME NEW p \in Procs, Obtain(p) PROVE Holder(q)' = q
    <2>1. /\ lock[GroupOf[p]][NameOf[p]] = NoProc
          /\ lock' = [lock EXCEPT ![GroupOf[p]][NameOf[p]] = p]
          /\ expiries' = expiries
          /\ pc' = [pc EXCEPT ![p] = "create"]
      BY <1>3 DEF Obtain
    <2>2. CASE p = q
      BY <1>1, <2>1, <2>2 DEF TypeOK
    <2>3. CASE p # q
      <3>1. pc[q] # "idle"
        BY <2>1, <2>3 DEF TypeOK
      <3>2. lock[GroupOf[q]][NameOf[q]] = q
        BY <2>1, <3>1 DEF ConsumerHoldsLock
      <3>3. GroupOf[p] # GroupOf[q] \/ NameOf[p] # NameOf[q]
        BY <1>1, <2>1, <3>2
      <3>4. CASE GroupOf[p] # GroupOf[q]
        BY <1>1, <2>1, <3>2, <3>4 DEF TypeOK
      <3>5. CASE GroupOf[p] = GroupOf[q] /\ NameOf[p] # NameOf[q]
        BY <1>1, <2>1, <3>2, <3>5 DEF TypeOK
      <3> QED
        BY <3>3, <3>4, <3>5
    <2> QED
      BY <2>2, <2>3
  <1>4. ASSUME NEW p \in Procs, Leave(p), Release(p), UNCHANGED expiries
        PROVE  Holder(q)' = q
    <2>1. pc[q] # "idle" /\ p # q
      BY <1>4 DEF Leave, TypeOK
    <2>2. lock[GroupOf[q]][NameOf[q]] = q
      BY <1>4, <2>1 DEF ConsumerHoldsLock
    <2>3. CASE UNCHANGED lock
      BY <2>2, <2>3
    <2>4. CASE /\ lock[GroupOf[p]][NameOf[p]] = p
               /\ lock' = [lock EXCEPT ![GroupOf[p]][NameOf[p]] = NoProc]
      <3>1. GroupOf[p] # GroupOf[q] \/ NameOf[p] # NameOf[q]
        BY <2>1, <2>2, <2>4
      <3>2. CASE GroupOf[p] # GroupOf[q]
        BY <1>1, <2>2, <2>4, <3>2 DEF TypeOK
      <3>3. CASE GroupOf[p] = GroupOf[q] /\ NameOf[p] # NameOf[q]
        BY <1>1, <2>2, <2>4, <3>3 DEF TypeOK
      <3> QED
        BY <3>1, <3>2, <3>3
    <2> QED
      BY <1>4, <2>3, <2>4 DEF Release
  <1>5. ASSUME NEW p \in Procs, Leave(p), UNCHANGED <<lock, expiries>> PROVE Holder(q)' = q
    BY <1>5 DEF Leave, ConsumerHoldsLock, TypeOK
  <1>6. ASSUME NEW p \in Procs, pc[p] # "idle", UNCHANGED <<lock, expiries>>,
               \E s \in {"loop", "read", "handle", "ack"} : pc' = [pc EXCEPT ![p] = s]
        PROVE  Holder(q)' = q
    BY <1>6 DEF ConsumerHoldsLock, TypeOK
  <1>7. ASSUME NEW g \in Groups, NEW n \in Names, DeadLockExpires(g, n)
        PROVE  Holder(q)' = q
    <2>1. /\ pc[lock[g][n]] = "idle" /\ lock' = [lock EXCEPT ![g][n] = NoProc]
          /\ pc' = pc /\ expiries' = expiries
      BY <1>7 DEF DeadLockExpires, consumerVars
    <2>2. lock[GroupOf[q]][NameOf[q]] = q
      BY <2>1 DEF ConsumerHoldsLock
    <2>3. g # GroupOf[q] \/ n # NameOf[q]
      BY <2>1, <2>2
    <2>4. CASE g # GroupOf[q]
      BY <1>1, <2>1, <2>2, <2>4 DEF TypeOK
    <2>5. CASE g = GroupOf[q] /\ n # NameOf[q]
      BY <1>1, <2>1, <2>2, <2>5 DEF TypeOK
    <2> QED
      BY <2>3, <2>4, <2>5
  <1>8. ASSUME NEW g \in Groups, NEW n \in Names, LiveLockExpires(g, n)
        PROVE  FALSE
    BY <1>8 DEF LiveLockExpires, TypeOK
  <1>9. ASSUME NEW p \in Procs, RefreshFails(p) \/ Stop(p) \/ HandlerPanic(p) \/ Crash(p)
        PROVE  Holder(q)' = q
    BY <1>4, <1>5, <1>9 DEF RefreshFails, Stop, HandlerPanic, Crash
  <1>10. ASSUME NEW p \in Procs,
                \/ CreateGroup(p) \/ Digest(p) \/ ReadPending(p) \/ ReadNew(p)
                \/ HandlerReturn(p) \/ AckRest(p)
         PROVE  Holder(q)' = q
    <2>1. /\ pc[p] # "idle" /\ UNCHANGED <<lock, expiries>>
          /\ \E s \in {"loop", "read", "handle", "ack"} : pc' = [pc EXCEPT ![p] = s]
      BY <1>10 DEF CreateGroup, Digest, ReadPending, ReadNew, Deliver, HandlerReturn, AckRest
    <2> QED
      BY <1>6, <2>1
  <1>11. ASSUME \/ Publish \/ ClaimApply \/ GcKeyExpires \/ UNCHANGED vars
                \/ \E p \in Procs : \E i \in toAck[p] : HandlerAck(p, i)
                \/ \E g \in Groups, n, to \in Names : ClaimRead(g, n, to)
                \/ \E w \in Collectors :
                     \/ GcStart(w) \/ GcInfo(w) \/ GcTrim(w) \/ GcCrash(w)
                     \/ \E g \in Groups : GcPending(w, g)
         PROVE  UNCHANGED <<pc, lock, expiries>>
    BY <1>11 DEF Publish, ClaimApply, GcKeyExpires, vars, HandlerAck, ClaimRead,
                 GcStart, GcInfo, GcTrim, GcCrash, GcPending, consumerVars
  <1> QED
    BY <1>2, <1>3, <1>7, <1>8, <1>9, <1>10, <1>11 DEF Next, Consume

(* Two processes consume under one name only after a lock expired under a  *)
(* live holder.                                                            *)
THEOREM ConsumersExclude == Spec => []OneConsumerPerName
  <1>1. Init => ConsumerHoldsLock
    BY DEF Init, ConsumerHoldsLock
  <1>2. TypeOK /\ ConsumerHoldsLock /\ [Next]_vars => ConsumerHoldsLock'
    BY HoldsLockStep
  <1>3. ConsumerHoldsLock => OneConsumerPerName
    BY DEF ConsumerHoldsLock, OneConsumerPerName, Holder
  <1> QED
    BY <1>1, <1>2, <1>3, TypeCorrect, PTL DEF Spec

\* LockKept as a property of one step.
LEMMA LockKeptStep ==
  ASSUME TypeOK, [Next]_vars, NEW g \in Groups, NEW n \in Names, NEW q \in Procs,
         lock[g][n] = q, pc[q] # "idle", lock'[g][n] # q
  PROVE  pc'[q] = "idle" \/ expiries' = expiries + 1
  <1>1. ASSUME NEW p \in Procs, Obtain(p) PROVE FALSE
    <2>1. /\ lock[GroupOf[p]][NameOf[p]] = NoProc /\ q # NoProc
          /\ lock' = [lock EXCEPT ![GroupOf[p]][NameOf[p]] = p]
      BY <1>1, ProcsAssumption DEF Obtain, Holder
    <2>2. GroupOf[p] # g \/ NameOf[p] # n
      BY <2>1
    <2>3. CASE GroupOf[p] # g
      BY <2>1, <2>3 DEF TypeOK
    <2>4. CASE GroupOf[p] = g /\ NameOf[p] # n
      BY <2>1, <2>4 DEF TypeOK
    <2> QED
      BY <2>2, <2>3, <2>4
  <1>2. ASSUME NEW p \in Procs, Stop(p) \/ HandlerPanic(p)
        PROVE  pc'[q] = "idle"
    <2>1. Leave(p) /\ Release(p)
      BY <1>2 DEF Stop, HandlerPanic
    <2>2. CASE p = q
      BY <2>1, <2>2 DEF Leave, TypeOK
    <2>3. CASE p # q
      <3>1. /\ lock[GroupOf[p]][NameOf[p]] = p
            /\ lock' = [lock EXCEPT ![GroupOf[p]][NameOf[p]] = NoProc]
        BY <2>1 DEF Release, Holder
      <3>2. CASE GroupOf[p] # g
        BY <3>1, <3>2 DEF TypeOK
      <3>3. CASE GroupOf[p] = g /\ NameOf[p] # n
        BY <3>1, <3>3 DEF TypeOK
      <3> QED
        BY <2>3, <3>1, <3>2, <3>3
    <2> QED
      BY <2>2, <2>3
  <1>3. ASSUME NEW h \in Groups, NEW m \in Names, DeadLockExpires(h, m)
        PROVE  FALSE
    <2>1. pc[lock[h][m]] = "idle" /\ lock' = [lock EXCEPT ![h][m] = NoProc]
      BY <1>3 DEF DeadLockExpires
    <2>2. h # g \/ m # n
      BY <2>1
    <2>3. CASE h # g
      BY <2>1, <2>3 DEF TypeOK
    <2>4. CASE h = g /\ m # n
      BY <2>1, <2>4 DEF TypeOK
    <2> QED
      BY <2>2, <2>3, <2>4
  <1>4. ASSUME NEW h \in Groups, NEW m \in Names, LiveLockExpires(h, m)
        PROVE  expiries' = expiries + 1
    BY <1>4 DEF LiveLockExpires
  <1>5. ASSUME \/ Publish \/ ClaimApply \/ GcKeyExpires \/ UNCHANGED vars
               \/ \E p \in Procs :
                    \/ CreateGroup(p) \/ Digest(p) \/ RefreshFails(p) \/ ReadPending(p)
                    \/ ReadNew(p) \/ HandlerReturn(p) \/ AckRest(p) \/ Crash(p)
                    \/ \E i \in toAck[p] : HandlerAck(p, i)
               \/ \E h \in Groups, m, to \in Names : ClaimRead(h, m, to)
               \/ \E w \in Collectors :
                    \/ GcStart(w) \/ GcInfo(w) \/ GcTrim(w) \/ GcCrash(w)
                    \/ \E h \in Groups : GcPending(w, h)
        PROVE  lock' = lock
    BY <1>5 DEF Publish, ClaimApply, GcKeyExpires, vars, CreateGroup, Digest,
                RefreshFails, ReadPending, ReadNew, HandlerReturn, AckRest, Crash,
                HandlerAck, ClaimRead, GcStart, GcInfo, GcTrim, GcCrash, GcPending
  <1> QED
    BY <1>1, <1>2, <1>3, <1>4, <1>5 DEF Next, Consume

(* A stale holder's Release and Refresh leave its successor's lock alone.  *)
THEOREM LocksAreKept == Spec => LockKept
  <1>1. TypeOK /\ [Next]_vars =>
          [\A g \in Groups, n \in Names, q \in Procs :
             lock[g][n] = q /\ pc[q] # "idle" /\ lock'[g][n] # q =>
                 pc'[q] = "idle" \/ expiries' = expiries + 1]_vars
    BY LockKeptStep
  <1> QED
    BY <1>1, TypeCorrect, PTL DEF Spec, LockKept
=============================================================================
