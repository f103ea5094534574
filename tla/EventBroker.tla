----------------------------- MODULE EventBroker -----------------------------
(***************************************************************************)
(* One Redis stream of trixorm, its consumer groups, the processes that    *)
(* consume it (event_broker.go) and the background consumer's garbage      *)
(* collector, which deletes the entries every registered group is done     *)
(* with (background_consumer.go).                                          *)
(*                                                                         *)
(* An entry is its position in the stream: entry i is the i-th XADD, so a  *)
(* Redis id "ms-counter" is its rank and "0-0" is 0.  Redis is modelled    *)
(* from the commands the code sends to it.                                 *)
(***************************************************************************)
EXTENDS Integers, FiniteSets

CONSTANTS
    Groups,        \* consumer groups registered for the stream
    Names,         \* consumer names of a group ("consumer-1", "consumer-2", ...)
    Procs,         \* processes that run consume
    GroupOf,       \* GroupOf[p]: the group process p consumes for
    NameOf,        \* NameOf[p]: the consumer name it uses
    Collectors,    \* background consumers that run the garbage collector
    NoProc,        \* the holder of a free lock
    Count,         \* count argument of Consume: entries per XREADGROUP
    ChunkSize,     \* entries one call of the trimming script deletes (100000)
    MaxEvents,     \* bound: entries ever published
    MaxGarbage,    \* bound: garbage collector events waiting
    MaxFaults,     \* bound: panics, crashes, cancelled contexts
    MaxExpiries,   \* bound: locks that expire under a live holder
    MaxClaims      \* bound: calls of Claim

ASSUME ProcsAssumption == /\ GroupOf \in [Procs -> Groups]
                          /\ NameOf \in [Procs -> Names]
                          /\ NoProc \notin Procs
ASSUME SizesAssumption == /\ Count \in Nat \ {0}
                          /\ ChunkSize \in Nat \ {0}

VARIABLES
    last,       \* rank of the last entry added to the stream
    stream,     \* entries still in the stream
    created,    \* groups created by XGROUP CREATE
    delivered,  \* last-delivered-id of each group
    pel,        \* pel[g][n]: entries of g pending for its consumer n
    lock,       \* lock[g][n]: the process that holds the consumer's lock
    pc,         \* where each process is in consume
    pending,    \* attributes.Pending: still reading its own pending entries
    lastID,     \* attributes.LastIDs[stream]
    batch,      \* entries passed to the handler
    toAck,      \* entries of batch the handler has not acknowledged itself
    gcEvents,   \* garbageCollectorEvents waiting in the collector's stream
    gcKey,      \* the "<group>_gc" key exists
    gcPc,       \* where each collector is in handleRedisChannelGarbageCollector
    gcID,       \* its ids[group]
    gcTodo,     \* the groups of XINFO GROUPS it has not asked XPENDING about
    inPending,  \* its inPending flag
    claiming,   \* the XPENDING reply a call of Claim is about to send as XCLAIM
    acked,      \* history: acked[g], entries acknowledged by group g
    handled,    \* history: handled[g], entries a handler of g has dealt with
    faults, expiries, claims  \* counters of the bounds above

streamVars   == <<last, stream>>
groupVars    == <<created, delivered, pel>>
consumerVars == <<pc, pending, lastID, batch, toAck>>
gcVars       == <<gcKey, gcPc, gcID, gcTodo, inPending>>
historyVars  == <<acked, handled>>
vars == <<streamVars, groupVars, lock, consumerVars, gcEvents, gcVars, claiming,
          historyVars, faults, expiries, claims>>

-----------------------------------------------------------------------------
(* Sets of entries.                                                        *)

\* The lowest n members of S, as COUNT n keeps them.
FirstN(S, n) == {i \in S : Cardinality({j \in S : j < i}) < n}

IsMax(m, S) == m \in S /\ \A j \in S : j <= m
IsMin(m, S) == m \in S /\ \A j \in S : m <= j

\* Entries of group g delivered to some consumer and not acknowledged.
Pending(g) == UNION {pel[g][n] : n \in Names}

Holder(p) == lock[GroupOf[p]][NameOf[p]]

\* XACK: the ids leave the pending list of the group, whoever owns them.
XAck(g, ids) ==
    /\ pel' = [pel EXCEPT ![g] = [n \in Names |-> pel[g][n] \ ids]]
    /\ acked' = [acked EXCEPT ![g] = @ \cup ids]

\* garbage: publishes a collector event unless the last one is under ten
\* seconds old.
Garbage == \/ UNCHANGED gcEvents
           \/ gcEvents < MaxGarbage /\ gcEvents' = gcEvents + 1

-----------------------------------------------------------------------------
Init ==
    /\ last = 0 /\ stream = {} /\ created = {}
    /\ delivered = [g \in Groups |-> 0]
    /\ pel = [g \in Groups |-> [n \in Names |-> {}]]
    /\ lock = [g \in Groups |-> [n \in Names |-> NoProc]]
    /\ pc = [p \in Procs |-> "idle"]
    /\ pending = [p \in Procs |-> TRUE]
    /\ lastID = [p \in Procs |-> 0]
    /\ batch = [p \in Procs |-> {}]
    /\ toAck = [p \in Procs |-> {}]
    /\ gcEvents = 0 /\ gcKey = FALSE
    /\ gcPc = [w \in Collectors |-> "idle"]
    /\ gcID = [w \in Collectors |-> [g \in Groups |-> 0]]
    /\ gcTodo = [w \in Collectors |-> {}]
    /\ inPending = [w \in Collectors |-> FALSE]
    /\ claiming = {}
    /\ acked = [g \in Groups |-> {}]
    /\ handled = [g \in Groups |-> {}]
    /\ faults = 0 /\ expiries = 0 /\ claims = 0

\* Mutant of Publish: the entry gets an id past the next one.
PublishAhead ==
    /\ last < MaxEvents
    /\ last' = last + 1
    /\ stream' = stream \cup {last + 2}
    /\ UNCHANGED <<groupVars, lock, consumerVars, gcEvents, gcVars, claiming,
                   historyVars, faults, expiries, claims>>

(* Publish: XADD.                                                          *)
Publish ==
    /\ last < MaxEvents
    /\ last' = last + 1
    /\ stream' = stream \cup {last + 1}
    /\ UNCHANGED <<groupVars, lock, consumerVars, gcEvents, gcVars, claiming,
                   historyVars, faults, expiries, claims>>

-----------------------------------------------------------------------------
(* consume: one process of one consumer name.                              *)

\* Mutant of Leave: the next consume does not start with what is pending.
LeavePendingRead(p) ==
    /\ pc' = [pc EXCEPT ![p] = "idle"]
    /\ pending' = [pending EXCEPT ![p] = FALSE]
    /\ lastID' = [lastID EXCEPT ![p] = 0]
    /\ batch' = [batch EXCEPT ![p] = {}]
    /\ toAck' = [toAck EXCEPT ![p] = {}]

\* consume returns: its attributes are gone, and the deferred Release deletes
\* the lock's key only while the key still holds the process's own value.
Leave(p) ==
    /\ pc' = [pc EXCEPT ![p] = "idle"]
    /\ pending' = [pending EXCEPT ![p] = TRUE]
    /\ lastID' = [lastID EXCEPT ![p] = 0]
    /\ batch' = [batch EXCEPT ![p] = {}]
    /\ toAck' = [toAck EXCEPT ![p] = {}]

\* Mutant of Release: the key is deleted whatever its value is.
ReleaseAny(p) == lock' = [lock EXCEPT ![GroupOf[p]][NameOf[p]] = NoProc]

Release(p) ==
    lock' = IF Holder(p) = p
            THEN [lock EXCEPT ![GroupOf[p]][NameOf[p]] = NoProc] ELSE lock

\* Mutant of Obtain: SET instead of SET NX.
ObtainTaken(p) ==
    /\ pc[p] = "idle"
    /\ lock' = [lock EXCEPT ![GroupOf[p]][NameOf[p]] = p]
    /\ Garbage
    /\ pc' = [pc EXCEPT ![p] = "create"]
    /\ UNCHANGED <<streamVars, groupVars, pending, lastID, batch, toAck, gcVars,
                   claiming, historyVars, faults, expiries, claims>>

\* ObtainContext with one try, then garbage.
Obtain(p) ==
    /\ pc[p] = "idle"
    /\ Holder(p) = NoProc
    /\ lock' = [lock EXCEPT ![GroupOf[p]][NameOf[p]] = p]
    /\ Garbage
    /\ pc' = [pc EXCEPT ![p] = "create"]
    /\ UNCHANGED <<streamVars, groupVars, pending, lastID, batch, toAck, gcVars,
                   claiming, historyVars, faults, expiries, claims>>

\* XGROUP CREATE ... 0 MKSTREAM; a group that exists is left as it is.
CreateGroup(p) ==
    /\ pc[p] = "create"
    /\ created' = created \cup {GroupOf[p]}
    /\ pc' = [pc EXCEPT ![p] = "loop"]
    /\ UNCHANGED <<streamVars, delivered, pel, lock, pending, lastID, batch, toAck,
                   gcEvents, gcVars, claiming, historyVars, faults, expiries, claims>>

\* The select at the head of the loop goes on to digest while the lock is held.
Digest(p) ==
    /\ pc[p] = "loop"
    /\ Holder(p) = p
    /\ pc' = [pc EXCEPT ![p] = "read"]
    /\ UNCHANGED <<streamVars, groupVars, lock, pending, lastID, batch, toAck,
                   gcEvents, gcVars, claiming, historyVars, faults, expiries, claims>>

\* The lock (90s) expired after the refresh timer (60s) fired: Refresh fails.
RefreshFails(p) ==
    /\ pc[p] = "loop"
    /\ Holder(p) # p
    /\ Leave(p)
    /\ UNCHANGED <<streamVars, groupVars, lock, gcEvents, gcVars, claiming, historyVars,
                   faults, expiries, claims>>

\* ctx.Done, or nothing left to read with the loop disabled.
Stop(p) ==
    /\ pc[p] = "loop" /\ faults < MaxFaults
    /\ faults' = faults + 1
    /\ Leave(p)
    /\ Release(p)
    /\ UNCHANGED <<streamVars, groupVars, gcEvents, gcVars, claiming, historyVars,
                   expiries, claims>>

\* digestKeys hands a reply with entries to the handler.
Deliver(p, ids) ==
    /\ batch' = [batch EXCEPT ![p] = ids]
    /\ toAck' = [toAck EXCEPT ![p] = ids]
    /\ pc' = [pc EXCEPT ![p] = "handle"]

\* XREADGROUP from LastIDs: the consumer's own pending entries.
ReadPending(p) ==
    LET mine == {i \in pel[GroupOf[p]][NameOf[p]] : i > lastID[p]} IN
    /\ pc[p] = "read" /\ pending[p]
    /\ \/ /\ mine = {}
          /\ pending' = [pending EXCEPT ![p] = FALSE]
          /\ pc' = [pc EXCEPT ![p] = "loop"]
          /\ UNCHANGED <<lastID, batch, toAck>>
       \/ \E m \in mine :
          /\ IsMax(m, FirstN(mine, Count))
          /\ Deliver(p, FirstN(mine, Count))
          /\ lastID' = [lastID EXCEPT ![p] = m]
          /\ UNCHANGED pending
    /\ UNCHANGED <<streamVars, groupVars, lock, gcEvents, gcVars, claiming,
                   historyVars, faults, expiries, claims>>

\* Mutant of ReadNew: XREADGROUP with NOACK.
ReadNewNoAck(p) ==
    LET g == GroupOf[p]
        new == {i \in stream : i > delivered[g]}
        ids == FirstN(new, Count) IN
    /\ pc[p] = "read" /\ ~pending[p]
    /\ \E m \in new :
          /\ IsMax(m, ids)
          /\ delivered' = [delivered EXCEPT ![g] = m]
          /\ Deliver(p, ids)
    /\ UNCHANGED <<streamVars, created, pel, lock, pending, lastID, gcEvents, gcVars,
                   claiming, historyVars, faults, expiries, claims>>

\* XREADGROUP ">": entries no consumer of the group has been given.
ReadNew(p) ==
    LET g == GroupOf[p]
        new == {i \in stream : i > delivered[g]}
        ids == FirstN(new, Count) IN
    /\ pc[p] = "read" /\ ~pending[p]
    /\ \/ /\ new = {}
          /\ pc' = [pc EXCEPT ![p] = "loop"]
          /\ UNCHANGED <<delivered, pel, batch, toAck>>
       \/ \E m \in new :
          /\ IsMax(m, ids)
          /\ delivered' = [delivered EXCEPT ![g] = m]
          /\ pel' = [pel EXCEPT ![g][NameOf[p]] = @ \cup ids]
          /\ Deliver(p, ids)
    /\ UNCHANGED <<streamVars, created, lock, pending, lastID, gcEvents, gcVars,
                   claiming, historyVars, faults, expiries, claims>>

\* The handler calls event.Ack on an event it has dealt with.
HandlerAck(p, i) ==
    /\ pc[p] = "handle" /\ i \in toAck[p]
    /\ handled' = [handled EXCEPT ![GroupOf[p]] = @ \cup {i}]
    /\ XAck(GroupOf[p], {i})
    /\ toAck' = [toAck EXCEPT ![p] = @ \ {i}]
    /\ UNCHANGED <<streamVars, created, delivered, lock, pc, pending, lastID, batch,
                   gcEvents, gcVars, claiming, faults, expiries, claims>>

\* The handler returns; garbage runs before what it left is acknowledged.
HandlerReturn(p) ==
    /\ pc[p] = "handle"
    /\ handled' = [handled EXCEPT ![GroupOf[p]] = @ \cup batch[p]]
    /\ Garbage
    /\ pc' = [pc EXCEPT ![p] = "ack"]
    /\ UNCHANGED <<streamVars, groupVars, lock, pending, lastID, batch, toAck,
                   gcVars, claiming, acked, faults, expiries, claims>>

AckRest(p) ==
    /\ pc[p] = "ack"
    /\ XAck(GroupOf[p], toAck[p])
    /\ batch' = [batch EXCEPT ![p] = {}]
    /\ toAck' = [toAck EXCEPT ![p] = {}]
    /\ pc' = [pc EXCEPT ![p] = "loop"]
    /\ UNCHANGED <<streamVars, created, delivered, lock, pending, lastID, gcEvents,
                   gcVars, claiming, handled, faults, expiries, claims>>

\* Mutant of HandlerPanic: the batch is acknowledged all the same.
HandlerPanicAcks(p) ==
    /\ pc[p] = "handle" /\ faults < MaxFaults
    /\ faults' = faults + 1
    /\ XAck(GroupOf[p], toAck[p])
    /\ Leave(p)
    /\ Release(p)
    /\ UNCHANGED <<streamVars, created, delivered, gcEvents, gcVars, claiming, handled,
                   expiries, claims>>

\* The handler panics: consume unwinds and releases its lock.
HandlerPanic(p) ==
    /\ pc[p] = "handle" /\ faults < MaxFaults
    /\ faults' = faults + 1
    /\ Leave(p)
    /\ Release(p)
    /\ UNCHANGED <<streamVars, groupVars, gcEvents, gcVars, claiming, historyVars,
                   expiries, claims>>

\* The process dies: its lock stays until the key expires.
Crash(p) ==
    /\ pc[p] # "idle" /\ faults < MaxFaults
    /\ faults' = faults + 1
    /\ Leave(p)
    /\ UNCHANGED <<streamVars, groupVars, lock, gcEvents, gcVars, claiming,
                   historyVars, expiries, claims>>

\* The key of a lock expires after its holder died ...
DeadLockExpires(g, n) ==
    /\ lock[g][n] # NoProc /\ pc[lock[g][n]] = "idle"
    /\ lock' = [lock EXCEPT ![g][n] = NoProc]
    /\ UNCHANGED <<streamVars, groupVars, consumerVars, gcEvents, gcVars, claiming,
                   historyVars, faults, expiries, claims>>

\* ... or under a holder that was slow to refresh it.
LiveLockExpires(g, n) ==
    /\ lock[g][n] # NoProc /\ pc[lock[g][n]] # "idle"
    /\ expiries < MaxExpiries /\ expiries' = expiries + 1
    /\ lock' = [lock EXCEPT ![g][n] = NoProc]
    /\ UNCHANGED <<streamVars, groupVars, consumerVars, gcEvents, gcVars, claiming,
                   historyVars, faults, claims>>

-----------------------------------------------------------------------------
(* Claim(from, to): XPENDING, then XCLAIM of the ids it returned.  An id    *)
(* acknowledged in between is not pending and is not claimed.              *)
ClaimRead(g, from, to) ==
    /\ claiming = {} /\ claims < MaxClaims
    /\ pel[g][from] # {}
    /\ claiming' = {[group |-> g, to |-> to, ids |-> pel[g][from]]}
    /\ claims' = claims + 1
    /\ UNCHANGED <<streamVars, groupVars, lock, consumerVars, gcEvents, gcVars,
                   historyVars, faults, expiries>>

ClaimApply ==
    \E c \in claiming :
        LET ids == c.ids \cap Pending(c.group) IN
        /\ pel' = [pel EXCEPT ![c.group] =
                     [n \in Names |-> IF n = c.to THEN pel[c.group][n] \cup ids
                                                  ELSE pel[c.group][n] \ ids]]
        /\ claiming' = {}
        /\ UNCHANGED <<streamVars, created, delivered, lock, consumerVars, gcEvents,
                       gcVars, historyVars, faults, expiries, claims>>

-----------------------------------------------------------------------------
(* handleRedisChannelGarbageCollector.                                     *)

\* event.delete, and the handler's variables are gone.
GcDone(w) ==
    /\ gcEvents' = IF gcEvents > 0 THEN gcEvents - 1 ELSE 0
    /\ gcPc' = [gcPc EXCEPT ![w] = "idle"]
    /\ gcID' = [gcID EXCEPT ![w] = [g \in Groups |-> 0]]
    /\ gcTodo' = [gcTodo EXCEPT ![w] = {}]
    /\ inPending' = [inPending EXCEPT ![w] = FALSE]

\* SETNX <group>_gc with thirty seconds: without it the event is dropped.
GcStart(w) ==
    /\ gcPc[w] = "idle" /\ gcEvents > 0
    /\ \/ gcKey /\ GcDone(w) /\ UNCHANGED gcKey
       \/ /\ ~gcKey /\ gcKey' = TRUE
          /\ gcPc' = [gcPc EXCEPT ![w] = "info"]
          /\ UNCHANGED <<gcEvents, gcID, gcTodo, inPending>>
    /\ UNCHANGED <<streamVars, groupVars, lock, consumerVars, claiming, historyVars,
                   faults, expiries, claims>>

GcKeyExpires ==
    /\ gcKey /\ gcKey' = FALSE
    /\ UNCHANGED <<streamVars, groupVars, lock, consumerVars, gcEvents, gcPc, gcID,
                   gcTodo, inPending, claiming, historyVars, faults, expiries, claims>>

\* XINFO GROUPS: the last delivered id of every group created so far; a
\* registered group that does not exist keeps 0.
GcInfo(w) ==
    /\ gcPc[w] = "info"
    /\ gcID' = [gcID EXCEPT ![w] =
                  [g \in Groups |-> IF g \in created THEN delivered[g] ELSE 0]]
    /\ gcTodo' = [gcTodo EXCEPT ![w] = created]
    /\ gcPc' = [gcPc EXCEPT ![w] = "pending"]
    /\ UNCHANGED <<streamVars, groupVars, lock, consumerVars, gcEvents, gcKey,
                   inPending, claiming, historyVars, faults, expiries, claims>>

\* Mutant of GcPending: what is pending in a group is not looked at.
GcPendingBlind(w, g) ==
    /\ gcPc[w] = "pending" /\ g \in gcTodo[w]
    /\ gcTodo' = [gcTodo EXCEPT ![w] = @ \ {g}]
    /\ UNCHANGED <<streamVars, groupVars, lock, consumerVars, gcEvents, gcKey, gcPc,
                   gcID, inPending, claiming, historyVars, faults, expiries, claims>>

\* XPENDING of one group: its lowest pending id replaces the delivered one.
GcPending(w, g) ==
    /\ gcPc[w] = "pending" /\ g \in gcTodo[w]
    /\ \/ /\ Pending(g) = {}
          /\ UNCHANGED <<gcID, inPending>>
       \/ \E lower \in Pending(g) :
          /\ IsMin(lower, Pending(g))
          /\ gcID' = [gcID EXCEPT ![w][g] = lower]
          /\ inPending' = [inPending EXCEPT ![w] = TRUE]
    /\ gcTodo' = [gcTodo EXCEPT ![w] = @ \ {g}]
    /\ UNCHANGED <<streamVars, groupVars, lock, consumerVars, gcEvents, gcKey, gcPc,
                   claiming, historyVars, faults, expiries, claims>>

\* Mutant of Trimmable: a group's lowest pending entry counts as done with.
TrimmableInclusive(w) == {i \in stream : \A g \in Groups : i <= gcID[w][g]}

\* The entries up to "end": the least id of the groups, less one when some
\* group has pending entries; none while a group has read nothing (id 0).
Trimmable(w) ==
    {i \in stream : \A g \in Groups :
        IF inPending[w] THEN i < gcID[w][g] ELSE i <= gcID[w][g]}

\* EVALSHA: one script call deletes at most ChunkSize entries; a call that
\* empties the range is the last one and the event is deleted.
GcTrim(w) ==
    /\ gcPc[w] = "pending" /\ gcTodo[w] = {}
    /\ stream' = stream \ FirstN(Trimmable(w), ChunkSize)
    /\ \/ Cardinality(Trimmable(w)) < ChunkSize /\ GcDone(w)
       \/ /\ Cardinality(Trimmable(w)) >= ChunkSize
          /\ UNCHANGED <<gcEvents, gcPc, gcID, gcTodo, inPending>>
    /\ UNCHANGED <<last, groupVars, lock, consumerVars, gcKey, claiming, historyVars,
                   faults, expiries, claims>>

\* The background consumer dies; the event is delivered again.
GcCrash(w) ==
    /\ gcPc[w] # "idle" /\ faults < MaxFaults
    /\ faults' = faults + 1
    /\ gcPc' = [gcPc EXCEPT ![w] = "idle"]
    /\ gcID' = [gcID EXCEPT ![w] = [g \in Groups |-> 0]]
    /\ gcTodo' = [gcTodo EXCEPT ![w] = {}]
    /\ inPending' = [inPending EXCEPT ![w] = FALSE]
    /\ UNCHANGED <<streamVars, groupVars, lock, consumerVars, gcEvents, gcKey,
                   claiming, historyVars, expiries, claims>>

-----------------------------------------------------------------------------
Consume(p) ==
    \/ Obtain(p) \/ CreateGroup(p) \/ Digest(p) \/ RefreshFails(p)
    \/ ReadPending(p) \/ ReadNew(p) \/ HandlerReturn(p) \/ AckRest(p)

Next ==
    \/ Publish
    \/ \E p \in Procs : Consume(p) \/ Stop(p) \/ HandlerPanic(p) \/ Crash(p)
                        \/ \E i \in toAck[p] : HandlerAck(p, i)
    \/ \E g \in Groups, n \in Names :
          \/ DeadLockExpires(g, n) \/ LiveLockExpires(g, n)
          \/ \E to \in Names : ClaimRead(g, n, to)
    \/ ClaimApply
    \/ \E w \in Collectors :
          GcStart(w) \/ GcInfo(w) \/ GcTrim(w) \/ GcCrash(w)
          \/ \E g \in Groups : GcPending(w, g)
    \/ GcKeyExpires

Spec == Init /\ [][Next]_vars

\* The supervisor restarts a process that left consume, handlers return, and
\* the lock of a dead holder expires.
Fairness ==
    /\ \A p \in Procs : WF_vars(Consume(p))
    /\ \A g \in Groups, n \in Names : WF_vars(DeadLockExpires(g, n))

LiveSpec == Spec /\ Fairness
-----------------------------------------------------------------------------
\* The values each variable may take.
TypeOK ==
    /\ last \in Nat /\ stream \subseteq 1 .. last
    /\ created \subseteq Groups
    /\ delivered \in [Groups -> 0 .. last]
    /\ pel \in [Groups -> [Names -> SUBSET (1 .. last)]]
    /\ lock \in [Groups -> [Names -> Procs \cup {NoProc}]]
    /\ pc \in [Procs -> {"idle", "create", "loop", "read", "handle", "ack"}]
    /\ pending \in [Procs -> BOOLEAN]
    /\ lastID \in [Procs -> 0 .. last]
    /\ batch \in [Procs -> SUBSET (1 .. last)]
    /\ toAck \in [Procs -> SUBSET (1 .. last)]
    /\ gcEvents \in Nat /\ gcKey \in BOOLEAN
    /\ gcPc \in [Collectors -> {"idle", "info", "pending"}]
    /\ gcID \in [Collectors -> [Groups -> 0 .. last]]
    /\ gcTodo \in [Collectors -> SUBSET Groups]
    /\ inPending \in [Collectors -> BOOLEAN]
    /\ claiming \subseteq [group : Groups, to : Names, ids : SUBSET (1 .. last)]
    /\ acked \in [Groups -> SUBSET (1 .. last)]
    /\ handled \in [Groups -> SUBSET (1 .. last)]
    /\ faults \in Nat /\ expiries \in Nat /\ claims \in Nat

\* The collector reads XINFO GROUPS and XPENDING of each group at different
\* moments, while consumers read, acknowledge, claim and die: an entry leaves
\* the stream only after every registered group acknowledged it.
NothingLost ==
    \A i \in (1 .. last) \ stream : \A g \in Groups : i \in acked[g]

\* An entry a consumer will be given again in its pending phase still has its
\* body: XREADGROUP would answer with an empty one, which Unserialize rejects.
PendingInStream == \A g \in Groups : Pending(g) \subseteq stream

\* The consumers and the collector together are an at-least-once queue: whatever
\* is claimed, redelivered or handled twice, a group acknowledges only what one of
\* its handlers dealt with, and an entry is discarded only when all groups have.
Queue == INSTANCE AtLeastOnce WITH published <- last, retained <- stream
ImplementsAtLeastOnce == Queue!Spec

\* Why nothing is lost.  Each group has acknowledged or still has pending exactly
\* what was delivered to it; a handler is given delivered entries only and what
\* remains to acknowledge after it was handled; and what a collector has read of a
\* group stays true however old it is: below its id the group acknowledged
\* everything, and at its id too unless the id is a pending one.
DeliveredOnce ==
    \A g \in Groups :
        /\ \A i \in 1 .. delivered[g] : i \in Pending(g) \/ i \in acked[g]
        /\ \A i \in Pending(g) \cup acked[g] : i <= delivered[g]
        /\ Pending(g) \cap acked[g] = {}

InHand ==
    \A p \in Procs :
        /\ toAck[p] \subseteq batch[p]
        /\ \A i \in batch[p] : i <= delivered[GroupOf[p]]
        /\ pc[p] = "ack" => toAck[p] \subseteq handled[GroupOf[p]]

CollectorKnows ==
    \A w \in Collectors, g \in Groups :
        gcPc[w] = "pending" =>
            IF g \in gcTodo[w]
            THEN gcID[w][g] <= delivered[g]
            ELSE \A i \in 1 .. gcID[w][g] :
                    i \in acked[g] \/ (i = gcID[w][g] /\ inPending[w])

BrokerInv ==
    TypeOK /\ NothingLost /\ DeliveredOnce /\ InHand /\ CollectorKnows

\* A process that consumes loses its lock only by leaving consume or because its
\* key expired: a stale holder that comes back from a slow handler and releases, or
\* fails to refresh, leaves the lock of its successor alone.
LockKept ==
    [][\A g \in Groups, n \in Names, q \in Procs :
          lock[g][n] = q /\ pc[q] # "idle" /\ lock'[g][n] # q =>
              pc'[q] = "idle" \/ expiries' = expiries + 1]_vars

\* While no lock expired under its holder, one process at a time consumes under
\* a name.
OneConsumerPerName ==
    expiries = 0 =>
        \A p, q \in Procs :
            /\ p # q /\ GroupOf[p] = GroupOf[q] /\ NameOf[p] = NameOf[q]
            => pc[p] = "idle" \/ pc[q] = "idle"

\* Every published entry is acknowledged by every group, through panics and
\* crashes and through an expired lock (not both: a stale holder that reads an
\* entry and then dies leaves it pending with a session past its pending phase),
\* as long as nothing is claimed for a consumer that is already running.
EventuallyAcked ==
    \A g \in Groups, i \in 1 .. MaxEvents :
        i <= last ~> (i \in acked[g] \/ (faults > 0 /\ expiries > 0) \/ claims > 0)
=============================================================================
