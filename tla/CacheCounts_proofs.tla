------------------------- MODULE CacheCounts_proofs -------------------------
(* What CachePlugin counts: slots, keys of the group of updates, changes    *)
(* that are not in the file.  The theorems hold for every set of keys,      *)
(* queries and updates; none of these needs to be finite, as what is        *)
(* counted always is.                                                       *)
EXTENDS CachePlugin_proofs, FiniteSetTheorems

-----------------------------------------------------------------------------
(* The semaphore and the group of lazy updates.                             *)

Running == {u \in Updaters : work[u].pc \notin {"idle", "start"}}

Grouped == {u \in Updaters : work[u].pc \notin {"idle", "release"}}

Semaphores ==
    /\ IsFiniteSet(Running) /\ slots = Cardinality(Running) /\ slots <= MaxLazy
    /\ updating = {work[u].key : u \in Grouped}
    /\ \A u, v \in Grouped : work[u].key = work[v].key => u = v

-----------------------------------------------------------------------------
(* The changes.                                                             *)

Counting == {w \in Workers : At(w, "count")}

\* The keys that the file lacks once the dump under way is over; the dump still
\* reads those of todo.
Behind ==
    {k \in Keys : /\ l2[k] # None /\ ~ Expired(l2[k])
                  /\ IF dump = Unlocked THEN l2[k] # file[k]
                     ELSE k \notin dump.todo /\ l2[k] # dump.seen[k]}

\* Neither the dump loop, which has taken the count, nor a flush, which has set
\* it to 0, waits for the dump lock, and no dump has failed.
Settled ==
    /\ task["loop"] = "dump" => dump # Unlocked /\ dump.by = "loop"
    /\ task["flush"] # "out" => dump # Unlocked /\ dump.by = "flush"
    /\ dump = Unlocked => ~ lost

ChangesCounted ==
    /\ updated \in Nat /\ taken \in Nat /\ (task["loop"] # "check" => taken = 0)
    /\ IsFiniteSet(Counting)
    /\ dump # Unlocked => task[dump.by] = "dump" /\ dump.at <= now
    /\ Settled => /\ IsFiniteSet(Behind)
                  /\ Cardinality(Behind) <= updated + taken + Cardinality(Counting)

Rest == toFlush \subseteq Keys /\ lost \in BOOLEAN

CountInv == Semaphores /\ ChangesCounted /\ Rest

-----------------------------------------------------------------------------
(* Frames.                                                                  *)

LEMMA OneMoves ==
    ASSUME IInv, NEW w \in Workers, NEW s, Becomes(w, s)
    PROVE  \A x \in Workers : work'[x] = IF x = w THEN s ELSE work[x]
BY DEF IInv, WorkGood, Becomes

LEMMA SemaphoresHold ==
    ASSUME Semaphores, UNCHANGED <<slots, updating>>,
           \A u \in Updaters : /\ work'[u].pc \in {"idle", "start"} <=> work[u].pc \in {"idle", "start"}
                               /\ work'[u].pc \in {"idle", "release"}
                                    <=> work[u].pc \in {"idle", "release"}
                               /\ u \in Grouped => work'[u].key = work[u].key
    PROVE  Semaphores'
<1>1. Running' = Running /\ Grouped' = Grouped
  BY DEF Running, Grouped
<1>2. \A u \in Grouped : work'[u].key = work[u].key
  BY DEF Grouped
<1>3. {work'[u].key : u \in Grouped'} = {work[u].key : u \in Grouped}
  BY <1>1, <1>2
<1>4. IsFiniteSet(Running') /\ slots' = Cardinality(Running') /\ slots' <= MaxLazy
  BY <1>1 DEF Semaphores
<1>5. updating' = {work'[u].key : u \in Grouped'}
  BY <1>3 DEF Semaphores
<1>6. \A u, v \in Grouped' : work'[u].key = work'[v].key => u = v
  BY <1>1, <1>2 DEF Semaphores
<1> QED
  BY <1>4, <1>5, <1>6 DEF Semaphores

\* A query does not touch the semaphores.
LEMMA CallMoves ==
    ASSUME IInv, Semaphores, NEW c \in Calls, NEW s, Becomes(c, s), UNCHANGED <<slots, updating>>
    PROVE  Semaphores'
<1>1. c \in Workers /\ \A u \in Updaters : u \in Workers /\ u # c
  BY NamesAssumption DEF Workers
<1>2. \A u \in Updaters : work'[u] = work[u]
  BY <1>1, OneMoves
<1> QED
  BY <1>2, SemaphoresHold

\* An update keeps both from its exchange to its end.
LEMMA UpdateMoves ==
    ASSUME IInv, Semaphores, NEW u \in Updaters, NEW s, Becomes(u, s), UNCHANGED <<slots, updating>>,
           work[u].pc \in {"ask", "save", "count", "store"},
           s.pc \in {"save", "count", "store", "forget"}, s.key = work[u].key
    PROVE  Semaphores'
<1>1. \A v \in Updaters : v \in Workers
  BY DEF Workers
<1>2. \A v \in Updaters : work'[v] = IF v = u THEN s ELSE work[v]
  BY <1>1, OneMoves
<1> QED
  BY <1>2, SemaphoresHold

\* The count covers what it covered.
LEMMA CountsHold ==
    ASSUME ChangesCounted, updated' \in Nat, taken' \in Nat,
           task'["loop"] # "check" => taken' = 0, Counting' = Counting,
           dump' # Unlocked => task'[dump'.by] = "dump" /\ dump'.at <= now',
           Settled' => /\ Settled /\ Behind' \subseteq Behind
                       /\ updated' + taken' = updated + taken
    PROVE  ChangesCounted'
<1>1. IsFiniteSet(Counting')
  BY DEF ChangesCounted
<1>2. ASSUME Settled'
      PROVE  /\ IsFiniteSet(Behind')
             /\ Cardinality(Behind') <= updated' + taken' + Cardinality(Counting')
  <2>1. /\ IsFiniteSet(Behind) /\ IsFiniteSet(Counting)
        /\ Cardinality(Behind) <= updated + taken + Cardinality(Counting)
        /\ updated \in Nat /\ taken \in Nat
    BY <1>2 DEF ChangesCounted
  <2>2. PICK b \in SUBSET Behind : b = Behind'
    BY <1>2
  <2>3. IsFiniteSet(b) /\ Cardinality(b) <= Cardinality(Behind)
    BY <2>1, FS_Subset
  <2>4. Cardinality(b) \in Nat /\ Cardinality(Behind) \in Nat /\ Cardinality(Counting) \in Nat
    BY <2>1, <2>3, FS_CardinalityType
  <2>5. Settled'
    BY <1>2
  <2>6. updated' + taken' = updated + taken
    BY <2>5
  <2>7. PICK c \in Nat : c = Cardinality(Counting)
    BY <2>4
  <2>8. PICK n \in Nat : n = updated + taken
    BY <2>1
  <2>9. Cardinality(Behind) <= n + c
    BY <2>1, <2>7, <2>8
  <2>10. Cardinality(b) <= n + c
    BY <2>3, <2>4, <2>9
  <2> QED
    BY <2>2, <2>3, <2>6, <2>7, <2>8, <2>10
<1> QED
  BY <1>1, <1>2 DEF ChangesCounted, Unlocked

\* Nothing is behind.
LEMMA CountsFresh ==
    ASSUME updated' \in Nat, taken' \in Nat,
           task'["loop"] # "check" => taken' = 0, IsFiniteSet(Counting'),
           dump' # Unlocked => task'[dump'.by] = "dump" /\ dump'.at <= now',
           Behind' = {}
    PROVE  ChangesCounted'
<1>1. IsFiniteSet(Behind') /\ Cardinality(Behind') = 0
  BY FS_EmptySet
<1>2. PICK n \in Nat : n = Cardinality(Counting')
  BY FS_CardinalityType
<1>3. Cardinality(Behind') <= updated' + taken' + Cardinality(Counting')
  BY <1>1, <1>2
<1> QED
  BY <1>1, <1>3 DEF ChangesCounted, Unlocked

counters == <<slots, updating, updated, taken, task, dump, file, lost, toFlush>>

LEMMA NobodyCounts ==
    ASSUME IInv, NEW w \in Workers, NEW s, Becomes(w, s), work[w].pc # "count", s.pc # "count"
    PROVE  Counting' = Counting
BY OneMoves DEF Counting, At

\* Elements of the second level may go, or expire.
LEMMA CountsStay ==
    ASSUME IInv, CountInv, UNCHANGED counters, now' \in Nat, now' >= now, Counting' = Counting,
           \A k \in Keys : l2'[k] \in {l2[k], None}
    PROVE  ChangesCounted' /\ Rest'
<1>1. UNCHANGED <<updated, taken, task, dump, file, lost, toFlush>>
  BY DEF counters
<1>2. Behind' \subseteq Behind
  <2>1. SUFFICES ASSUME NEW k \in Keys, l2'[k] # None, ~ (l2'[k].keep < now')
                 PROVE  l2'[k] = l2[k] /\ ~ (l2[k].keep < now)
    BY <1>1 DEF Behind, Expired, Unlocked
  <2>2. l2'[k] = l2[k] /\ l2[k].keep \in Nat /\ now \in Nat
    BY <2>1 DEF IInv, Typed, Items, Item
  <2> QED
    BY <2>1, <2>2
<1>3. Settled' => Settled
  BY <1>1 DEF Settled, Unlocked
<1>4. dump # Unlocked => task[dump.by] = "dump" /\ dump.at <= now /\ dump.at \in Nat /\ now \in Nat
  BY DEF CountInv, ChangesCounted, IInv, Typed, Dumps
<1>5. updated \in Nat /\ taken \in Nat /\ (task["loop"] # "check" => taken = 0)
  BY DEF CountInv, ChangesCounted
<1>6. dump' # Unlocked => task'[dump'.by] = "dump" /\ dump'.at <= now'
  BY <1>1, <1>4
<1>7. ChangesCounted'
  BY <1>1, <1>2, <1>3, <1>5, <1>6, CountsHold DEF CountInv
<1> QED
  BY <1>1, <1>7 DEF CountInv, Rest

LEMMA SemaphoresMove ==
    ASSUME IInv, Semaphores, NEW w \in Workers, NEW s, Becomes(w, s), UNCHANGED <<slots, updating>>,
           w \in Updaters => /\ work[w].pc \in {"ask", "save", "count", "store"}
                             /\ s.pc \in {"save", "count", "store", "forget"}
                             /\ s.key = work[w].key
    PROVE  Semaphores'
BY CallMoves, UpdateMoves DEF Workers

\* A worker that neither begins nor ends to count.
LEMMA WorkerMoves ==
    ASSUME IInv, CountInv, NEW w \in Workers, NEW s, Becomes(w, s), UNCHANGED <<counters, now>>,
           work[w].pc # "count", s.pc # "count", \A k \in Keys : l2'[k] \in {l2[k], None},
           w \in Updaters => /\ work[w].pc \in {"ask", "save", "count", "store"}
                             /\ s.pc \in {"save", "count", "store", "forget"}
                             /\ s.key = work[w].key
    PROVE  CountInv'
<1>1. now' \in Nat /\ now' >= now
  BY DEF IInv, Typed
<1>2. Counting' = Counting
  BY NobodyCounts
<1>3. Semaphores'
  BY SemaphoresMove DEF CountInv, counters
<1> QED
  BY <1>1, <1>2, <1>3, CountsStay DEF CountInv

-----------------------------------------------------------------------------
(* Queries and updates.                                                     *)

LEMMA StartCounts == ASSUME IInv, CountInv, NEW c \in Calls, Start(c) PROVE CountInv'
<1>1. PICK k \in Keys : Becomes(c, [pc |-> "look", key |-> k, at |-> now])
  BY DEF Start
<1>2. c \in Workers /\ c \notin Updaters /\ work[c].pc = "idle"
  BY NamesAssumption DEF Workers, Start, At
<1>3. UNCHANGED <<counters, now, l2>>
  BY DEF Start, counters, cacheVars, loopVars, dumpVars, flushVars
<1> QED
  BY <1>1, <1>2, <1>3, WorkerMoves

\* An update that begins.
LEMMA UpdateBegins ==
    ASSUME IInv, CountInv, NEW c \in Calls, NEW u \in Updaters, NEW k \in Keys, k \notin updating,
           work[c].pc = "look", work[u].pc = "idle", updating' = updating \cup {k},
           work' = [work EXCEPT ![c] = Idle, ![u] = [pc |-> "start", key |-> k]],
           UNCHANGED <<slots, updated, taken, task, dump, file, lost, toFlush, now, l2>>
    PROVE  CountInv'
<1> DEFINE s == [pc |-> "start", key |-> k]
<1>1. \A w \in Workers : work'[w] = IF w = u THEN s ELSE IF w = c THEN Idle ELSE work[w]
  BY DEF IInv, WorkGood, Workers
<1>2. \A v \in Updaters : work'[v] = IF v = u THEN s ELSE work[v]
  BY <1>1, NamesAssumption DEF Workers
<1>3. s.pc = "start" /\ s.key = k /\ Idle.pc = "idle"
  BY DEF Idle
<1> HIDE DEF s
<1>4. Running' = Running
  BY <1>2, <1>3 DEF Running
<1>5. Grouped' = Grouped \cup {u} /\ u \notin Grouped
  BY <1>2, <1>3 DEF Grouped
<1>6. \A v \in Grouped : work'[v].key = work[v].key /\ work[v].key # k
  BY <1>2, <1>5 DEF Grouped, CountInv, Semaphores
<1>7. work'[u].key = k
  BY <1>2, <1>3
<1>8. updating' = {work'[v].key : v \in Grouped'}
  <2>1. updating = {work[v].key : v \in Grouped}
    BY DEF CountInv, Semaphores
  <2>2. \A x : x \in updating' <=> x = k \/ \E v \in Grouped : x = work[v].key
    BY <2>1
  <2>3. \A x : (\E v \in Grouped' : x = work'[v].key) <=> x = k \/ \E v \in Grouped : x = work[v].key
    BY <1>5, <1>6, <1>7
  <2>4. PICK keys : keys = {work'[v].key : v \in Grouped'}
    OBVIOUS
  <2>5. \A x : x \in keys <=> \E v \in Grouped' : x = work'[v].key
    BY <2>4
  <2>6. \A x : x \in keys <=> x \in updating'
    BY <2>2, <2>3, <2>5
  <2>7. keys = updating'
    BY <2>6
  <2> QED
    BY <2>4, <2>7
<1>9. \A v, w \in Grouped' : work'[v].key = work'[w].key => v = w
  BY <1>5, <1>6, <1>7 DEF CountInv, Semaphores
<1>10. Semaphores'
  BY <1>4, <1>8, <1>9 DEF CountInv, Semaphores
<1>11. Counting' = Counting
  BY <1>1, <1>3 DEF Counting, At, Workers
<1>12. now' \in Nat /\ now' >= now /\ Behind' = Behind /\ (Settled' => Settled)
  BY DEF IInv, Typed, Behind, Expired, Settled, Unlocked
<1>13. ChangesCounted'
  BY <1>11, <1>12, CountsHold DEF CountInv, ChangesCounted, Unlocked
<1> QED
  BY <1>10, <1>13 DEF CountInv, Rest

LEMMA LookL2Counts == ASSUME IInv, CountInv, NEW c \in Calls, LookL2(c) PROVE CountInv'
<1> DEFINE k == work[c].key
           miss == [pc |-> "ask", key |-> k, at |-> work[c].at]
           purge == [pc |-> "purge", key |-> k, next |-> miss]
           again == [pc |-> "again", key |-> k, ttl |-> Remaining(GetL2(k))]
<1>1. c \in Workers /\ c \notin Updaters /\ work[c].pc = "look"
  BY NamesAssumption DEF Workers, LookL2, At
<1>2. k \in Keys
  BY <1>1 DEF IInv, WorkGood, Good
<1>3. UNCHANGED <<slots, updated, taken, task, dump, file, lost, toFlush, now, l2>>
  BY DEF LookL2, cacheVars, loopVars, dumpVars, flushVars
<1>4. ASSUME NEW s, Becomes(c, s), s.pc # "count", UNCHANGED updating PROVE CountInv'
  BY <1>1, <1>3, <1>4, WorkerMoves DEF counters
<1>5. miss.pc # "count" /\ purge.pc # "count" /\ again.pc # "count" /\ Idle.pc # "count"
  BY DEF Idle
<1>6. \/ (Becomes(c, miss) \/ Becomes(c, purge) \/ Becomes(c, again)) /\ UNCHANGED updating
      \/ DoLazyUpdate(c, k)
  BY DEF LookL2
<1> HIDE DEF miss, purge, again
<1>7. CASE DoLazyUpdate(c, k)
  <2>1. CASE Becomes(c, Idle) /\ UNCHANGED updating
    BY <1>4, <1>5, <2>1
  <2>2. CASE k \notin updating /\ updating' = updating \cup {k}
             /\ \E u \in Updaters :
                  /\ At(u, "idle")
                  /\ work' = [work EXCEPT ![c] = Idle, ![u] = [pc |-> "start", key |-> k]]
    BY <1>1, <1>2, <1>3, <2>2, UpdateBegins DEF At
  <2> QED
    BY <1>7, <2>1, <2>2 DEF DoLazyUpdate
<1> QED
  BY <1>4, <1>5, <1>6, <1>7

LEMMA PurgeCounts == ASSUME IInv, CountInv, NEW c \in Calls, Purge(c) PROVE CountInv'
<1>1. c \in Workers /\ c \notin Updaters /\ work[c].pc = "purge"
  BY NamesAssumption DEF Workers, Purge, At
<1>2. work[c].key \in Keys /\ work[c].next.pc # "count"
  BY <1>1 DEF IInv, WorkGood, Good
<1>3. UNCHANGED <<counters, now>> /\ Becomes(c, work[c].next)
  BY DEF Purge, counters, loopVars, dumpVars, flushVars
<1>4. \A k \in Keys : l2'[k] \in {l2[k], None}
  BY DEF Purge, IInv, Typed, Items
<1> QED
  BY <1>1, <1>2, <1>3, <1>4, WorkerMoves

LEMMA AgainCounts ==
    ASSUME IInv, CountInv, NEW c \in Calls, LookAgain(c) \/ Promote(c) PROVE CountInv'
<1>1. c \in Workers /\ c \notin Updaters /\ work[c].pc # "count"
  BY NamesAssumption DEF Workers, LookAgain, Promote, At
<1>2. UNCHANGED <<counters, now, l2>>
  BY DEF LookAgain, Promote, counters, cacheVars, loopVars, dumpVars, flushVars
<1>3. ASSUME NEW s, Becomes(c, s), s.pc # "count" PROVE CountInv'
  BY <1>1, <1>2, <1>3, WorkerMoves
<1> QED
  BY <1>3 DEF LookAgain, Promote, Idle

LEMMA AskCounts == ASSUME IInv, CountInv, NEW w \in Workers, Ask(w) PROVE CountInv'
<1>1. work[w].pc = "ask"
  BY DEF Ask, At
<1>2. UNCHANGED <<counters, now, l2>>
  BY DEF Ask, counters, cacheVars, loopVars, dumpVars, flushVars
<1>3. ASSUME NEW s, Becomes(w, s), s.pc # "count",
             w \in Updaters => s.pc \in {"save", "forget"} /\ s.key = work[w].key
      PROVE  CountInv'
  BY <1>1, <1>2, <1>3, WorkerMoves
<1>4. CASE Becomes(w, Done(w))
  BY <1>3, <1>4 DEF Done, Idle
<1>5. ASSUME NEW kind \in Kinds, NEW ttl \in Ttls,
             Becomes(w, [pc |-> "save", key |-> work[w].key, kind |-> kind, ttl |-> ttl,
                         at |-> IF w \in Updaters THEN None ELSE work[w].at])
      PROVE  CountInv'
  BY <1>3, <1>5
<1> QED
  BY <1>4, <1>5 DEF Ask

LEMMA StoreL1Counts == ASSUME IInv, CountInv, NEW w \in Workers, StoreL1(w) PROVE CountInv'
<1>1. work[w].pc = "store" /\ Becomes(w, Done(w))
  BY DEF StoreL1, At
<1>2. UNCHANGED <<counters, now, l2>>
  BY DEF StoreL1, counters, cacheVars, loopVars, dumpVars, flushVars
<1>3. /\ Done(w).pc # "count"
      /\ w \in Updaters => Done(w).pc = "forget" /\ Done(w).key = work[w].key
  BY DEF Done, Idle
<1> QED
  BY <1>1, <1>2, <1>3, WorkerMoves

LEMMA GcCounts == ASSUME IInv, CountInv, Gc PROVE CountInv'
<1>1. UNCHANGED <<counters, now, work>>
  BY DEF Gc, counters, loopVars, dumpVars, flushVars
<1>2. \A k \in Keys : l2'[k] \in {l2[k], None}
  BY DEF Gc, IInv, Typed, Items
<1>3. now' \in Nat /\ now' >= now /\ Counting' = Counting
  BY <1>1 DEF IInv, Typed, Counting, At
<1>4. Semaphores'
  BY <1>1, SemaphoresHold DEF CountInv, counters
<1> QED
  BY <1>1, <1>2, <1>3, <1>4, CountsStay DEF CountInv

LEMMA TickCounts == ASSUME IInv, CountInv, Tick PROVE CountInv'
<1>1. UNCHANGED <<counters, work, l2>>
  BY DEF Tick, counters, cacheVars, loopVars, dumpVars, flushVars
<1>2. now' \in Nat /\ now' >= now /\ Counting' = Counting
  BY <1>1 DEF Tick, IInv, Typed, Counting, At
<1>3. Semaphores'
  BY <1>1, SemaphoresHold DEF CountInv, counters
<1> QED
  BY <1>1, <1>2, <1>3, CountsStay DEF CountInv

\* An answer that is stored is a change, and the worker that stored it counts it.
LEMMA SaveCounts == ASSUME IInv, CountInv, NEW w \in Workers, Save(w) PROVE CountInv'
<1> DEFINE k == work[w].key
           s == [pc |-> "count", key |-> k, ttl |-> work[w].ttl, at |-> work[w].at]
<1>1. work[w].pc = "save" /\ Becomes(w, s) /\ s.pc = "count" /\ s.key = k
  BY DEF Save, At
<1>2. UNCHANGED <<counters, now>> /\ \A j \in Keys \ {k} : l2'[j] = l2[j]
  BY DEF Save, counters, loopVars, dumpVars, flushVars, IInv, Typed, Items
<1> HIDE DEF s
<1>3. Semaphores'
  BY <1>1, <1>2, SemaphoresMove DEF CountInv, counters
<1>4. Counting' = Counting \cup {w} /\ w \notin Counting
  BY <1>1, OneMoves DEF Counting, At
<1>5. IsFiniteSet(Counting')
      /\ Cardinality(Counting) \in Nat /\ Cardinality(Counting') = Cardinality(Counting) + 1
  BY <1>4, FS_AddElement, FS_CardinalityType DEF CountInv, ChangesCounted
<1>6. Settled' => Settled
  BY <1>2 DEF Settled, Unlocked, counters
<1>7. Behind' \subseteq Behind \cup {k}
  BY <1>2 DEF Behind, Expired, Unlocked, counters
<1>8. ASSUME Settled
      PROVE  IsFiniteSet(Behind') /\ Cardinality(Behind') <= updated + taken + Cardinality(Counting')
  <2>1. IsFiniteSet(Behind) /\ Cardinality(Behind) <= updated + taken + Cardinality(Counting)
    BY <1>8 DEF CountInv, ChangesCounted
  <2>2. PICK b \in SUBSET (Behind \cup {k}) : b = Behind'
    BY <1>7
  <2>3. /\ IsFiniteSet(Behind \cup {k}) /\ Cardinality(Behind) \in Nat
        /\ Cardinality(Behind \cup {k}) \in {Cardinality(Behind), Cardinality(Behind) + 1}
    BY <2>1, FS_AddElement, FS_CardinalityType
  <2>4. IsFiniteSet(b) /\ Cardinality(b) <= Cardinality(Behind \cup {k}) /\ Cardinality(b) \in Nat
    BY <2>3, FS_Subset, FS_CardinalityType
  <2>5. PICK n \in Nat : n = updated + taken
    BY DEF CountInv, ChangesCounted
  <2>6. Cardinality(b) <= n + Cardinality(Counting')
    BY <1>5, <2>1, <2>3, <2>4, <2>5
  <2> QED
    BY <2>2, <2>4, <2>5, <2>6
<1>9. ChangesCounted'
  BY <1>2, <1>5, <1>6, <1>8 DEF CountInv, ChangesCounted, Unlocked, counters
<1> QED
  BY <1>2, <1>3, <1>9 DEF CountInv, Rest, counters

LEMMA CountCounts == ASSUME IInv, CountInv, NEW w \in Workers, Count(w) PROVE CountInv'
<1> DEFINE s == [work[w] EXCEPT !.pc = "store"]
<1>1. work[w].pc = "count" /\ Becomes(w, s) /\ updated' = updated + 1
  BY DEF Count, At, Moves
<1>2. UNCHANGED <<slots, updating, taken, task, dump, file, lost, toFlush, now, l2>>
  BY DEF Count, cacheVars, loopVars, dumpVars, flushVars
<1>3. s.pc \in {"store", "count"} /\ s.key = work[w].key
  BY <1>1
<1>4. s.pc = "store"
  <2>1. work'[w] = s
    BY <1>1, OneMoves
  <2> QED
    BY <1>1, <1>3
<1> HIDE DEF s
<1>5. Semaphores'
  BY <1>1, <1>2, <1>3, <1>4, SemaphoresMove DEF CountInv
<1>6. Counting' = Counting \ {w} /\ w \in Counting
  BY <1>1, <1>4, OneMoves DEF Counting, At
<1>7. IsFiniteSet(Counting')
      /\ Cardinality(Counting) \in Nat /\ Cardinality(Counting') = Cardinality(Counting) - 1
  BY <1>6, FS_RemoveElement, FS_CardinalityType DEF CountInv, ChangesCounted
<1>8. (Settled' => Settled) /\ Behind' = Behind
  BY <1>2 DEF Settled, Behind, Expired, Unlocked
<1>9. updated \in Nat /\ taken \in Nat
  BY DEF CountInv, ChangesCounted
<1>10. updated' + taken + Cardinality(Counting') = updated + taken + Cardinality(Counting)
  BY <1>1, <1>7, <1>9
<1>11. ChangesCounted'
  BY <1>1, <1>2, <1>7, <1>8, <1>9, <1>10 DEF CountInv, ChangesCounted, Unlocked
<1> QED
  BY <1>2, <1>5, <1>11 DEF CountInv, Rest

-----------------------------------------------------------------------------
(* The slots and the group.                                                 *)

\* An update at another place than counting, and the rest of the counts.
LEMMA UpdateCounts ==
    ASSUME IInv, CountInv, NEW u \in Updaters, NEW s, Becomes(u, s), Semaphores',
           UNCHANGED <<updated, taken, task, dump, file, lost, toFlush, now, l2>>,
           work[u].pc # "count", s.pc # "count"
    PROVE  CountInv'
<1>1. Counting' = Counting
  BY NobodyCounts DEF Workers
<1>2. now' \in Nat /\ now' >= now /\ Behind' = Behind /\ (Settled' => Settled)
  BY DEF IInv, Typed, Behind, Expired, Settled, Unlocked
<1>3. ChangesCounted'
  BY <1>1, <1>2, CountsHold DEF CountInv, ChangesCounted, Unlocked
<1> QED
  BY <1>3 DEF CountInv, Rest

LEMMA ReleaseCounts == ASSUME IInv, CountInv, NEW u \in Updaters, Release(u) PROVE CountInv'
<1>1. work[u].pc = "release" /\ Becomes(u, Idle) /\ slots' = slots - 1 /\ Idle.pc = "idle"
  BY DEF Release, At, Idle
<1>2. UNCHANGED <<updating, updated, taken, task, dump, file, lost, toFlush, now, l2>>
  BY DEF Release, cacheVars, loopVars, dumpVars, flushVars
<1>3. \A v \in Updaters : work'[v] = IF v = u THEN Idle ELSE work[v]
  BY <1>1, OneMoves DEF Workers
<1>4. Running' = Running \ {u} /\ u \in Running
  BY <1>1, <1>3 DEF Running
<1>5. Grouped' = Grouped /\ \A v \in Grouped : work'[v].key = work[v].key
  BY <1>1, <1>3 DEF Grouped
<1>6. /\ IsFiniteSet(Running') /\ Cardinality(Running) \in Nat
      /\ Cardinality(Running') = Cardinality(Running) - 1
  BY <1>4, FS_RemoveElement, FS_CardinalityType DEF CountInv, Semaphores
<1>7. slots' = Cardinality(Running') /\ slots' <= MaxLazy
  BY <1>1, <1>6, CacheAssumption DEF CountInv, Semaphores
<1>8. {work'[v].key : v \in Grouped'} = {work[v].key : v \in Grouped}
  BY <1>5
<1>9. updating' = {work'[v].key : v \in Grouped'}
  BY <1>2, <1>8 DEF CountInv, Semaphores
<1>10. Semaphores'
  BY <1>5, <1>6, <1>7, <1>9 DEF CountInv, Semaphores
<1> QED
  BY <1>1, <1>2, <1>10, UpdateCounts

\* An update that leaves the group takes its key along, and no other's.
LEMMA LeavesGroup ==
    ASSUME IInv, CountInv, NEW u \in Grouped, NEW s, Becomes(u, s), s.pc \in {"idle", "release"},
           updating' = updating \ {work[u].key}
    PROVE  /\ updating' = {work'[v].key : v \in Grouped'}
           /\ \A v, w \in Grouped' : work'[v].key = work'[w].key => v = w
<1>1. \A v \in Updaters : work'[v] = IF v = u THEN s ELSE work[v]
  BY OneMoves DEF Workers, Grouped
<1>2. Grouped' = Grouped \ {u} /\ \A v \in Grouped' : work'[v].key = work[v].key
  BY <1>1 DEF Grouped
<1>3. updating = {work[v].key : v \in Grouped}
      /\ \A v, w \in Grouped : work[v].key = work[w].key => v = w
  BY DEF CountInv, Semaphores
<1>4. \A x : x \in updating' <=> \E v \in Grouped \ {u} : x = work[v].key
  BY <1>3
<1>5. PICK keys : keys = {work'[v].key : v \in Grouped'}
  OBVIOUS
<1>6. \A x : x \in keys <=> \E v \in Grouped' : x = work'[v].key
  BY <1>5
<1>7. \A x : x \in keys <=> x \in updating'
  BY <1>2, <1>4, <1>6
<1>8. keys = updating'
  BY <1>7
<1> QED
  BY <1>2, <1>3, <1>5, <1>8

LEMMA ForgetCounts == ASSUME IInv, CountInv, NEW u \in Updaters, Forget(u) PROVE CountInv'
<1> DEFINE s == [pc |-> "release"]
<1>1. /\ work[u].pc = "forget" /\ Becomes(u, s) /\ updating' = updating \ {work[u].key}
      /\ s.pc = "release"
  BY DEF Forget, At
<1>2. UNCHANGED <<slots, updated, taken, task, dump, file, lost, toFlush, now, l2>>
  BY DEF Forget, cacheVars, loopVars, dumpVars, flushVars
<1> HIDE DEF s
<1>3. u \in Grouped
  BY <1>1 DEF Grouped
<1>4. \A v \in Updaters : work'[v] = IF v = u THEN s ELSE work[v]
  BY <1>1, OneMoves DEF Workers
<1>5. Running' = Running
  BY <1>1, <1>4 DEF Running
<1>6. Semaphores'
  BY <1>1, <1>2, <1>3, <1>5, LeavesGroup DEF CountInv, Semaphores
<1> QED
  BY <1>1, <1>2, <1>6, UpdateCounts

LEMMA AcquireCounts == ASSUME IInv, CountInv, NEW u \in Updaters, Acquire(u) PROVE CountInv'
<1> DEFINE s == [work[u] EXCEPT !.pc = "ask"]
<1>1. work[u].pc = "start" /\ u \in Workers
  BY DEF Acquire, At, Workers
<1>2. UNCHANGED <<updated, taken, task, dump, file, lost, toFlush, now, l2>>
  BY DEF Acquire, cacheVars, loopVars, dumpVars, flushVars
<1>3. CASE slots < MaxLazy /\ slots' = slots + 1 /\ Becomes(u, s) /\ UNCHANGED updating
  <2>1. s.key = work[u].key /\ s.pc \in {"ask", "start"}
    BY <1>1
  <2>2. s.pc = "ask"
    BY <1>1
  <2> HIDE DEF s
  <2>3. \A v \in Updaters : work'[v] = IF v = u THEN s ELSE work[v]
    BY <1>1, <1>3, OneMoves DEF Workers
  <2>4. Running' = Running \cup {u} /\ u \notin Running
    BY <1>1, <2>2, <2>3 DEF Running
  <2>5. Grouped' = Grouped /\ \A v \in Grouped : work'[v].key = work[v].key
    BY <1>1, <2>1, <2>2, <2>3 DEF Grouped
  <2>6. /\ IsFiniteSet(Running') /\ Cardinality(Running) \in Nat
        /\ Cardinality(Running') = Cardinality(Running) + 1
    BY <2>4, FS_AddElement, FS_CardinalityType DEF CountInv, Semaphores
  <2>7. slots' = Cardinality(Running') /\ slots' <= MaxLazy
    BY <1>3, <2>6, CacheAssumption DEF CountInv, Semaphores
  <2>8. {work'[v].key : v \in Grouped'} = {work[v].key : v \in Grouped}
    BY <2>5
  <2>9. updating' = {work'[v].key : v \in Grouped'}
    BY <1>3, <2>8 DEF CountInv, Semaphores
  <2>10. Semaphores'
    BY <2>5, <2>6, <2>7, <2>9 DEF CountInv, Semaphores
  <2> QED
    BY <1>1, <1>2, <1>3, <2>2, <2>10, UpdateCounts
<1>4. CASE updating' = updating \ {work[u].key} /\ Becomes(u, Idle) /\ UNCHANGED slots
  <2>1. u \in Grouped /\ Idle.pc = "idle"
    BY <1>1 DEF Grouped, Idle
  <2>2. \A v \in Updaters : work'[v] = IF v = u THEN Idle ELSE work[v]
    BY <1>1, <1>4, OneMoves DEF Workers
  <2>3. Running' = Running
    BY <1>1, <2>1, <2>2 DEF Running
  <2>4. Semaphores'
    BY <1>4, <2>1, <2>3, LeavesGroup DEF CountInv, Semaphores
  <2> QED
    BY <1>1, <1>2, <1>4, <2>1, <2>4, UpdateCounts
<1> QED
  BY <1>3, <1>4 DEF Acquire, Moves

-----------------------------------------------------------------------------
(* Flushes and dumps.                                                       *)

\* What leaves the workers alone leaves the semaphores alone.
LEMMA WorkIdles ==
    ASSUME CountInv, UNCHANGED <<work, slots, updating>> PROVE Semaphores' /\ Counting' = Counting
<1>1. Semaphores'
  BY SemaphoresHold DEF CountInv
<1> QED
  BY <1>1 DEF Counting, At

LEMMA DumpIsHeld ==
    ASSUME IInv, CountInv
    PROVE  /\ updated \in Nat /\ taken \in Nat /\ now \in Nat
           /\ dump # Unlocked => /\ dump.by \in Dumpers /\ task[dump.by] = "dump"
                                 /\ dump.at <= now /\ dump.at \in Nat
BY DEF IInv, Typed, Dumps, CountInv, ChangesCounted

\* A turn of a dumper that does not hold the lock.
LEMMA TurnCounts ==
    ASSUME IInv, CountInv, NEW d \in Dumpers, NEW p \in Turning, Turns(d, p), task[d] # "dump",
           UNCHANGED <<work, slots, updating, dump, file, lost, now>>,
           updated' \in Nat, taken' \in Nat, task'["loop"] # "check" => taken' = 0,
           toFlush' \subseteq Keys, \A k \in Keys : l2'[k] \in {l2[k], None},
           d = "flush" => p # "out", d = "loop" => updated' + taken' = updated + taken \/ p = "dump",
           d = "save" => updated' + taken' = updated + taken
    PROVE  CountInv'
<1>1. task' \in [Dumpers -> Turning] /\ \A e \in Dumpers : task'[e] = IF e = d THEN p ELSE task[e]
  BY DEF Turns, IInv, Typed
<1>2. dump # Unlocked => dump.by \in Dumpers /\ dump.by # d
  BY DumpIsHeld
<1>3. dump' # Unlocked => task'[dump'.by] = "dump" /\ dump'.at <= now'
  BY <1>1, <1>2, DumpIsHeld
<1>4. Behind' \subseteq Behind
  BY DEF Behind, Expired, Unlocked
<1>5. Settled' => Settled /\ updated' + taken' = updated + taken
  <2>1. CASE d = "flush"
    BY <1>1, <1>2, <2>1 DEF Settled, Unlocked, Dumpers
  <2>2. CASE d = "loop"
    BY <1>1, <1>2, <2>2 DEF Settled, Unlocked, Dumpers
  <2>3. CASE d = "save"
    BY <1>1, <1>2, <2>3 DEF Settled, Unlocked, Dumpers
  <2> QED
    BY <2>1, <2>2, <2>3 DEF Dumpers
<1>6. Semaphores' /\ Counting' = Counting
  BY WorkIdles
<1>7. ChangesCounted'
  BY <1>3, <1>4, <1>5, <1>6, CountsHold DEF CountInv
<1> QED
  BY <1>6, <1>7 DEF CountInv, Rest

LEMMA TurnsCount ==
    ASSUME IInv, CountInv,
           \/ FlushBegins \/ FlushL1 \/ FlushCount
           \/ SaveBegins \/ CloseNotify \/ SaveAnswered \/ LoopTick \/ LoopCheck \/ LoopExits
    PROVE  CountInv'
<1>1. /\ updated \in Nat /\ taken \in Nat /\ toFlush \subseteq Keys
      /\ task["loop"] # "check" => taken = 0
      /\ {"loop", "flush", "save"} = Dumpers /\ task \in [Dumpers -> Turning]
  BY DEF CountInv, ChangesCounted, Rest, IInv, Typed, Dumpers
<1>2. UNCHANGED <<work, slots, updating, dump, file, lost, now, l2>>
  BY DEF FlushBegins, FlushL1, FlushCount, SaveBegins, CloseNotify, SaveAnswered, LoopTick,
         LoopCheck, LoopExits, cacheVars, dumpVars
<1>3. CASE FlushBegins
  BY <1>1, <1>2, <1>3, TurnCounts DEF FlushBegins, Turns, Turning
<1>4. CASE FlushL1
  BY <1>1, <1>2, <1>4, TurnCounts DEF FlushL1, Turns, Turning, flushVars
<1>5. CASE FlushCount
  BY <1>1, <1>2, <1>5, TurnCounts DEF FlushCount, Turns, Turning, flushVars
<1>6. CASE SaveBegins
  BY <1>1, <1>2, <1>6, TurnCounts DEF SaveBegins, Turns, Turning, flushVars
<1>7. CASE CloseNotify
  BY <1>1, <1>2, <1>7, TurnCounts DEF CloseNotify, Turns, Turning, flushVars
<1>8. CASE SaveAnswered
  BY <1>1, <1>2, <1>8, TurnCounts DEF SaveAnswered, Turns, Turning, flushVars
<1>9. CASE LoopTick
  <2>1. /\ task["loop"] = "out" /\ taken = 0 /\ taken' = updated /\ updated' = 0
        /\ Turns("loop", "check") /\ UNCHANGED toFlush
    BY <1>1, <1>9 DEF LoopTick, flushVars
  <2>2. updated' \in Nat /\ taken' \in Nat /\ updated' + taken' = updated + taken
    BY <1>1, <2>1
  <2>3. task'["loop"] = "check" /\ "check" \in Turning
    BY <1>1, <2>1 DEF Turns, Turning
  <2> QED
    BY <1>1, <1>2, <2>1, <2>2, <2>3, TurnCounts
<1>10. CASE LoopCheck
  BY <1>1, <1>2, <1>10, TurnCounts DEF LoopCheck, Turns, Turning, flushVars
<1>11. CASE LoopExits
  BY <1>1, <1>2, <1>11, TurnCounts DEF LoopExits, Turns, Turning, flushVars, loopVars
<1> QED
  BY <1>3, <1>4, <1>5, <1>6, <1>7, <1>8, <1>9, <1>10, <1>11

LEMMA FlushL2Counts == ASSUME IInv, CountInv, FlushL2 PROVE CountInv'
<1>1. /\ UNCHANGED <<work, slots, updating, updated, taken, task, dump, file, lost, now>>
      /\ toFlush' \subseteq toFlush /\ \A k \in Keys : l2'[k] \in {l2[k], None}
  BY DEF FlushL2, loopVars, dumpVars, IInv, Typed, Items
<1>2. Behind' \subseteq Behind /\ (Settled' => Settled)
  BY <1>1 DEF Behind, Expired, Settled, Unlocked
<1>3. Semaphores' /\ Counting' = Counting
  BY <1>1, WorkIdles
<1>4. ChangesCounted'
  BY <1>1, <1>2, <1>3, CountsHold DEF CountInv, ChangesCounted, Unlocked
<1> QED
  BY <1>1, <1>3, <1>4 DEF CountInv, Rest

\* A dump that begins reads every shard.
LEMMA LockDumpCounts == ASSUME IInv, CountInv, NEW d \in Dumpers, LockDump(d) PROVE CountInv'
<1>1. /\ UNCHANGED <<work, slots, updating, updated, taken, task, lost, now, toFlush>>
      /\ task[d] = "dump"
      /\ dump' = [by |-> d, at |-> now, todo |-> Keys, seen |-> NoItems]
  BY DEF LockDump, loopVars, flushVars
<1>2. dump'.by = d /\ dump'.at = now /\ dump'.todo = Keys /\ now \in Nat
  BY <1>1, DumpIsHeld
<1>3. dump' # Unlocked
  <2>1. "at" \in DOMAIN dump' /\ "at" \notin DOMAIN Unlocked
    BY <1>1 DEF Unlocked
  <2> QED
    BY <2>1
<1>4. Behind' = {}
  BY <1>2, <1>3 DEF Behind, Unlocked
<1>5. Semaphores' /\ Counting' = Counting
  BY <1>1, WorkIdles
<1>6. ChangesCounted'
  BY <1>1, <1>2, <1>4, <1>5, CountsFresh DEF CountInv, ChangesCounted
<1> QED
  BY <1>1, <1>5, <1>6 DEF CountInv, Rest

\* A shard that has been read is not behind.
LEMMA DumpShardCounts == ASSUME IInv, CountInv, DumpShard PROVE CountInv'
<1>1. /\ UNCHANGED <<work, slots, updating, updated, taken, task, lost, now, toFlush, l2, file>>
      /\ dump # Unlocked
  BY DEF DumpShard, loopVars, flushVars, cacheVars
<1>2. PICK k \in dump.todo :
        dump' = [dump EXCEPT !.todo = @ \ {k},
                             !.seen[k] = IF l2[k] # None /\ l2[k].keep >= dump.at THEN l2[k]
                                         ELSE None]
  BY DEF DumpShard
<1>3. dump \in Dumps /\ k \in Keys /\ l2 \in Items
  BY <1>1, <1>2 DEF IInv, Typed, Dumps
<1>4. /\ dump'.by = dump.by /\ dump'.at = dump.at /\ dump'.todo = dump.todo \ {k}
      /\ dump' \in Dumps
      /\ \A j \in Keys : j # k => dump'.seen[j] = dump.seen[j]
      /\ l2[k] # None /\ l2[k].keep >= dump.at => dump'.seen[k] = l2[k]
  BY <1>2, <1>3 DEF Dumps, Items
<1>5. task[dump.by] = "dump" /\ dump.at <= now /\ dump.at \in Nat /\ now \in Nat
  BY <1>1, DumpIsHeld
<1>6. dump' # Unlocked
  <2>1. DOMAIN dump' # DOMAIN Unlocked
    BY <1>4 DEF Dumps, Unlocked
  <2> QED
    BY <2>1
<1>7. Behind' \subseteq Behind
  <2>1. SUFFICES ASSUME NEW j \in Behind' PROVE j \in Behind
    OBVIOUS
  <2>2. /\ j \in Keys /\ l2[j] # None /\ ~ (l2[j].keep < now)
        /\ j \notin dump'.todo /\ l2[j] # dump'.seen[j]
    BY <1>1, <1>6, <2>1 DEF Behind, Expired, Unlocked
  <2>3. l2[j].keep \in Nat
    BY <1>3, <2>2 DEF Items, Item
  <2>4. j # k
    BY <1>4, <1>5, <2>2, <2>3
  <2> QED
    BY <1>1, <1>4, <2>2, <2>4 DEF Behind, Expired
<1>8. Settled' => Settled
  BY <1>1, <1>4, <1>6 DEF Settled, Unlocked
<1>9. Semaphores' /\ Counting' = Counting
  BY <1>1, WorkIdles
<1>10. ChangesCounted'
  BY <1>1, <1>4, <1>5, <1>7, <1>8, <1>9, CountsHold DEF CountInv, ChangesCounted
<1> QED
  BY <1>1, <1>9, <1>10 DEF CountInv, Rest

LEMMA DumpOverCounts ==
    ASSUME IInv, CountInv, DumpEnds \/ DumpFails PROVE CountInv'
<1>1. /\ dump # Unlocked /\ DumpReturns(dump.by)
      /\ UNCHANGED <<work, slots, updating, updated, taken, now, toFlush, l2>>
  BY DEF DumpEnds, DumpFails, cacheVars, flushVars
<1>2. /\ task \in [Dumpers -> Turning] /\ dump.by \in Dumpers /\ task[dump.by] = "dump"
      /\ dump' = Unlocked
  BY <1>1, DumpIsHeld DEF IInv, Typed, DumpReturns
<1>3. \A e \in Dumpers : task'[e] = IF e # dump.by THEN task[e]
                                     ELSE IF e = "save" THEN "saved" ELSE "out"
  BY <1>1, <1>2 DEF DumpReturns, Turns
<1>4. Settled' => Settled
  BY <1>1, <1>2, <1>3 DEF Settled, Unlocked, Dumpers
<1>5. task'["loop"] # "check" => taken = 0
  BY <1>2, <1>3 DEF Dumpers, CountInv, ChangesCounted
<1>6. Settled' => Behind' \subseteq Behind
  <2>1. CASE DumpEnds
    BY <1>1, <1>2, <2>1 DEF DumpEnds, Behind, Expired, Unlocked
  <2>2. CASE DumpFails
    BY <1>2, <2>2 DEF DumpFails, Settled, Unlocked
  <2> QED
    BY <2>1, <2>2
<1>7. Semaphores' /\ Counting' = Counting
  BY <1>1, WorkIdles
<1>8. ChangesCounted'
  BY <1>1, <1>2, <1>4, <1>5, <1>6, <1>7, CountsHold, DumpIsHeld DEF CountInv, Unlocked
<1>9. lost' \in BOOLEAN
  BY DEF DumpEnds, DumpFails
<1> QED
  BY <1>1, <1>7, <1>8, <1>9 DEF CountInv, Rest

\* What a start has loaded is in the file.
LEMMA RestartCounts == ASSUME IInv, CountInv, Restart PROVE CountInv'
<1>1. /\ work' = [w \in Workers |-> Idle] /\ updating' = {} /\ slots' = 0
      /\ updated' = 0 /\ taken' = 0 /\ toFlush' = {} /\ dump' = Unlocked /\ lost' = FALSE
      /\ task' = [d \in Dumpers |-> "out"]
      /\ l2' = [k \in Keys |-> IF file'[k] # None /\ file'[k].keep >= now THEN file'[k] ELSE None]
  BY DEF Restart
<1>2. \A w \in Workers : work'[w].pc = "idle"
  BY <1>1 DEF Idle
<1>3. Running' = {} /\ Grouped' = {} /\ Counting' = {}
  BY <1>2 DEF Running, Grouped, Counting, At, Workers
<1>4. Semaphores'
  BY <1>1, <1>3, FS_EmptySet, CacheAssumption DEF Semaphores
<1>5. Behind' = {}
  BY <1>1 DEF Behind, Unlocked
<1>6. ChangesCounted'
  BY <1>1, <1>3, <1>5, CountsFresh, FS_EmptySet DEF Unlocked
<1> QED
  BY <1>1, <1>4, <1>6 DEF CountInv, Rest

-----------------------------------------------------------------------------
(* The invariant is inductive.                                              *)

LEMMA InitCounts == Init => CountInv
<1> SUFFICES ASSUME Init PROVE CountInv
  OBVIOUS
<1>1. \A w \in Workers : work[w].pc = "idle"
  BY DEF Init, Idle
<1>2. Running = {} /\ Grouped = {} /\ Counting = {}
  BY <1>1 DEF Running, Grouped, Counting, At, Workers
<1>3. Semaphores
  BY <1>2, FS_EmptySet, CacheAssumption DEF Init, Semaphores
<1>4. Behind = {}
  BY DEF Init, Behind, NoItems
<1>5. ChangesCounted
  BY <1>2, <1>4, FS_EmptySet DEF Init, ChangesCounted
<1> QED
  BY <1>3, <1>5 DEF Init, CountInv, Rest

LEMMA StepCounts == IInv /\ CountInv /\ [Next]_vars => CountInv'
<1> SUFFICES ASSUME IInv, CountInv, [Next]_vars PROVE CountInv'
  OBVIOUS
<1>1. CASE Tick \/ Gc
  BY <1>1, TickCounts, GcCounts
<1>2. ASSUME NEW c \in Calls, Exec(c) PROVE CountInv'
  BY <1>2, StartCounts, LookL2Counts, PurgeCounts, AgainCounts DEF Exec
<1>3. ASSUME NEW u \in Updaters, Update(u) PROVE CountInv'
  BY <1>3, AcquireCounts, ForgetCounts, ReleaseCounts DEF Update
<1>4. ASSUME NEW w \in Workers, Keep(w) PROVE CountInv'
  BY <1>4, AskCounts, SaveCounts, CountCounts, StoreL1Counts DEF Keep
<1>5. CASE FlushL2 \/ Dumping
  BY <1>5, FlushL2Counts, LockDumpCounts, DumpShardCounts, DumpOverCounts DEF Dumping
<1>6. CASE \/ FlushBegins \/ FlushL1 \/ FlushCount
           \/ SaveBegins \/ CloseNotify \/ SaveAnswered \/ LoopTick \/ LoopCheck \/ LoopExits
  BY <1>6, TurnsCount
<1>7. CASE Restart
  BY <1>7, RestartCounts
<1>8. CASE UNCHANGED vars
  <2>1. UNCHANGED <<counters, work, l2, now>>
    BY <1>8 DEF vars, counters, cacheVars, loopVars, dumpVars, flushVars
  <2>2. now' \in Nat /\ now' >= now /\ Counting' = Counting
    BY <2>1 DEF IInv, Typed, Counting, At
  <2>3. Semaphores'
    BY <2>1, SemaphoresHold DEF CountInv, counters
  <2> QED
    BY <2>1, <2>2, <2>3, CountsStay DEF CountInv
<1> QED
  BY <1>1, <1>2, <1>3, <1>4, <1>5, <1>6, <1>7, <1>8 DEF Next

LEMMA AlwaysCounts == Spec => [](IInv /\ CountInv)
BY InitGood, StepGood, InitCounts, StepCounts, PTL DEF Spec

\* Every variable has its type; the slots in use and the keys of the group are
\* those of the updates that run, at most MaxLazy of them, one for each key
\* (cache.go, doLazyUpdate, lazyUpdateFunc).
THEOREM TypeCorrect == Spec => []TypeOK
<1>1. ASSUME IInv, CountInv PROVE TypeOK
  <2>1. now \in Nat /\ updated \in Nat /\ taken \in Nat /\ l1 \in Shards(Entry)
    BY <1>1 DEF IInv, Typed, CountInv, ChangesCounted
  <2>2. {l2, file} \subseteq [Keys -> Item \cup {None}]
    BY <1>1 DEF IInv, Typed, Items
  <2>3. /\ slots = Cardinality({u \in Updaters : work[u].pc \notin {"idle", "start"}})
        /\ slots <= MaxLazy
        /\ updating =
             {work[u].key : u \in {v \in Updaters : work[v].pc \notin {"idle", "release"}}}
    BY <1>1 DEF CountInv, Semaphores, Running, Grouped
  <2>4. \A u, v \in Updaters : u # v /\ {work[u].pc, work[v].pc} \cap {"idle", "release"} = {}
                                 => work[u].key # work[v].key
    BY <1>1 DEF CountInv, Semaphores, Grouped
  <2>5. toFlush \subseteq Keys /\ lost \in BOOLEAN
    BY <1>1 DEF CountInv, Rest
  <2>6. {flushed, began} \subseteq 0 .. now
    <3>1. flushed \in Nat /\ began \in Nat /\ flushed <= began /\ began <= now
      BY <1>1 DEF IInv, FlushReaches
    <3> QED
      BY <2>1, <3>1
  <2> QED
    BY <2>1, <2>2, <2>3, <2>4, <2>5, <2>6 DEF TypeOK
<1> QED
  BY <1>1, AlwaysCounts, PTL

\* However stores, counts, ticks of the dump loop, flushes and dumps interleave,
\* as long as no dump fails, the count covers every answer that the file lacks
\* (cache.go, saveRespToCache, startDumpLoop, the flush handler, dumpCache).
THEOREM UnsavedIsCountedCorrect == Spec => []UnsavedIsCounted
<1>1. ASSUME IInv, CountInv, dump = Unlocked, task["loop"] = "out", task["flush"] = "out", ~ lost
      PROVE  Cardinality(Unsaved) <= updated + Cardinality({w \in Workers : At(w, "count")})
  <2>1. Settled /\ taken = 0 /\ updated \in Nat
    BY <1>1 DEF Settled, CountInv, ChangesCounted
  <2>2. Unsaved = Behind
    BY <1>1 DEF Unsaved, Behind
  <2> QED
    BY <1>1, <2>1, <2>2 DEF CountInv, ChangesCounted, Counting
<1> QED
  BY <1>1, AlwaysCounts, PTL DEF UnsavedIsCounted
=============================================================================
