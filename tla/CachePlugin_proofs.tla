------------------------ MODULE CachePlugin_proofs --------------------------
(* Theorems about CachePlugin, for every set of keys, queries and updates,  *)
(* every size of the shard, every lifetime and every bound.  The inductive  *)
(* invariant is IInv.  That the second level keeps an answer no longer than *)
(* its lifetime needs the same of the dump under way and of the file, and   *)
(* that no lifetime ends after what the history knows of the key, so that a *)
(* promotion under way keeps within it too.  That a flush sticks needs that *)
(* a flush under way has emptied the shards it has passed.                  *)
EXTENDS CachePlugin, WellFoundedInduction, TLAPS

-----------------------------------------------------------------------------
(* The ring.                                                                *)

\* The hand finds a place within one round.
LEMMA PassedTyped == ASSUME NEW s PROVE Passed(s) \in 0 .. ShardMax
<1> DEFINE T == {n \in 0 .. ShardMax : n = ShardMax \/ ~ Referenced(s, n)}
<1>1. ShardMax \in T /\ T \subseteq Nat
  BY ShardAssumption
<1>2. PICK n \in T : \A m \in T : ~ (<<m, n>> \in OpToRel(<, Nat))
  <2> HIDE DEF T
  <2> QED
    BY <1>1, NatLessThanWellFounded, WFMin
<1>3. \A m \in T : ~ (m < n)
  BY <1>1, <1>2 DEF OpToRel
<1>4. n \in 0 .. ShardMax /\ (n = ShardMax \/ ~ Referenced(s, n))
  OBVIOUS
<1>5. ASSUME NEW m \in 0 .. n - 1 PROVE Referenced(s, m)
  <2>1. m \in 0 .. ShardMax /\ m < n /\ m # ShardMax
    BY <1>4, ShardAssumption
  <2> QED
    BY <1>3, <2>1
<1> QED
  BY <1>4, <1>5 DEF Passed

LEMMA SlotTyped ==
    ASSUME NEW s \in Shards(Entry), NEW n \in Nat PROVE Slot(s, n) \in Slots
BY ShardAssumption DEF Shards, Slots, Slot

\* A new key gets the slot and the item of the one it evicts.
LEMMA InsertKeepsRing ==
    ASSUME NEW s \in Shards(Entry), RingMatchesMap(s), NEW k \in Keys, NEW e \in Entry,
           s.items[k] = None
    PROVE  Insert(s, k, e) \in Shards(Entry) /\ RingMatchesMap(Insert(s, k, e))
<1> DEFINE n == Passed(s)
           slot == Slot(s, n)
           gone == {s.order[Slot(s, m)] : m \in 0 .. n}
           r == Insert(s, k, e)
<1>1. n \in Nat /\ slot \in Slots
  BY PassedTyped, SlotTyped, ShardAssumption
<1>2. s.order[slot] \in gone
  BY <1>1
<1>3. (slot + 1) % ShardMax \in Slots
  BY <1>1, ShardAssumption DEF Slots
<1>4. e # None /\ None \notin Keys
  BY NamesAssumption, ShardAssumption
<1>5. /\ r.items = [j \in Keys |-> IF j = k THEN e
                                  ELSE IF j = s.order[slot] THEN None ELSE s.items[j]]
      /\ r.order = [s.order EXCEPT ![slot] = k]
      /\ r.ref = (s.ref \ gone) \cup {k}
      /\ r.pos = (slot + 1) % ShardMax
      /\ r = [items |-> r.items, order |-> r.order, ref |-> r.ref, pos |-> r.pos]
  BY DEF Insert
<1> HIDE DEF n, slot, gone, r
<1>6. r \in Shards(Entry)
  <2>1. /\ s.items \in [Keys -> Entry \cup {None}] /\ s.order \in [Slots -> Keys \cup {None}]
        /\ s.ref \subseteq Keys
    BY DEF Shards
  <2>2. r.items \in [Keys -> Entry \cup {None}]
    BY <1>5, <2>1
  <2>3. r.order \in [Slots -> Keys \cup {None}]
    <3>1. r.order = [i \in Slots |-> IF i = slot THEN k ELSE s.order[i]]
      BY <1>5, <2>1
    <3>2. \A i \in Slots : s.order[i] \in Keys \cup {None}
      BY <2>1
    <3> QED
      BY <3>1, <3>2
  <2>4. r.ref \in SUBSET Keys /\ r.pos \in Slots
    BY <1>3, <1>5, <2>1
  <2> QED
    BY <1>5, <2>2, <2>3, <2>4 DEF Shards
<1>7. \A j \in Keys : s.items[j] # None <=> \E i \in Slots : s.order[i] = j
  BY DEF RingMatchesMap
<1>8. \A i, j \in Slots : s.order[i] = s.order[j] /\ s.order[i] # None => i = j
  BY DEF RingMatchesMap
<1>9. \A i \in Slots : r.order[i] = IF i = slot THEN k ELSE s.order[i]
  BY <1>1, <1>5 DEF Shards
<1>10. \A i \in Slots : s.order[i] # k
  BY <1>7
<1>11. ASSUME NEW j \in Keys
       PROVE  r.items[j] # None <=> \E i \in Slots : r.order[i] = j
  <2>1. CASE j = k
    BY <1>1, <1>4, <1>5, <1>9, <2>1
  <2>2. CASE j # k /\ j = s.order[slot]
    <3>1. r.items[j] = None
      BY <1>5, <2>2
    <3>2. \A i \in Slots : s.order[i] = j => i = slot
      BY <1>1, <1>4, <1>8, <2>2
    <3> QED
      BY <1>9, <2>2, <3>1, <3>2
  <2>3. CASE j # k /\ j # s.order[slot]
    <3>1. r.items[j] = s.items[j]
      BY <1>5, <2>3
    <3> QED
      BY <1>1, <1>7, <1>9, <2>3, <3>1
  <2> QED
    BY <2>1, <2>2, <2>3
<1>12. \A i, j \in Slots : r.order[i] = r.order[j] /\ r.order[i] # None => i = j
  BY <1>8, <1>9, <1>10
<1>13. \A j \in r.ref : r.items[j] # None
  <2>1. \A j \in s.ref : j \in Keys /\ s.items[j] # None
    BY DEF RingMatchesMap, Shards
  <2> QED
    BY <1>2, <1>4, <1>5, <2>1
<1> QED
  BY <1>6, <1>11, <1>12, <1>13 DEF RingMatchesMap, r

LEMMA UpdateKeepsRing ==
    ASSUME NEW s \in Shards(Entry), RingMatchesMap(s), NEW k \in Keys, NEW e \in Entry
    PROVE  /\ UpdateL1(s, k, e) \in Shards(Entry) /\ RingMatchesMap(UpdateL1(s, k, e))
           /\ \A j \in Keys : UpdateL1(s, k, e).items[j] \in {s.items[j], None}
                              \/ (j = k /\ UpdateL1(s, k, e).items[j] = e)
<1>1. CASE s.items[k] = None
  <2>1. UpdateL1(s, k, e) = Insert(s, k, e)
    BY <1>1 DEF UpdateL1
  <2>2. Insert(s, k, e) \in Shards(Entry) /\ RingMatchesMap(Insert(s, k, e))
    BY <1>1, InsertKeepsRing
  <2>3. ASSUME NEW j \in Keys
        PROVE  Insert(s, k, e).items[j] \in {s.items[j], None}
               \/ (j = k /\ Insert(s, k, e).items[j] = e)
    <3>1. Insert(s, k, e).items =
            [i \in Keys |-> IF i = k THEN e
                            ELSE IF i = s.order[Slot(s, Passed(s))] THEN None ELSE s.items[i]]
      BY DEF Insert
    <3> QED
      BY <3>1
  <2> QED
    BY <2>1, <2>2, <2>3
<1>2. CASE s.items[k] # None
  <2> DEFINE r == [s EXCEPT !.items[k] = e, !.ref = @ \cup {k}]
  <2>1. UpdateL1(s, k, e) = r
    BY <1>2 DEF UpdateL1
  <2>2. /\ r.items = [s.items EXCEPT ![k] = e]
        /\ r.order = s.order /\ r.ref = s.ref \cup {k} /\ r.pos = s.pos
    BY DEF Shards
  <2>3. r \in Shards(Entry)
    BY DEF Shards
  <2>4. e # None
    BY NamesAssumption
  <2>5. \A j \in Keys : r.items[j] = IF j = k THEN e ELSE s.items[j]
    BY <2>2 DEF Shards
  <2> HIDE DEF r
  <2>6. RingMatchesMap(r)
    <3>1. \A j \in Keys : r.items[j] # None <=> s.items[j] # None
      BY <1>2, <2>4, <2>5
    <3>2. \A j \in r.ref : r.items[j] # None
      <4>1. \A j \in s.ref : j \in Keys /\ s.items[j] # None
        BY DEF RingMatchesMap, Shards
      <4> QED
        BY <2>2, <2>4, <2>5, <4>1
    <3>3. /\ \A j \in Keys : s.items[j] # None <=> \E i \in Slots : s.order[i] = j
          /\ \A i, j \in Slots : s.order[i] = s.order[j] /\ s.order[i] # None => i = j
      BY DEF RingMatchesMap
    <3> QED
      BY <2>2, <3>1, <3>2, <3>3 DEF RingMatchesMap
  <2> QED
    BY <2>1, <2>3, <2>5, <2>6
<1> QED
  BY <1>1, <1>2

LEMMA EmptyRing == EmptyShard \in Shards(Entry) /\ RingMatchesMap(EmptyShard)
<1>1. EmptyShard \in Shards(Entry)
  BY ShardAssumption DEF EmptyShard, Shards, Slots
<1>2. RingMatchesMap(EmptyShard)
  BY ShardAssumption DEF EmptyShard, RingMatchesMap
<1> QED
  BY <1>1, <1>2

-----------------------------------------------------------------------------
(* The invariant.                                                           *)

\* The fields a worker has where it is; call tells a query from an update, t is
\* now and a is alive.
Good(s, call, t, a) ==
    /\ s.pc \notin {"idle", "release"} => s.key \in Keys
    /\ (s.pc = "look" \/ (call /\ s.pc \in {"ask", "save", "count", "store"})) => s.at \in 0 .. t
    /\ s.pc \in {"again", "save", "count", "store"} => s.ttl \in Nat
    /\ s.pc = "save" => s.kind \in Kinds
    /\ s.pc = "promote" => s.entry \in Entry /\ s.entry.exp <= a[s.key]

WorkGood ==
    /\ work = [w \in Workers |-> work[w]]
    /\ \A w \in Workers :
        /\ Good(work[w], w \in Calls, now, alive)
        /\ work[w].pc = "purge" =>
             /\ work[w].next.pc \in {"ask", "idle"}
             /\ Good(work[w].next, w \in Calls, now, alive)

Items == [Keys -> Item \cup {None}]
Dumps == [by : Dumpers, at : Nat, todo : SUBSET Keys, seen : Items]

Turning == {"out", "l2", "count", "dump", "saved", "closed", "check", "gone"}

Typed ==
    /\ now \in Nat /\ l1 \in Shards(Entry) /\ l2 \in Items /\ file \in Items
    /\ alive \in [Keys -> Nat] /\ task \in [Dumpers -> Turning]
    /\ dump # Unlocked => dump \in Dumps

Lives(items, a) ==
    \A k \in Keys : items[k] # None => items[k].exp <= items[k].until /\ items[k].until <= a[k]

PromotedLives(items, a) ==
    \A k \in Keys : items[k] # None /\ items[k].promoted => items[k].exp <= a[k]

\* L2WithinLifetime, of everything an answer of the second level may come from.
SourcesAlive ==
    /\ PromotedLives(l1.items, alive) /\ Lives(l2, alive) /\ Lives(file, alive)
    /\ dump # Unlocked => Lives(dump.seen, alive)

Since(items, t) == \A k \in Keys : items[k] # None => items[k].stored >= t

\* FlushSticks, of a dump under way too, and what a flush under way has reached.
FlushReaches ==
    /\ flushed \in Nat /\ began \in Nat /\ flushed <= began /\ began <= now
    /\ Since(l2, flushed) /\ Since(file, flushed)
    /\ dump # Unlocked => Since(dump.seen, flushed)
    /\ task["flush"] # "out" =>
         \A k \in Keys \ toFlush : l2[k] # None => l2[k].stored >= began
    /\ task["flush"] \in {"count", "dump"} => toFlush = {}
    /\ dump # Unlocked /\ dump.by = "flush" => task["flush"] = "dump" /\ Since(dump.seen, began)

IInv == Typed /\ WorkGood /\ RingIsSound /\ SourcesAlive /\ FlushReaches

-----------------------------------------------------------------------------
(* Frames.                                                                  *)

\* A worker that moves to a good state, while nothing good gets shorter.
LEMMA WorkMoves ==
    ASSUME Typed, WorkGood, NEW w \in Workers, NEW s, Becomes(w, s),
           now' \in Nat, now' >= now, alive' \in [Keys -> Nat], \A k \in Keys : alive'[k] >= alive[k],
           Good(s, w \in Calls, now', alive'),
           s.pc = "purge" => s.next.pc \in {"ask", "idle"} /\ Good(s.next, w \in Calls, now', alive')
    PROVE  WorkGood'
<1>1. work' = [work EXCEPT ![w] = s]
  BY DEF Becomes
<1>2. \A x \in Workers : work'[x] = IF x = w THEN s ELSE work[x]
  BY <1>1 DEF WorkGood
<1>3. work' = [x \in Workers |-> work'[x]]
  BY <1>1 DEF WorkGood
<1>4. ASSUME NEW r, NEW call \in BOOLEAN, Good(r, call, now, alive)
      PROVE  Good(r, call, now', alive')
  BY <1>4 DEF Good, Typed, Entry
<1>5. ASSUME NEW x \in Workers \ {w}
      PROVE  /\ Good(work'[x], x \in Calls, now', alive')
             /\ work'[x].pc = "purge" =>
                  /\ work'[x].next.pc \in {"ask", "idle"}
                  /\ Good(work'[x].next, x \in Calls, now', alive')
  <2>1. work'[x] = work[x] /\ (x \in Calls) \in BOOLEAN
    BY <1>2
  <2>2. /\ Good(work[x], x \in Calls, now, alive)
        /\ work[x].pc = "purge" =>
             work[x].next.pc \in {"ask", "idle"} /\ Good(work[x].next, x \in Calls, now, alive)
    BY DEF WorkGood
  <2> QED
    BY <1>4, <2>1, <2>2
<1> QED
  BY <1>2, <1>3, <1>5 DEF WorkGood

LEMMA WorkStays ==
    ASSUME Typed, WorkGood, UNCHANGED work,
           now' \in Nat, now' >= now, alive' \in [Keys -> Nat], \A k \in Keys : alive'[k] >= alive[k]
    PROVE  WorkGood'
<1>1. ASSUME NEW r, NEW call \in BOOLEAN, Good(r, call, now, alive)
      PROVE  Good(r, call, now', alive')
  BY <1>1 DEF Good, Typed, Entry
<1>2. ASSUME NEW x \in Workers
      PROVE  /\ Good(work[x], x \in Calls, now', alive')
             /\ work[x].pc = "purge" =>
                  /\ work[x].next.pc \in {"ask", "idle"}
                  /\ Good(work[x].next, x \in Calls, now', alive')
  <2>1. /\ Good(work[x], x \in Calls, now, alive)
        /\ work[x].pc = "purge" =>
             work[x].next.pc \in {"ask", "idle"} /\ Good(work[x].next, x \in Calls, now, alive)
    BY DEF WorkGood
  <2>2. (x \in Calls) \in BOOLEAN
    OBVIOUS
  <2> QED
    BY <1>1, <2>1, <2>2
<1> QED
  BY <1>2 DEF WorkGood

stored == <<l1, l2, file, dump, alive, now>>

\* What neither stores nor flushes leaves the rest of the invariant alone.
LEMMA OthersStay ==
    ASSUME IInv, UNCHANGED stored, UNCHANGED flushVars, WorkGood',
           task' \in [Dumpers -> Turning], task'["flush"] = task["flush"]
    PROVE  IInv'
BY DEF IInv, Typed, RingIsSound, RingMatchesMap, SourcesAlive, Lives, PromotedLives,
       FlushReaches, Since, Items, Dumps, Unlocked, stored, flushVars

LEMMA LifetimesTyped ==
    ASSUME NEW a, a.ttl \in Nat
    PROVE  AtLeastMin(MsgTtl(a)) \in Nat /\ AtLeastMin(CacheTtl(a)) \in Nat
<1>1. {NxTtl, FailTtl, EmptyTtl, MinTtl, LazyTtl} \subseteq Nat
  BY CacheAssumption
<1>2. MsgTtl(a) \in Nat
  BY <1>1 DEF MsgTtl
<1>3. CacheTtl(a) \in Nat
  BY <1>1, <1>2 DEF CacheTtl
<1> QED
  BY <1>1, <1>2, <1>3 DEF AtLeastMin

-----------------------------------------------------------------------------
(* The steps of a query and of an update that store nothing.                *)

\* A worker that moves to a good state and touches nothing else.
LEMMA OnlyWork ==
    ASSUME IInv, NEW w \in Workers, NEW s, Becomes(w, s), UNCHANGED stored, UNCHANGED flushVars,
           UNCHANGED task, Good(s, w \in Calls, now, alive),
           s.pc = "purge" => s.next.pc \in {"ask", "idle"} /\ Good(s.next, w \in Calls, now, alive)
    PROVE  IInv'
<1>1. /\ now' \in Nat /\ now' >= now /\ alive' \in [Keys -> Nat]
      /\ \A k \in Keys : alive'[k] >= alive[k] /\ now' = now /\ alive' = alive
  BY DEF IInv, Typed, stored
<1>2. WorkGood'
  BY <1>1, WorkMoves DEF IInv, stored
<1> QED
  BY <1>2, OthersStay DEF IInv, Typed

LEMMA IdleIsGood ==
    ASSUME NEW call \in BOOLEAN, NEW t, NEW a PROVE Good(Idle, call, t, a) /\ Idle.pc = "idle"
BY DEF Good, Idle

LEMMA GetL2Typed ==
    ASSUME Typed, SourcesAlive, NEW k \in Keys, GetL2(k) # None
    PROVE  GetL2(k) \in Item /\ GetL2(k).exp <= alive[k]
<1>1. GetL2(k) = l2[k] /\ l2[k] # None
  BY DEF GetL2
<1>2. l2[k] \in Item /\ alive[k] \in Nat
  BY <1>1 DEF Typed, Items
<1>3. l2[k].exp <= l2[k].until /\ l2[k].until <= alive[k]
  BY <1>1 DEF SourcesAlive, Lives
<1> QED
  BY <1>1, <1>2, <1>3 DEF Item

LEMMA StartStep == ASSUME IInv, NEW c \in Calls, Start(c) PROVE IInv'
<1>1. PICK k \in Keys : Becomes(c, [pc |-> "look", key |-> k, at |-> now])
  BY DEF Start
<1>2. Good([pc |-> "look", key |-> k, at |-> now], TRUE, now, alive)
  BY DEF Good, IInv, Typed
<1>3. c \in Workers /\ (c \in Calls) = TRUE
  BY DEF Workers
<1>4. UNCHANGED stored /\ UNCHANGED flushVars /\ UNCHANGED task
  BY DEF Start, stored, cacheVars, loopVars, dumpVars
<1> QED
  BY <1>1, <1>2, <1>3, <1>4, OnlyWork

\* A lazy hit moves the query, and an update that begins.
LEMMA LazyUpdateStep ==
    ASSUME IInv, NEW c \in Calls, NEW k \in Keys, DoLazyUpdate(c, k), UNCHANGED stored,
           UNCHANGED flushVars, UNCHANGED task
    PROVE  IInv'
<1>1. CASE Becomes(c, Idle)
  BY <1>1, IdleIsGood, OnlyWork DEF Workers
<1>2. ASSUME NEW u \in Updaters,
             work' = [work EXCEPT ![c] = Idle, ![u] = [pc |-> "start", key |-> k]]
      PROVE  IInv'
  <2> DEFINE s == [pc |-> "start", key |-> k]
  <2>1. \A w \in Workers : work'[w] = IF w = u THEN s ELSE IF w = c THEN Idle ELSE work[w]
    BY <1>2 DEF IInv, WorkGood, Workers
  <2>2. work' = [w \in Workers |-> work'[w]]
    BY <1>2 DEF IInv, WorkGood
  <2>3. Good(s, FALSE, now, alive) /\ Good(Idle, TRUE, now, alive) /\ u \notin Calls
    BY IdleIsGood, NamesAssumption DEF Good
  <2>4. ASSUME NEW w \in Workers
        PROVE  /\ Good(work'[w], w \in Calls, now, alive)
               /\ work'[w].pc = "purge" =>
                    /\ work'[w].next.pc \in {"ask", "idle"}
                    /\ Good(work'[w].next, w \in Calls, now, alive)
    <3>1. CASE w = u
      <4>1. work'[w] = s /\ s.pc # "purge" /\ (w \in Calls) = FALSE
        BY <2>1, <2>3, <3>1
      <4> HIDE DEF s
      <4> QED
        BY <2>3, <4>1
    <3>2. CASE w = c /\ w # u
      BY <2>1, <2>3, <3>2, IdleIsGood
    <3>3. CASE w # c /\ w # u
      BY <2>1, <3>3 DEF IInv, WorkGood
    <3> QED
      BY <3>1, <3>2, <3>3
  <2>5. now' = now /\ alive' = alive
    BY DEF stored
  <2>6. WorkGood'
    BY <2>2, <2>4, <2>5 DEF WorkGood
  <2> QED
    BY <2>6, OthersStay DEF IInv, Typed
<1> QED
  BY <1>1, <1>2 DEF DoLazyUpdate

LEMMA LookL2Step == ASSUME IInv, NEW c \in Calls, LookL2(c) PROVE IInv'
<1> DEFINE k == work[c].key
           item == GetL2(k)
           miss == [pc |-> "ask", key |-> k, at |-> work[c].at]
           purge == [pc |-> "purge", key |-> k, next |-> miss]
           again == [pc |-> "again", key |-> k, ttl |-> Remaining(item)]
<1>1. c \in Workers /\ (c \in Calls) = TRUE /\ work[c].pc = "look"
  BY DEF Workers, LookL2, At
<1>2. k \in Keys /\ work[c].at \in 0 .. now
  BY <1>1 DEF IInv, WorkGood, Good
<1>3. UNCHANGED stored /\ UNCHANGED flushVars /\ UNCHANGED task
  BY DEF LookL2, stored, cacheVars, loopVars, dumpVars
<1>4. Good(miss, TRUE, now, alive) /\ Good(purge, TRUE, now, alive)
  BY <1>2 DEF Good
<1>5. CASE Becomes(c, miss)
  BY <1>1, <1>3, <1>4, <1>5, OnlyWork
<1>6. CASE Becomes(c, purge)
  BY <1>1, <1>3, <1>4, <1>6, OnlyWork
<1>7. CASE item # None /\ now < item.exp /\ Becomes(c, again)
  <2>1. item \in Item
    BY <1>2, <1>7, GetL2Typed DEF IInv
  <2>2. Remaining(item) \in Nat
    BY <2>1 DEF Remaining, Item, IInv, Typed
  <2>3. Good(again, TRUE, now, alive)
    BY <1>2, <2>2 DEF Good
  <2> QED
    BY <1>1, <1>3, <1>7, <2>3, OnlyWork
<1>8. CASE DoLazyUpdate(c, k)
  BY <1>2, <1>3, <1>8, LazyUpdateStep
<1> QED
  BY <1>5, <1>6, <1>7, <1>8 DEF LookL2

LEMMA LookAgainStep == ASSUME IInv, NEW c \in Calls, LookAgain(c) PROVE IInv'
<1> DEFINE k == work[c].key
           item == GetL2(k)
           entry == [ttl |-> work[c].ttl, stored |-> item.stored, exp |-> item.exp,
                     promoted |-> TRUE]
           promote == [pc |-> "promote", key |-> k, entry |-> entry]
           purge == [pc |-> "purge", key |-> k, next |-> Idle]
<1>1. c \in Workers /\ (c \in Calls) = TRUE /\ work[c].pc = "again"
  BY DEF Workers, LookAgain, At
<1>2. k \in Keys /\ work[c].ttl \in Nat
  BY <1>1 DEF IInv, WorkGood, Good
<1>3. UNCHANGED stored /\ UNCHANGED flushVars /\ UNCHANGED task
  BY DEF LookAgain, stored, cacheVars, loopVars, dumpVars
<1>4. CASE item # None /\ Becomes(c, promote)
  <2>1. item \in Item /\ item.exp <= alive[k]
    BY <1>2, <1>4, GetL2Typed DEF IInv
  <2>2. entry \in Entry /\ entry.exp <= alive[k]
    BY <1>2, <2>1 DEF Item, Entry
  <2>3. Good(promote, TRUE, now, alive)
    BY <1>2, <2>2 DEF Good
  <2> QED
    BY <1>1, <1>3, <1>4, <2>3, OnlyWork
<1>5. CASE Becomes(c, purge)
  <2>1. Good(purge, TRUE, now, alive)
    BY <1>2 DEF Good
  <2> QED
    BY <1>1, <1>3, <1>5, <2>1, IdleIsGood, OnlyWork
<1>6. CASE Becomes(c, Idle)
  BY <1>1, <1>3, <1>6, IdleIsGood, OnlyWork
<1> QED
  BY <1>4, <1>5, <1>6 DEF LookAgain

LEMMA AskStep == ASSUME IInv, NEW w \in Workers, Ask(w) PROVE IInv'
<1>1. work[w].pc = "ask" /\ work[w].key \in Keys /\ (w \in Calls => work[w].at \in 0 .. now)
  BY DEF Ask, At, IInv, WorkGood, Good
<1>2. UNCHANGED stored /\ UNCHANGED flushVars /\ UNCHANGED task
  BY DEF Ask, stored, cacheVars, loopVars, dumpVars
<1>3. CASE Becomes(w, Done(w))
  <2>1. Good(Done(w), w \in Calls, now, alive) /\ Done(w).pc # "purge"
    BY <1>1, IdleIsGood DEF Done, Good, Idle
  <2> QED
    BY <1>2, <1>3, <2>1, OnlyWork
<1>4. ASSUME NEW kind \in Kinds, NEW ttl \in Ttls,
             Becomes(w, [pc |-> "save", key |-> work[w].key, kind |-> kind, ttl |-> ttl,
                         at |-> IF w \in Updaters THEN None ELSE work[w].at])
      PROVE  IInv'
  <2>1. w \in Calls => w \notin Updaters
    BY NamesAssumption
  <2>2. Good([pc |-> "save", key |-> work[w].key, kind |-> kind, ttl |-> ttl,
              at |-> IF w \in Updaters THEN None ELSE work[w].at], w \in Calls, now, alive)
    BY <1>1, <2>1, CacheAssumption DEF Good
  <2> QED
    BY <1>2, <1>4, <2>2, OnlyWork
<1> QED
  BY <1>3, <1>4 DEF Ask

LEMMA AcquireStep == ASSUME IInv, NEW u \in Updaters, Acquire(u) PROVE IInv'
<1> DEFINE s == [work[u] EXCEPT !.pc = "ask"]
<1>1. u \in Workers /\ (u \in Calls) = FALSE /\ work[u].pc = "start"
  BY NamesAssumption DEF Workers, Acquire, At
<1>2. UNCHANGED stored /\ UNCHANGED flushVars /\ UNCHANGED task
  BY DEF Acquire, stored, cacheVars, loopVars, dumpVars
<1>3. CASE Becomes(u, s)
  <2>1. Good(work[u], FALSE, now, alive)
    BY <1>1 DEF IInv, WorkGood
  <2>2. work[u].key \in Keys
    BY <1>1, <2>1 DEF Good
  <2> SUFFICES Good(s, FALSE, now, alive) /\ s.pc # "purge"
    BY <1>1, <1>2, <1>3, OnlyWork
  <2> QED
    BY <1>1, <2>1, <2>2 DEF Good
<1>4. CASE Becomes(u, Idle)
  BY <1>1, <1>2, <1>4, IdleIsGood, OnlyWork
<1> QED
  BY <1>3, <1>4 DEF Acquire, Moves

LEMMA ForgetStep == ASSUME IInv, NEW u \in Updaters, Forget(u) PROVE IInv'
<1> DEFINE s == [pc |-> "release"]
<1>1. u \in Workers /\ (u \in Calls) \in BOOLEAN /\ Becomes(u, s)
  BY DEF Workers, Forget
<1>2. UNCHANGED stored /\ UNCHANGED flushVars /\ UNCHANGED task
  BY DEF Forget, stored, cacheVars, loopVars, dumpVars
<1>3. Good(s, u \in Calls, now, alive) /\ s.pc # "purge"
  BY DEF Good
<1> QED
  BY <1>1, <1>2, <1>3, OnlyWork

LEMMA ReleaseStep == ASSUME IInv, NEW u \in Updaters, Release(u) PROVE IInv'
<1>1. u \in Workers /\ (u \in Calls) \in BOOLEAN /\ Becomes(u, Idle)
  BY DEF Workers, Release
<1>2. UNCHANGED stored /\ UNCHANGED flushVars /\ UNCHANGED task
  BY DEF Release, stored, cacheVars, loopVars, dumpVars
<1> QED
  BY <1>1, <1>2, IdleIsGood, OnlyWork

LEMMA CountStep == ASSUME IInv, NEW w \in Workers, Count(w) PROVE IInv'
<1> DEFINE s == [work[w] EXCEPT !.pc = "store"]
<1>1. work[w].pc = "count" /\ Becomes(w, s) /\ (w \in Calls) \in BOOLEAN
  BY DEF Count, At, Moves
<1>2. UNCHANGED stored /\ UNCHANGED flushVars /\ UNCHANGED task
  BY DEF Count, stored, cacheVars, loopVars, dumpVars
<1>3. Good(work[w], w \in Calls, now, alive)
  BY DEF IInv, WorkGood
<1>4. Good(s, w \in Calls, now, alive) /\ s.pc # "purge"
  <2>1. s.pc = "store" \/ s = work[w]
    OBVIOUS
  <2> QED
    BY <1>1, <1>3, <2>1 DEF Good
<1> QED
  BY <1>1, <1>2, <1>4, OnlyWork

-----------------------------------------------------------------------------
(* What is stored and deleted.                                              *)

\* Items go, and a worker may move.
LEMMA ItemsGo ==
    ASSUME IInv, WorkGood', NEW k \in Keys, l2' = [l2 EXCEPT ![k] = None],
           UNCHANGED <<l1, file, dump, alive, now, task, flushVars>>
    PROVE  IInv'
<1>1. l2' \in Items /\ \A j \in Keys : l2'[j] \in {l2[j], None}
  BY DEF IInv, Typed, Items
<1>2. Typed' /\ RingIsSound'
  BY <1>1 DEF IInv, Typed, RingIsSound, RingMatchesMap, Unlocked, Items, Dumps
<1>3. SourcesAlive'
  BY <1>1 DEF IInv, SourcesAlive, Lives, PromotedLives, Unlocked
<1>4. FlushReaches'
  BY <1>1 DEF IInv, FlushReaches, Since, Unlocked, flushVars
<1> QED
  BY <1>2, <1>3, <1>4 DEF IInv

LEMMA GcStep == ASSUME IInv, Gc PROVE IInv'
<1>1. PICK k \in Keys : l2' = [l2 EXCEPT ![k] = None]
  BY DEF Gc
<1>2. UNCHANGED <<l1, file, dump, alive, now, task, flushVars, work>>
  BY DEF Gc, loopVars, dumpVars
<1>3. WorkGood'
  BY <1>2, WorkStays DEF IInv, Typed
<1> QED
  BY <1>1, <1>2, <1>3, ItemsGo

LEMMA PurgeStep == ASSUME IInv, NEW c \in Calls, Purge(c) PROVE IInv'
<1>1. c \in Workers /\ work[c].pc = "purge" /\ (c \in Calls) = TRUE
  BY DEF Workers, Purge, At
<1>2. /\ work[c].key \in Keys /\ work[c].next.pc # "purge"
      /\ Good(work[c].next, c \in Calls, now, alive)
  BY <1>1 DEF IInv, WorkGood, Good
<1>3. UNCHANGED <<l1, file, dump, alive, now, task, flushVars>>
  BY DEF Purge, loopVars, dumpVars
<1>4. l2' = [l2 EXCEPT ![work[c].key] = None] /\ Becomes(c, work[c].next)
  BY DEF Purge
<1>5. WorkGood'
  BY <1>1, <1>2, <1>3, <1>4, WorkMoves DEF IInv, Typed
<1> QED
  BY <1>2, <1>3, <1>4, <1>5, ItemsGo

\* An entry of the first level that is good.
LEMMA EntryStored ==
    ASSUME IInv, WorkGood', NEW k \in Keys, NEW e \in Entry, l1' = UpdateL1(l1, k, e),
           e.promoted => e.exp <= alive[k],
           UNCHANGED <<l2, file, dump, alive, now, task, flushVars>>
    PROVE  IInv'
<1>1. l1 \in Shards(Entry) /\ RingMatchesMap(l1)
  BY DEF IInv, Typed, RingIsSound
<1>2. /\ l1' \in Shards(Entry) /\ RingMatchesMap(l1')
      /\ \A j \in Keys : l1'.items[j] \in {l1.items[j], None} \/ (j = k /\ l1'.items[j] = e)
  BY <1>1, UpdateKeepsRing
<1>3. Typed'
  BY <1>2 DEF IInv, Typed, Unlocked, Items, Dumps
<1>4. RingIsSound'
  BY <1>2 DEF RingIsSound, RingMatchesMap
<1>5. SourcesAlive'
  <2>1. PromotedLives(l1.items, alive)
    BY DEF IInv, SourcesAlive
  <2>2. PromotedLives(l1'.items, alive)
    BY <1>2, <2>1 DEF PromotedLives
  <2> QED
    BY <2>2 DEF IInv, SourcesAlive, PromotedLives, Lives, Unlocked
<1>6. FlushReaches'
  BY DEF IInv, FlushReaches, Since, Unlocked, flushVars
<1> QED
  BY <1>3, <1>4, <1>5, <1>6 DEF IInv

LEMMA PromoteStep == ASSUME IInv, NEW c \in Calls, Promote(c) PROVE IInv'
<1>1. c \in Workers /\ work[c].pc = "promote" /\ (c \in Calls) = TRUE
  BY DEF Workers, Promote, At
<1>2. work[c].key \in Keys /\ work[c].entry \in Entry /\ work[c].entry.exp <= alive[work[c].key]
  BY <1>1 DEF IInv, WorkGood, Good
<1>3. UNCHANGED <<l2, file, dump, alive, now, task, flushVars>>
  BY DEF Promote, loopVars, dumpVars
<1>4. l1' = UpdateL1(l1, work[c].key, work[c].entry) /\ Becomes(c, Idle)
  BY DEF Promote
<1>5. /\ alive' \in [Keys -> Nat] /\ \A j \in Keys : alive'[j] >= alive[j]
      /\ now' \in Nat /\ now' >= now
  BY <1>3 DEF IInv, Typed
<1>6. WorkGood'
  BY <1>1, <1>3, <1>4, <1>5, IdleIsGood, WorkMoves DEF IInv
<1> QED
  BY <1>2, <1>3, <1>4, <1>6, EntryStored

\* What an update has stored ages from now on, what a query has, from the time it began.
LEMMA StoreL1Step == ASSUME IInv, NEW w \in Workers, StoreL1(w) PROVE IInv'
<1> DEFINE at == IF w \in Updaters THEN now ELSE work[w].at
           k == work[w].key
           e == [ttl |-> work[w].ttl, stored |-> at, exp |-> at + work[w].ttl,
                 promoted |-> FALSE]
<1>1. work[w].pc = "store" /\ (w \in Calls <=> w \notin Updaters)
  BY NamesAssumption DEF Workers, StoreL1, At
<1>2. /\ k \in Keys /\ work[w].ttl \in Nat
      /\ w \in Calls => work[w].at \in 0 .. now
  BY <1>1 DEF IInv, WorkGood, Good
<1>3. at \in Nat
  BY <1>1, <1>2 DEF IInv, Typed
<1>4. e \in Entry /\ e.promoted = FALSE
  BY <1>2, <1>3 DEF Entry
<1>5. UNCHANGED <<l2, file, dump, alive, now, task, flushVars>>
  BY DEF StoreL1, loopVars, dumpVars
<1>6. l1' = UpdateL1(l1, k, e) /\ Becomes(w, Done(w))
  BY DEF StoreL1
<1> HIDE DEF e, at
<1>7. /\ alive' \in [Keys -> Nat] /\ \A j \in Keys : alive'[j] >= alive[j]
      /\ now' \in Nat /\ now' >= now
  BY <1>5 DEF IInv, Typed
<1>8. Good(Done(w), w \in Calls, now', alive') /\ Done(w).pc # "purge"
  BY <1>2, IdleIsGood DEF Done, Good, Idle
<1>9. WorkGood'
  BY <1>6, <1>7, <1>8, WorkMoves DEF IInv
<1> QED
  BY <1>2, <1>4, <1>5, <1>6, <1>9, EntryStored

\* The expiration that Save computes is the end of the lifetime.
LEMMA SavesForLifetime ==
    ASSUME NEW a, a.ttl \in Nat, a.kind \in Kinds
    PROVE  Lifetime(a) \in Nat /\ AtLeastMin(MsgTtl(a)) <= Lifetime(a)
<1>1. {NxTtl, FailTtl, EmptyTtl, MinTtl} \subseteq Nat
  BY CacheAssumption
<1>2. a.kind \in {"some", "empty", "nx", "fail", "other"}
  BY CacheAssumption
<1> QED
  BY <1>1, <1>2 DEF Lifetime, AtLeastMin, MsgTtl

LEMMA SaveStep == ASSUME IInv, NEW w \in Workers, Save(w) PROVE IInv'
<1> DEFINE a == work[w]
           exp == now + AtLeastMin(MsgTtl(a))
           keep == now + AtLeastMin(CacheTtl(a))
           until == now + Lifetime(a)
           item == [ttl |-> a.ttl, stored |-> now, exp |-> exp, keep |-> keep, until |-> until]
           s == [pc |-> "count", key |-> a.key, ttl |-> a.ttl, at |-> a.at]
<1>1. a.pc = "save"
  BY DEF Save, At
<1>2. /\ a.key \in Keys /\ a.ttl \in Nat /\ a.kind \in Kinds
      /\ (w \in Calls => a.at \in 0 .. now) /\ now \in Nat
  BY <1>1 DEF IInv, WorkGood, Good, Typed
<1>3. exp \in Nat /\ keep \in Nat /\ until \in Nat /\ exp <= until
  BY <1>2, LifetimesTyped, SavesForLifetime
<1>4. /\ l2' = [l2 EXCEPT ![a.key] = item] /\ Becomes(w, s)
      /\ alive' = [alive EXCEPT ![a.key] = Later(@, until)]
  BY DEF Save
<1>5. UNCHANGED <<l1, file, dump, now, task, flushVars>>
  BY DEF Save, loopVars, dumpVars
<1>6. item \in Item /\ item.exp = exp /\ item.until = until /\ item.stored = now
  BY <1>2, <1>3 DEF Item
<1>7. alive \in [Keys -> Nat] /\ l2 \in Items
  BY DEF IInv, Typed
<1> HIDE DEF item, exp, keep, until
<1>8. /\ alive' \in [Keys -> Nat] /\ \A j \in Keys : alive'[j] >= alive[j]
      /\ until <= alive'[a.key]
  BY <1>2, <1>3, <1>4, <1>7 DEF Later
<1>9. Good(s, w \in Calls, now', alive') /\ s.pc # "purge"
  <2>1. w \in Calls => a.at \in 0 .. now'
    BY <1>2, <1>5
  <2> QED
    BY <1>2, <1>3, <2>1 DEF Good
<1>10. WorkGood'
  <2>1. now' \in Nat /\ now' >= now
    BY <1>2, <1>5
  <2> HIDE DEF s
  <2> QED
    BY <1>4, <1>8, <1>9, <2>1, WorkMoves DEF IInv
<1>11. l2' \in Items /\ \A j \in Keys : l2'[j] = IF j = a.key THEN item ELSE l2[j]
  BY <1>4, <1>6, <1>7 DEF Items
<1>12. Typed' /\ RingIsSound'
  BY <1>5, <1>8, <1>11 DEF IInv, Typed, RingIsSound, RingMatchesMap, Unlocked, Items, Dumps
<1>13. SourcesAlive'
  <2>1. ASSUME NEW items \in Items, Lives(items, alive) PROVE Lives(items, alive')
    BY <1>7, <1>8, <2>1 DEF Lives, Items, Item
  <2>2. Lives(file', alive') /\ (dump' # Unlocked' => Lives(dump'.seen, alive'))
    BY <1>5, <2>1 DEF IInv, SourcesAlive, Typed, Dumps, Unlocked
  <2>3. PromotedLives(l1'.items, alive')
    <3>1. l1'.items = l1.items
      BY <1>5
    <3>2. l1.items \in [Keys -> Entry \cup {None}] /\ PromotedLives(l1.items, alive)
      BY DEF IInv, Typed, Shards, SourcesAlive
    <3> QED
      BY <1>7, <1>8, <3>1, <3>2 DEF PromotedLives, Entry
  <2>4. Lives(l2', alive')
    <3>1. SUFFICES ASSUME NEW j \in Keys, l2'[j] # None
                   PROVE  l2'[j].exp <= l2'[j].until /\ l2'[j].until <= alive'[j]
      BY DEF Lives
    <3>2. CASE j = a.key
      BY <1>3, <1>6, <1>8, <1>11, <3>2
    <3>3. CASE j # a.key
      <4>1. l2'[j] = l2[j] /\ Lives(l2, alive')
        BY <1>7, <1>11, <2>1, <3>3 DEF IInv, SourcesAlive
      <4> QED
        BY <3>1, <4>1 DEF Lives
    <3> QED
      BY <3>2, <3>3
  <2> QED
    BY <2>2, <2>3, <2>4 DEF SourcesAlive
<1>14. FlushReaches'
  <2>1. flushed \in Nat /\ began \in Nat /\ flushed <= began /\ began <= now
    BY DEF IInv, FlushReaches
  <2> QED
    BY <1>2, <1>5, <1>6, <1>11, <2>1 DEF IInv, FlushReaches, Since, Unlocked, flushVars
<1> QED
  BY <1>10, <1>12, <1>13, <1>14 DEF IInv

LEMMA TickStep == ASSUME IInv, Tick PROVE IInv'
<1>1. now' = now + 1 /\ UNCHANGED <<l1, l2, file, dump, alive, task, flushVars, work>>
  BY DEF Tick, cacheVars, loopVars, dumpVars
<1>2. now' \in Nat /\ now' >= now
  BY <1>1 DEF IInv, Typed
<1>3. WorkGood'
  BY <1>1, <1>2, WorkStays DEF IInv, Typed
<1>4. Typed' /\ RingIsSound' /\ SourcesAlive'
  BY <1>1, <1>2 DEF IInv, Typed, RingIsSound, RingMatchesMap, SourcesAlive, Lives,
                    PromotedLives, Unlocked, Items, Dumps
<1>5. FlushReaches'
  <2>1. flushed \in Nat /\ began \in Nat /\ flushed <= began /\ began <= now /\ now \in Nat
    BY DEF IInv, FlushReaches, Typed
  <2> QED
    BY <1>1, <2>1 DEF IInv, FlushReaches, Since, Unlocked, flushVars
<1> QED
  BY <1>3, <1>4, <1>5 DEF IInv

-----------------------------------------------------------------------------
(* Flushes and dumps.                                                       *)

\* What moves only the turns of the dumpers, and not that of a flush.
LEMMA OnlyTurns ==
    ASSUME IInv, UNCHANGED stored, UNCHANGED flushVars, UNCHANGED work,
           NEW d \in Dumpers \ {"flush"}, NEW p \in Turning, Turns(d, p)
    PROVE  IInv'
<1>1. task' \in [Dumpers -> Turning] /\ task'["flush"] = task["flush"]
  BY DEF IInv, Typed, Turns, Dumpers
<1>2. WorkGood'
  BY WorkStays DEF stored, IInv, Typed
<1> QED
  BY <1>1, <1>2, OthersStay

LEMMA TurnSteps ==
    ASSUME IInv,
           SaveBegins \/ CloseNotify \/ SaveAnswered \/ LoopTick \/ LoopCheck \/ LoopExits
    PROVE  IInv'
<1>1. {"save", "loop"} \subseteq Dumpers \ {"flush"}
  BY DEF Dumpers
<1>2. UNCHANGED stored /\ UNCHANGED flushVars /\ UNCHANGED work
  BY DEF SaveBegins, CloseNotify, SaveAnswered, LoopTick, LoopCheck, LoopExits, stored, cacheVars,
         dumpVars
<1>3. \E d \in {"save", "loop"}, p \in Turning : Turns(d, p)
  <2>1. CASE SaveBegins
    BY <2>1 DEF SaveBegins, Turning
  <2>2. CASE CloseNotify
    BY <2>2 DEF CloseNotify, Turning
  <2>3. CASE SaveAnswered
    BY <2>3 DEF SaveAnswered, Turning
  <2>4. CASE LoopTick
    BY <2>4 DEF LoopTick, Turning
  <2>5. CASE LoopCheck
    BY <2>5 DEF LoopCheck, Turning
  <2>6. CASE LoopExits
    BY <2>6 DEF LoopExits, Turning
  <2> QED
    BY <2>1, <2>2, <2>3, <2>4, <2>5, <2>6
<1> QED
  BY <1>1, <1>2, <1>3, OnlyTurns

LEMMA FlushBeginsStep == ASSUME IInv, FlushBegins PROVE IInv'
<1>1. /\ task["flush"] = "out" /\ task' = [task EXCEPT !["flush"] = "l2"]
      /\ toFlush' = Keys /\ began' = now
      /\ UNCHANGED <<now, l1, l2, work, file, dump, alive, flushed>>
  BY DEF FlushBegins, Turns, cacheVars, dumpVars
<1>2. WorkGood'
  BY <1>1, WorkStays DEF IInv, Typed
<1>3. Typed' /\ RingIsSound' /\ SourcesAlive'
  <2>1. task' \in [Dumpers -> Turning]
    BY <1>1 DEF IInv, Typed, Turning
  <2> QED
    BY <1>1, <2>1 DEF IInv, Typed, RingIsSound, RingMatchesMap, SourcesAlive, Lives,
                      PromotedLives, Unlocked, Items, Dumps
<1>4. FlushReaches'
  <2>1. task'["flush"] = "l2"
    BY <1>1 DEF IInv, Typed, Dumpers
  <2>2. flushed \in Nat /\ flushed <= now /\ now \in Nat
    BY DEF IInv, FlushReaches, Typed
  <2> QED
    BY <1>1, <2>1, <2>2 DEF IInv, FlushReaches, Since, Unlocked
<1> QED
  BY <1>2, <1>3, <1>4 DEF IInv

LEMMA FlushL2Step == ASSUME IInv, FlushL2 PROVE IInv'
<1>1. PICK k \in toFlush : l2' = [l2 EXCEPT ![k] = None] /\ toFlush' = toFlush \ {k}
  BY DEF FlushL2
<1>2. task["flush"] = "l2" /\ UNCHANGED <<now, l1, work, task, file, dump, alive, flushed, began>>
  BY DEF FlushL2, loopVars, dumpVars
<1>3. WorkGood'
  BY <1>2, WorkStays DEF IInv, Typed
<1>4. /\ l2' \in Items
      /\ \A j \in Keys : l2'[j] \in {l2[j], None} /\ (j = k => l2'[j] = None)
  BY <1>1 DEF IInv, Typed, Items
<1>5. Typed' /\ RingIsSound' /\ SourcesAlive'
  BY <1>2, <1>4 DEF IInv, Typed, RingIsSound, RingMatchesMap, SourcesAlive, Lives,
                    PromotedLives, Unlocked, Items, Dumps
<1>6. FlushReaches'
  BY <1>1, <1>2, <1>4 DEF IInv, FlushReaches, Since, Unlocked
<1> QED
  BY <1>3, <1>5, <1>6 DEF IInv

LEMMA FlushL1Step == ASSUME IInv, FlushL1 PROVE IInv'
<1>1. /\ task["flush"] = "l2" /\ toFlush = {} /\ l1' = EmptyShard
      /\ task' = [task EXCEPT !["flush"] = "count"]
      /\ UNCHANGED <<now, l2, work, file, dump, alive, flushVars>>
  BY DEF FlushL1, Turns, dumpVars
<1>2. WorkGood'
  BY <1>1, WorkStays DEF IInv, Typed
<1>3. Typed' /\ RingIsSound'
  <2>1. task' \in [Dumpers -> Turning]
    BY <1>1 DEF IInv, Typed, Turning
  <2>2. l1' \in Shards(Entry) /\ RingMatchesMap(l1')
    BY <1>1, EmptyRing
  <2>3. RingIsSound'
    BY <2>2 DEF RingIsSound, RingMatchesMap
  <2> QED
    BY <1>1, <2>1, <2>2, <2>3 DEF IInv, Typed, Unlocked, Items, Dumps
<1>4. SourcesAlive'
  BY <1>1 DEF IInv, SourcesAlive, Lives, PromotedLives, Unlocked, EmptyShard
<1>5. FlushReaches'
  <2>1. task'["flush"] = "count"
    BY <1>1 DEF IInv, Typed, Dumpers
  <2> QED
    BY <1>1, <2>1 DEF IInv, FlushReaches, Since, Unlocked, flushVars
<1> QED
  BY <1>2, <1>3, <1>4, <1>5 DEF IInv

LEMMA FlushCountStep == ASSUME IInv, FlushCount PROVE IInv'
<1>1. /\ task["flush"] = "count" /\ task' = [task EXCEPT !["flush"] = "dump"]
      /\ UNCHANGED <<now, l1, l2, work, file, dump, alive, flushVars>>
  BY DEF FlushCount, Turns, dumpVars, cacheVars
<1>2. WorkGood'
  BY <1>1, WorkStays DEF IInv, Typed
<1>3. Typed' /\ RingIsSound' /\ SourcesAlive'
  <2>1. task' \in [Dumpers -> Turning]
    BY <1>1 DEF IInv, Typed, Turning
  <2> QED
    BY <1>1, <2>1 DEF IInv, Typed, RingIsSound, RingMatchesMap, SourcesAlive, Lives,
                      PromotedLives, Unlocked, Items, Dumps
<1>4. FlushReaches'
  <2>1. task'["flush"] = "dump"
    BY <1>1 DEF IInv, Typed, Dumpers
  <2> QED
    BY <1>1, <2>1 DEF IInv, FlushReaches, Since, Unlocked, flushVars
<1> QED
  BY <1>2, <1>3, <1>4 DEF IInv

LEMMA LockDumpStep == ASSUME IInv, NEW d \in Dumpers, LockDump(d) PROVE IInv'
<1>1. /\ task[d] = "dump" /\ dump' = [by |-> d, at |-> now, todo |-> Keys, seen |-> NoItems]
      /\ file' = NoItems /\ UNCHANGED <<now, l1, l2, work, task, alive, flushVars>>
  BY DEF LockDump, cacheVars, loopVars
<1>2. WorkGood'
  BY <1>1, WorkStays DEF IInv, Typed
<1>3. /\ NoItems \in Items /\ \A k \in Keys : NoItems[k] = None
      /\ dump'.seen = NoItems /\ dump'.by = d
  BY <1>1 DEF NoItems, Items
<1>4. dump' \in Dumps
  BY <1>1, <1>3 DEF Dumps, IInv, Typed
<1>5. Typed' /\ RingIsSound'
  BY <1>1, <1>3, <1>4 DEF IInv, Typed, RingIsSound, RingMatchesMap, Items, Dumps
<1>6. SourcesAlive'
  BY <1>1, <1>3 DEF IInv, SourcesAlive, Lives, PromotedLives
<1>7. FlushReaches'
  BY <1>1, <1>3 DEF IInv, FlushReaches, Since, flushVars
<1> QED
  BY <1>2, <1>5, <1>6, <1>7 DEF IInv

LEMMA DumpShardStep == ASSUME IInv, DumpShard PROVE IInv'
<1>1. PICK k \in dump.todo :
        dump' = [dump EXCEPT !.todo = @ \ {k},
                             !.seen[k] = IF l2[k] # None /\ l2[k].keep >= dump.at THEN l2[k]
                                         ELSE None]
  BY DEF DumpShard
<1>2. dump # Unlocked /\ UNCHANGED <<now, l1, l2, work, task, file, alive, flushVars>>
  BY DEF DumpShard, cacheVars, loopVars
<1>3. WorkGood'
  BY <1>2, WorkStays DEF IInv, Typed
<1>4. dump \in Dumps /\ k \in Keys /\ l2 \in Items
  BY <1>1, <1>2 DEF IInv, Typed, Dumps
<1>5. /\ dump'.by = dump.by /\ dump' \in Dumps
      /\ \A j \in Keys : dump'.seen[j] \in {dump.seen[j], l2[j], None}
      /\ \A j \in Keys : j # k => dump'.seen[j] = dump.seen[j]
      /\ dump'.seen[k] \in {l2[k], None}
  BY <1>1, <1>4 DEF Dumps, Items
<1>6. Typed' /\ RingIsSound'
  BY <1>2, <1>5 DEF IInv, Typed, RingIsSound, RingMatchesMap, Items, Dumps
<1>7. SourcesAlive'
  <2>1. Lives(dump.seen, alive) /\ Lives(l2, alive)
    BY <1>2 DEF IInv, SourcesAlive
  <2>2. Lives(dump'.seen, alive)
    BY <1>5, <2>1 DEF Lives
  <2> QED
    BY <1>2, <2>2 DEF IInv, SourcesAlive, Lives, PromotedLives
<1>8. FlushReaches'
  <2>1. Since(dump'.seen, flushed)
    BY <1>2, <1>5 DEF IInv, FlushReaches, Since
  <2>2. dump.by = "flush" => task["flush"] = "dump" /\ Since(dump'.seen, began)
    <3>1. SUFFICES ASSUME dump.by = "flush"
                   PROVE  task["flush"] = "dump" /\ Since(dump'.seen, began)
      OBVIOUS
    <3>2. task["flush"] = "dump" /\ toFlush = {} /\ Since(dump.seen, began) /\ Since(l2, began)
      BY <1>2, <3>1 DEF IInv, FlushReaches, Since
    <3> QED
      BY <1>5, <3>2 DEF Since
  <2> QED
    BY <1>2, <1>5, <2>1, <2>2 DEF IInv, FlushReaches, Since, flushVars
<1> QED
  BY <1>3, <1>6, <1>7, <1>8 DEF IInv

\* A load finds at most what a dump under way has seen.
LEMMA PartTyped ==
    ASSUME NEW seen \in Items, NEW part \in SUBSET Keys
    PROVE  Part(seen, part) \in Items /\ \A k \in Keys : Part(seen, part)[k] \in {seen[k], None}
BY DEF Part, Items

LEMMA DumpTurn ==
    ASSUME IInv, dump # Unlocked, DumpReturns(dump.by)
    PROVE  /\ task' \in [Dumpers -> Turning] /\ dump' = Unlocked
           /\ task'["flush"] = IF dump.by = "flush" THEN "out" ELSE task["flush"]
<1>1. dump.by \in Dumpers
  BY DEF IInv, Typed, Dumps
<1>2. task' = [task EXCEPT ![dump.by] = IF dump.by = "save" THEN "saved" ELSE "out"]
  BY DEF DumpReturns, Turns
<1> QED
  BY <1>1, <1>2 DEF IInv, Typed, Turning, DumpReturns, Dumpers

LEMMA DumpEndsStep == ASSUME IInv, DumpEnds PROVE IInv'
<1>1. /\ dump # Unlocked /\ file' = dump.seen /\ DumpReturns(dump.by)
      /\ flushed' = IF dump.by = "flush" THEN began ELSE flushed
      /\ UNCHANGED <<now, l1, l2, work, alive, toFlush, began>>
  BY DEF DumpEnds, cacheVars
<1>2. /\ task' \in [Dumpers -> Turning] /\ dump' = Unlocked
      /\ task'["flush"] = IF dump.by = "flush" THEN "out" ELSE task["flush"]
  BY <1>1, DumpTurn
<1>3. WorkGood'
  BY <1>1, WorkStays DEF IInv, Typed
<1>4. file' \in Items /\ Lives(file', alive)
  BY <1>1 DEF IInv, Typed, Dumps, SourcesAlive
<1>5. Typed' /\ RingIsSound'
  BY <1>1, <1>2, <1>4 DEF IInv, Typed, RingIsSound, RingMatchesMap, Unlocked
<1>6. SourcesAlive'
  BY <1>1, <1>2, <1>4 DEF IInv, SourcesAlive, Lives, PromotedLives, Unlocked
<1>7. FlushReaches'
  <2>1. Since(file', flushed')
    BY <1>1 DEF IInv, FlushReaches
  <2>2. Since(l2, flushed')
    BY <1>1 DEF IInv, FlushReaches, Since
  <2>3. flushed' \in Nat /\ flushed' <= began
    BY <1>1 DEF IInv, FlushReaches
  <2> QED
    BY <1>1, <1>2, <2>1, <2>2, <2>3 DEF IInv, FlushReaches, Since, Unlocked
<1> QED
  BY <1>3, <1>5, <1>6, <1>7 DEF IInv

LEMMA DumpFailsStep == ASSUME IInv, DumpFails PROVE IInv'
<1>1. /\ dump # Unlocked /\ DumpReturns(dump.by)
      /\ UNCHANGED <<now, l1, l2, work, alive, flushVars>>
  BY DEF DumpFails, cacheVars
<1>2. PICK part \in SUBSET Keys : file' = Part(dump.seen, part)
  BY DEF DumpFails
<1>3. /\ task' \in [Dumpers -> Turning] /\ dump' = Unlocked
      /\ task'["flush"] = IF dump.by = "flush" THEN "out" ELSE task["flush"]
  BY <1>1, DumpTurn
<1>4. file' \in Items /\ \A k \in Keys : file'[k] \in {dump.seen[k], None}
  BY <1>1, <1>2, PartTyped DEF IInv, Typed, Dumps
<1>5. WorkGood'
  BY <1>1, WorkStays DEF IInv, Typed
<1>6. Typed' /\ RingIsSound'
  BY <1>1, <1>3, <1>4 DEF IInv, Typed, RingIsSound, RingMatchesMap, Unlocked
<1>7. SourcesAlive'
  BY <1>1, <1>3, <1>4 DEF IInv, SourcesAlive, Lives, PromotedLives, Unlocked
<1>8. FlushReaches'
  <2>1. Since(file', flushed)
    BY <1>1, <1>4 DEF IInv, FlushReaches, Since
  <2> QED
    BY <1>1, <1>3, <2>1 DEF IInv, FlushReaches, Since, Unlocked, flushVars
<1> QED
  BY <1>5, <1>6, <1>7, <1>8 DEF IInv

LEMMA RestartStep == ASSUME IInv, Restart PROVE IInv'
<1>1. PICK part \in SUBSET Keys :
        /\ file' = IF dump = Unlocked THEN file ELSE Part(dump.seen, part)
        /\ l2' = [k \in Keys |-> IF file'[k] # None /\ file'[k].keep >= now THEN file'[k] ELSE None]
  BY DEF Restart
<1>2. /\ l1' = EmptyShard /\ work' = [w \in Workers |-> Idle] /\ dump' = Unlocked /\ toFlush' = {}
      /\ task' = [d \in Dumpers |-> "out"] /\ UNCHANGED <<now, alive, flushed, began>>
  BY DEF Restart
<1>3. /\ file' \in Items
      /\ \A k \in Keys : file'[k] \in {file[k], None}
                         \/ (dump # Unlocked /\ file'[k] \in {dump.seen[k], None})
  BY <1>1, PartTyped DEF IInv, Typed, Dumps
<1>4. l2' \in Items /\ \A k \in Keys : l2'[k] \in {file'[k], None}
  BY <1>1, <1>3 DEF Items
<1>5. WorkGood'
  <2>1. ASSUME NEW w \in Workers PROVE Good(Idle, w \in Calls, now', alive') /\ Idle.pc # "purge"
    BY DEF Good, Idle
  <2> HIDE DEF Idle
  <2> QED
    BY <1>2, <2>1 DEF WorkGood
<1>6. Typed' /\ RingIsSound'
  <2>1. task' \in [Dumpers -> Turning] /\ task'["flush"] = "out"
    BY <1>2 DEF Turning, Dumpers
  <2>2. l1' \in Shards(Entry) /\ RingIsSound'
    BY <1>2, EmptyRing DEF RingIsSound, RingMatchesMap
  <2> QED
    BY <1>2, <1>3, <1>4, <2>1, <2>2 DEF IInv, Typed, Unlocked
<1>7. SourcesAlive'
  <2>1. Lives(file', alive)
    BY <1>3 DEF IInv, SourcesAlive, Lives, PromotedLives
  <2>2. Lives(l2', alive)
    BY <1>4, <2>1 DEF Lives
  <2> QED
    BY <1>2, <2>1, <2>2 DEF SourcesAlive, Lives, PromotedLives, EmptyShard, Unlocked
<1>8. FlushReaches'
  <2>1. Since(file', flushed)
    BY <1>3 DEF IInv, FlushReaches, Since
  <2>2. Since(l2', flushed)
    BY <1>4, <2>1 DEF Since
  <2>3. task'["flush"] = "out"
    BY <1>2 DEF Dumpers
  <2> QED
    BY <1>2, <2>1, <2>2, <2>3 DEF IInv, FlushReaches, Since, Unlocked
<1> QED
  BY <1>5, <1>6, <1>7, <1>8 DEF IInv

-----------------------------------------------------------------------------
(* The invariant is inductive.                                              *)

LEMMA InitGood == Init => IInv
<1> SUFFICES ASSUME Init PROVE IInv
  OBVIOUS
<1>1. NoItems \in Items /\ \A k \in Keys : NoItems[k] = None
  BY DEF NoItems, Items
<1>2. WorkGood
  <2>1. ASSUME NEW w \in Workers PROVE Good(Idle, w \in Calls, now, alive) /\ Idle.pc # "purge"
    BY DEF Good, Idle
  <2> HIDE DEF Idle
  <2> QED
    BY <2>1 DEF Init, WorkGood
<1>3. Typed /\ RingIsSound
  <2>1. task \in [Dumpers -> Turning]
    BY DEF Init, Turning
  <2> QED
    BY <1>1, <2>1, EmptyRing DEF Init, Typed, RingIsSound
<1>4. SourcesAlive
  BY <1>1 DEF Init, SourcesAlive, Lives, PromotedLives, EmptyShard
<1>5. FlushReaches
  BY <1>1 DEF Init, FlushReaches, Since, Dumpers
<1> QED
  BY <1>2, <1>3, <1>4, <1>5 DEF IInv

LEMMA StepGood == IInv /\ [Next]_vars => IInv'
<1> SUFFICES ASSUME IInv, [Next]_vars PROVE IInv'
  OBVIOUS
<1>1. CASE Tick \/ Gc
  BY <1>1, TickStep, GcStep
<1>2. ASSUME NEW c \in Calls, Exec(c) PROVE IInv'
  BY <1>2, StartStep, LookL2Step, PurgeStep, LookAgainStep, PromoteStep DEF Exec
<1>3. ASSUME NEW u \in Updaters, Update(u) PROVE IInv'
  BY <1>3, AcquireStep, ForgetStep, ReleaseStep DEF Update
<1>4. ASSUME NEW w \in Workers, Keep(w) PROVE IInv'
  BY <1>4, AskStep, SaveStep, CountStep, StoreL1Step DEF Keep
<1>5. CASE FlushBegins \/ FlushL2 \/ FlushL1 \/ FlushCount
  BY <1>5, FlushBeginsStep, FlushL2Step, FlushL1Step, FlushCountStep
<1>6. CASE SaveBegins \/ CloseNotify \/ SaveAnswered \/ LoopTick \/ LoopCheck \/ LoopExits
  BY <1>6, TurnSteps
<1>7. CASE Dumping
  BY <1>7, LockDumpStep, DumpShardStep, DumpEndsStep, DumpFailsStep DEF Dumping
<1>8. CASE Restart
  BY <1>8, RestartStep
<1>9. CASE UNCHANGED vars
  <2>1. UNCHANGED stored /\ UNCHANGED flushVars /\ UNCHANGED work /\ UNCHANGED task
    BY <1>9 DEF vars, cacheVars, dumpVars, loopVars, stored, flushVars
  <2>2. WorkGood'
    BY <2>1, WorkStays DEF IInv, Typed, stored
  <2> QED
    BY <2>1, <2>2, OthersStay DEF IInv, Typed
<1> QED
  BY <1>1, <1>2, <1>3, <1>4, <1>5, <1>6, <1>7, <1>8, <1>9 DEF Next

LEMMA AlwaysGood == Spec => []IInv
BY InitGood, StepGood, PTL DEF Spec

\* The ring of a shard of the first level and its map agree at all times, so no
\* key is lost from the ring and the map never outgrows it (cache.go, updateL1).
THEOREM RingIsSoundCorrect == Spec => []RingIsSound
<1>1. IInv => RingIsSound
  BY DEF IInv
<1> QED
  BY <1>1, AlwaysGood, PTL

\* The second level serves no answer as fresh past the lifetime saveRespToCache's
\* rule gives it, nor does the first level what it has been promoted past that of
\* every answer to its key, whatever queries, updates, dumps and restarts
\* interleave (cache.go, getRespFromCache, Exec, saveRespToCache, loadDump).
THEOREM L2WithinLifetimeCorrect == Spec => []L2WithinLifetime
<1>1. IInv => L2WithinLifetime
  <2> SUFFICES ASSUME IInv PROVE L2WithinLifetime
    OBVIOUS
  <2> QED
    BY DEF IInv, SourcesAlive, Lives, PromotedLives, L2WithinLifetime
<1> QED
  BY <1>1, AlwaysGood, PTL

\* What was stored before a flush that succeeded began is in neither the second
\* level nor the file, and no restart brings it back (cache.go, the flush handler).
THEOREM FlushSticksCorrect == Spec => []FlushSticks
<1>1. IInv => FlushSticks
  BY DEF IInv, FlushReaches, Since, FlushSticks
<1> QED
  BY <1>1, AlwaysGood, PTL
=============================================================================
