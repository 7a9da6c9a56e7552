---------------------------- MODULE CachePlugin -----------------------------
(****************************************************************************)
(* The cache plugin (plugin/executable/cache) on the map of pkg/cache: two  *)
(* levels, lazy updates in the background, flushes, and a dump file.        *)
(*                                                                          *)
(* Time is in units of which a few matter.  An answer is its kind and its   *)
(* smallest TTL.  The keys share one shard of the first level, and each has *)
(* a shard of pkg/concurrent_map of its own, so one key is a shard there.   *)
(****************************************************************************)
EXTENDS L1Shard, FiniteSets

CONSTANTS
    Calls,      \* queries in Exec at a time; their number is a bound
    Updaters,   \* goroutines of lazy updates at a time; their number is a bound
    Kinds,      \* kinds of answers: some, empty, nx, fail, other
    Ttls,       \* the smallest TTL of an answer
    LazyTtl,    \* lazy_cache_ttl, 0 when lazy caching is off
    NxTtl, FailTtl, EmptyTtl, MinTtl, \* 30 s, 5 s, 300 s and minCacheableTTL
    MinChanges, \* minimumChangesToDump
    MaxLazy,    \* maxConcurrentLazyUpdate
    MaxTime,    \* bound of time
    Budgets     \* bounds: how many queries at a time and exchanges, and how many flushes,
                \* dumps, faults and crashes together, a behaviour has

ASSUME CacheAssumption ==
    /\ Ttls \subseteq Nat /\ {LazyTtl, NxTtl, FailTtl, EmptyTtl, MinTtl, MinChanges, MaxLazy} \subseteq Nat
    /\ Kinds \subseteq {"some", "empty", "nx", "fail", "other"}
    /\ MaxTime \in Nat /\ Budgets \subseteq [calls : Nat, asks : Nat, works : Nat]

\* l1Item, and item with the expiration of its element: the smallest TTL in the
\* message, when it was stored, when the message and the element expire.  For the
\* history: that an entry has been promoted, and until when the answer of an item
\* is good.
Entry == [ttl : Nat, stored : Nat, exp : Nat, promoted : BOOLEAN]
Item == [ttl : Nat, stored : Nat, exp : Nat, keep : Nat, until : Nat]

ASSUME NamesAssumption == Calls \cap Updaters = {} /\ None \notin Entry \cup Item

Workers == Calls \cup Updaters
Dumpers == {"loop", "flush", "save"}

VARIABLES
    now,
    l1,       \* the shard of the first level
    l2,       \* the second level: for each key an item or None
    work,     \* where each query and each lazy update is
    updating, \* keys of lazyUpdateSF
    slots,    \* slots of lazyUpdateLimit in use
    updated,  \* updatedKey
    task,     \* where the dump loop, Flush, and Close or a request to save are
    taken,    \* keyUpdated of the dump loop
    toFlush,  \* shards of the second level that Flush has still to empty
    dump,     \* dumpMu: its holder and what it has written
    file,     \* the entries a load of the dump file gives
    alive,    \* history: until when some answer to each key that was stored is good
    lost,     \* history: a dump has failed since the last good one
    flushed,  \* history: when the last flush that succeeded began
    began,    \* history: when the flush under way began
    left

cacheVars == <<l1, l2>>
dumpVars == <<dump, file, lost>>
loopVars == <<task, taken>>
flushVars == <<toFlush, flushed, began>>
vars == <<now, cacheVars, work, updating, slots, updated, loopVars, dumpVars, alive, flushVars,
          left>>

NoItems == [k \in Keys |-> None]
Idle == [pc |-> "idle"]
Unlocked == [by |-> None]

Init ==
    /\ now = 0
    /\ l1 = EmptyShard /\ l2 = NoItems
    /\ work = [w \in Workers |-> Idle] /\ updating = {} /\ slots = 0
    /\ updated = 0 /\ taken = 0
    /\ task = [d \in Dumpers |-> "out"]
    /\ dump = Unlocked /\ file = NoItems
    /\ alive = [k \in Keys |-> 0] /\ lost = FALSE /\ toFlush = {} /\ flushed = 0 /\ began = 0
    /\ left \in Budgets

Tick ==
    /\ now < MaxTime /\ now' = now + 1
    /\ UNCHANGED <<cacheVars, work, updating, slots, updated, loopVars, dumpVars, alive, flushVars,
                   left>>

Spend(x) == left[x] > 0 /\ left' = [left EXCEPT ![x] = @ - 1]

-----------------------------------------------------------------------------
(* pkg/cache.                                                               *)

Expired(item) == item.keep < now

GetL2(k) == IF l2[k] = None \/ Expired(l2[k]) THEN None ELSE l2[k]

\* Get deletes an expired element after it has given the lock of the shard up.
Purges(k) == l2[k] # None /\ Expired(l2[k])

\* gc, called by gcLoop.
Gc ==
    /\ \E k \in Keys : Purges(k) /\ l2' = [l2 EXCEPT ![k] = None]
    /\ UNCHANGED <<now, l1, work, updating, slots, updated, loopVars, dumpVars, alive, flushVars,
                   left>>

-----------------------------------------------------------------------------
(* Exec.                                                                    *)

\* A hit of the first level changes nothing: it is Exec's return for any key
\* of which this is false.
MissesL1(k) == l1.items[k] # None => now >= l1.items[k].exp

Becomes(w, state) == work' = [work EXCEPT ![w] = state]

Moves(w, p) == Becomes(w, [work[w] EXCEPT !.pc = p])

At(w, p) == work[w].pc = p

Start(c) ==
    /\ At(c, "idle") /\ Cardinality({d \in Calls : ~ At(d, "idle")}) < left.calls
    /\ \E k \in Keys : MissesL1(k) /\ Becomes(c, [pc |-> "look", key |-> k, at |-> now])
    /\ UNCHANGED <<now, cacheVars, updating, slots, updated, loopVars, dumpVars, alive, flushVars,
                   left>>

\* SubtractTTL.
Remaining(item) == IF item.ttl > now - item.stored THEN item.ttl - (now - item.stored) ELSE 1

\* doLazyUpdate: DoChan runs the update of a key once at a time.
DoLazyUpdate(c, k) ==
    \/ /\ k \in updating /\ Becomes(c, Idle)
       /\ UNCHANGED updating
    \/ /\ k \notin updating /\ updating' = updating \cup {k}
       /\ \E u \in Updaters :
            /\ At(u, "idle")
            /\ work' = [work EXCEPT ![c] = Idle, ![u] = [pc |-> "start", key |-> k]]

\* getRespFromCache: an expired answer is served while it is updated, if that is asked for.
LookL2(c) ==
    /\ At(c, "look")
    /\ LET k == work[c].key
           item == GetL2(k)
           serves == item # None /\ (now >= item.exp => LazyTtl > 0)
           miss == [pc |-> "ask", key |-> k, at |-> work[c].at]
       IN \/ /\ ~ serves /\ UNCHANGED updating
             /\ Becomes(c, IF Purges(k) THEN [pc |-> "purge", key |-> k, next |-> miss] ELSE miss)
          \/ /\ serves /\ now < item.exp /\ UNCHANGED updating
             /\ Becomes(c, [pc |-> "again", key |-> k, ttl |-> Remaining(item)])
          \/ /\ serves /\ now >= item.exp /\ DoLazyUpdate(c, k)
    /\ UNCHANGED <<now, cacheVars, slots, updated, loopVars, dumpVars, alive, flushVars, left>>

\* The deletion of Get finds what is stored by then.
Purge(c) ==
    /\ At(c, "purge") /\ l2' = [l2 EXCEPT ![work[c].key] = None]
    /\ Becomes(c, work[c].next)
    /\ UNCHANGED <<now, l1, updating, slots, updated, loopVars, dumpVars, alive, flushVars, left>>

\* Mutant: the expiration of the element is taken for that of the answer.
LookAgainMixed(c) ==
    /\ At(c, "again")
    /\ LET k == work[c].key
           item == GetL2(k)
       IN Becomes(c, IF item # None
                     THEN [pc |-> "promote", key |-> k,
                           entry |-> [ttl |-> work[c].ttl, stored |-> item.stored,
                                      exp |-> item.keep, promoted |-> TRUE]]
                     ELSE IF Purges(k) THEN [pc |-> "purge", key |-> k, next |-> Idle] ELSE Idle)
    /\ UNCHANGED <<now, cacheVars, updating, slots, updated, loopVars, dumpVars, alive, flushVars,
                   left>>

\* The second Get of a hit: the answer of the first one is promoted with its times.
LookAgain(c) ==
    /\ At(c, "again")
    /\ LET k == work[c].key
           item == GetL2(k)
       IN Becomes(c, IF item # None
                     THEN [pc |-> "promote", key |-> k,
                           entry |-> [ttl |-> work[c].ttl, stored |-> item.stored,
                                      exp |-> item.exp, promoted |-> TRUE]]
                     ELSE IF Purges(k) THEN [pc |-> "purge", key |-> k, next |-> Idle] ELSE Idle)
    /\ UNCHANGED <<now, cacheVars, updating, slots, updated, loopVars, dumpVars, alive, flushVars,
                   left>>

Promote(c) ==
    /\ At(c, "promote") /\ l1' = UpdateL1(l1, work[c].key, work[c].entry)
    /\ Becomes(c, Idle)
    /\ UNCHANGED <<now, l2, updating, slots, updated, loopVars, dumpVars, alive, flushVars, left>>

\* Mutant: an update without an answer to keep returns before its defers are set.
DoneAtOnce(w) == IF At(w, "store") THEN [pc |-> "forget", key |-> work[w].key] ELSE Idle

Done(w) == IF w \in Updaters THEN [pc |-> "forget", key |-> work[w].key] ELSE Idle

\* ExecNext: no answer, or one that is excluded, truncated or not to be packed, is not saved.
Ask(w) ==
    /\ At(w, "ask") /\ Spend("asks")
    /\ \/ Becomes(w, Done(w))
       \/ \E kind \in Kinds, ttl \in Ttls :
            Becomes(w, [pc |-> "save", key |-> work[w].key, kind |-> kind, ttl |-> ttl,
                        at |-> IF w \in Updaters THEN None ELSE work[w].at])
    /\ UNCHANGED <<now, cacheVars, updating, slots, updated, loopVars, dumpVars, alive, flushVars>>

AtLeastMin(t) == IF t <= 0 THEN MinTtl ELSE t

\* msgTtl and cacheTtl.
MsgTtl(a) ==
    CASE a.kind = "nx" -> NxTtl
      [] a.kind = "fail" -> FailTtl
      [] a.kind = "empty" /\ a.ttl > EmptyTtl -> EmptyTtl
      [] a.kind = "other" -> 0
      [] OTHER -> a.ttl
CacheTtl(a) == IF a.kind \in {"some", "empty"} /\ LazyTtl > 0 THEN LazyTtl ELSE MsgTtl(a)

Later(s, t) == IF s > t THEN s ELSE t

\* History: how long an answer may be served as fresh once it is stored.  It is
\* recorded once for each answer, whatever expirations the levels are given.
Lifetime(a) ==
    LET seconds == [some |-> a.ttl, empty |-> IF a.ttl < EmptyTtl THEN a.ttl ELSE EmptyTtl,
                    nx |-> NxTtl, fail |-> FailTtl, other |-> MinTtl]
    IN IF seconds[a.kind] > 0 THEN seconds[a.kind] ELSE MinTtl

\* saveRespToCache.
Save(w) ==
    /\ At(w, "save")
    /\ LET a == work[w]
           until == now + Lifetime(a)
           item == [ttl |-> a.ttl, stored |-> now, exp |-> now + AtLeastMin(MsgTtl(a)),
                    keep |-> now + AtLeastMin(CacheTtl(a)), until |-> until]
       IN /\ l2' = [l2 EXCEPT ![a.key] = item]
          /\ alive' = [alive EXCEPT ![a.key] = Later(@, until)]
          /\ Becomes(w, [pc |-> "count", key |-> a.key, ttl |-> a.ttl, at |-> a.at])
    /\ UNCHANGED <<now, l1, updating, slots, updated, loopVars, dumpVars, flushVars, left>>

Count(w) ==
    /\ At(w, "count") /\ updated' = updated + 1
    /\ Moves(w, "store")
    /\ UNCHANGED <<now, cacheVars, updating, slots, loopVars, dumpVars, alive, flushVars, left>>

\* Exec counts from the time it began, a lazy update from now.
StoreL1(w) ==
    /\ At(w, "store")
    /\ LET at == IF w \in Updaters THEN now ELSE work[w].at
           entry == [ttl |-> work[w].ttl, stored |-> at, exp |-> at + work[w].ttl,
                     promoted |-> FALSE]
       IN l1' = UpdateL1(l1, work[w].key, entry)
    /\ Becomes(w, Done(w))
    /\ UNCHANGED <<now, l2, updating, slots, updated, loopVars, dumpVars, alive, flushVars, left>>

-----------------------------------------------------------------------------
(* lazyUpdateFunc, around the exchange.                                     *)

Acquire(u) ==
    /\ At(u, "start")
    /\ \/ /\ slots < MaxLazy /\ slots' = slots + 1
          /\ Moves(u, "ask") /\ UNCHANGED updating
       \/ /\ slots >= MaxLazy /\ updating' = updating \ {work[u].key}
          /\ Becomes(u, Idle) /\ UNCHANGED slots
    /\ UNCHANGED <<now, cacheVars, updated, loopVars, dumpVars, alive, flushVars, left>>

Forget(u) ==
    /\ At(u, "forget") /\ updating' = updating \ {work[u].key}
    /\ Becomes(u, [pc |-> "release"])
    /\ UNCHANGED <<now, cacheVars, slots, updated, loopVars, dumpVars, alive, flushVars, left>>

Release(u) ==
    /\ At(u, "release") /\ slots' = slots - 1
    /\ Becomes(u, Idle)
    /\ UNCHANGED <<now, cacheVars, updating, updated, loopVars, dumpVars, alive, flushVars, left>>

-----------------------------------------------------------------------------
(* Flush, Close, and the dumps.                                             *)

Turns(d, p) == task' = [task EXCEPT ![d] = p]

FlushBegins ==
    /\ task["flush"] = "out" /\ Spend("works")
    /\ Turns("flush", "l2") /\ toFlush' = Keys /\ began' = now
    /\ UNCHANGED <<now, cacheVars, work, updating, slots, updated, taken, dumpVars, alive, flushed>>

FlushL2 ==
    /\ task["flush"] = "l2"
    /\ \E k \in toFlush : l2' = [l2 EXCEPT ![k] = None] /\ toFlush' = toFlush \ {k}
    /\ UNCHANGED <<now, l1, work, updating, slots, updated, loopVars, dumpVars, alive, flushed,
                   began, left>>

FlushL1 ==
    /\ task["flush"] = "l2" /\ toFlush = {}
    /\ l1' = EmptyShard /\ Turns("flush", "count")
    /\ UNCHANGED <<now, l2, work, updating, slots, updated, taken, dumpVars, alive, flushVars, left>>

\* Mutant: an empty cache is not worth a dump.
FlushCountNoDump ==
    /\ task["flush"] = "count" /\ updated' = 0 /\ flushed' = began
    /\ Turns("flush", IF l2 = NoItems THEN "out" ELSE "dump")
    /\ UNCHANGED <<now, cacheVars, work, updating, slots, taken, dumpVars, alive, toFlush, began, left>>

FlushCount ==
    /\ task["flush"] = "count" /\ updated' = 0 /\ Turns("flush", "dump")
    /\ UNCHANGED <<now, cacheVars, work, updating, slots, taken, dumpVars, alive, flushVars, left>>

\* Close, and a request to /save, which is Close without its end.
SaveBegins ==
    /\ task["save"] = "out" /\ Spend("works")
    /\ Turns("save", "dump")
    /\ UNCHANGED <<now, cacheVars, work, updating, slots, updated, taken, dumpVars, alive, flushVars>>

CloseNotify ==
    /\ task["save"] = "saved" /\ Turns("save", "closed")
    /\ UNCHANGED <<now, cacheVars, work, updating, slots, updated, taken, dumpVars, alive, flushVars,
                   left>>

SaveAnswered ==
    /\ task["save"] = "saved" /\ Turns("save", "out")
    /\ UNCHANGED <<now, cacheVars, work, updating, slots, updated, taken, dumpVars, alive, flushVars,
                   left>>

\* startDumpLoop: a case of the select.
LoopTick ==
    /\ task["loop"] = "out" /\ Spend("works")
    /\ taken' = updated /\ updated' = 0 /\ Turns("loop", "check")
    /\ UNCHANGED <<now, cacheVars, work, updating, slots, dumpVars, alive, flushVars>>

LoopCheck ==
    /\ task["loop"] = "check" /\ taken' = 0
    /\ \/ /\ taken < MinChanges /\ updated' = updated + taken
          /\ Turns("loop", "out")
       \/ /\ taken >= MinChanges /\ Turns("loop", "dump")
          /\ UNCHANGED updated
    /\ UNCHANGED <<now, cacheVars, work, updating, slots, dumpVars, alive, flushVars, left>>

LoopExits ==
    /\ task["loop"] = "out" /\ task["save"] = "closed" /\ Turns("loop", "gone")
    /\ UNCHANGED <<now, cacheVars, work, updating, slots, updated, taken, dumpVars, alive, flushVars,
                   left>>

\* dumpCache: the lock, and os.Create, which truncates.
LockDump(d) ==
    /\ task[d] = "dump" /\ dump = Unlocked
    /\ dump' = [by |-> d, at |-> now, todo |-> Keys, seen |-> NoItems]
    /\ file' = NoItems
    /\ UNCHANGED <<now, cacheVars, work, updating, slots, updated, loopVars, lost, alive, flushVars,
                   left>>

\* writeDump ranges over the shards of the second level.
DumpShard ==
    /\ dump # Unlocked
    /\ \E k \in dump.todo :
         dump' = [dump EXCEPT !.todo = @ \ {k},
                              !.seen[k] = IF l2[k] # None /\ l2[k].keep >= dump.at THEN l2[k]
                                          ELSE None]
    /\ UNCHANGED <<now, cacheVars, work, updating, slots, updated, loopVars, file, lost, alive,
                   flushVars, left>>

\* What a load finds in a dump that was not finished.
Part(seen, part) == [k \in Keys |-> IF k \in part THEN seen[k] ELSE None]

DumpReturns(d) ==
    /\ dump' = Unlocked
    /\ Turns(d, IF d = "save" THEN "saved" ELSE "out")

\* Mutant: the changes are counted anew from the end of a dump.
DumpEndsResets ==
    /\ dump # Unlocked /\ dump.todo = {}
    /\ file' = dump.seen /\ lost' = FALSE /\ DumpReturns(dump.by)
    /\ flushed' = IF dump.by = "flush" THEN began ELSE flushed
    /\ updated' = 0
    /\ UNCHANGED <<now, cacheVars, work, updating, slots, taken, alive, toFlush, began, left>>

DumpEnds ==
    /\ dump # Unlocked /\ dump.todo = {}
    /\ file' = dump.seen /\ lost' = FALSE /\ DumpReturns(dump.by)
    /\ flushed' = IF dump.by = "flush" THEN began ELSE flushed
    /\ UNCHANGED <<now, cacheVars, work, updating, slots, updated, taken, alive, toFlush, began, left>>

\* A write fails.  The update count taken is gone.
DumpFails ==
    /\ dump # Unlocked /\ Spend("works")
    /\ \E part \in SUBSET Keys : file' = Part(dump.seen, part)
    /\ lost' = TRUE /\ DumpReturns(dump.by)
    /\ UNCHANGED <<now, cacheVars, work, updating, slots, updated, taken, alive, flushVars>>

\* A crash, or the exit of the process; loadDump in the next one.
Restart ==
    /\ Spend("works")
    /\ \E part \in SUBSET Keys :
         /\ file' = IF dump = Unlocked THEN file ELSE Part(dump.seen, part)
         /\ l2' = [k \in Keys |-> IF file'[k] # None /\ file'[k].keep >= now THEN file'[k]
                                   ELSE None]
    /\ l1' = EmptyShard /\ lost' = FALSE
    /\ work' = [w \in Workers |-> Idle] /\ updating' = {} /\ slots' = 0
    /\ updated' = 0 /\ taken' = 0 /\ toFlush' = {} /\ dump' = Unlocked
    /\ task' = [d \in Dumpers |-> "out"]
    /\ UNCHANGED <<now, alive, flushed, began>>

Exec(c) ==
    Start(c) \/ LookL2(c) \/ Purge(c) \/ LookAgain(c) \/ Promote(c)

Update(u) == Acquire(u) \/ Forget(u) \/ Release(u)

Keep(w) == Ask(w) \/ Save(w) \/ Count(w) \/ StoreL1(w)

Dumping == (\E d \in Dumpers : LockDump(d)) \/ DumpShard \/ DumpEnds \/ DumpFails

Next ==
    \/ Tick \/ Gc
    \/ \E c \in Calls : Exec(c)
    \/ \E u \in Updaters : Update(u)
    \/ \E w \in Workers : Keep(w)
    \/ FlushBegins \/ FlushL2 \/ FlushL1 \/ FlushCount
    \/ SaveBegins \/ CloseNotify \/ SaveAnswered
    \/ LoopTick \/ LoopCheck \/ LoopExits \/ Dumping
    \/ Restart

Spec == Init /\ [][Next]_vars

-----------------------------------------------------------------------------
\* Types, and the two semaphores: slots in use and keys in the group are those
\* of the updates that run, one for a key (cache.go:471-479).
TypeOK ==
    /\ now \in Nat /\ updated \in Nat /\ taken \in Nat
    /\ l1 \in Shards(Entry) /\ {l2, file} \subseteq [Keys -> Item \cup {None}]
    /\ slots = Cardinality({u \in Updaters : work[u].pc \notin {"idle", "start"}}) /\ slots <= MaxLazy
    /\ updating = {work[u].key : u \in {v \in Updaters : work[v].pc \notin {"idle", "release"}}}
    /\ \A u, v \in Updaters : u # v /\ {work[u].pc, work[v].pc} \cap {"idle", "release"} = {}
                                => work[u].key # work[v].key
    /\ toFlush \subseteq Keys /\ lost \in BOOLEAN /\ {flushed, began} \subseteq 0 .. now

\* updateL1's ring never loses track of a key: see RingMatchesMap.
RingIsSound == RingMatchesMap(l1)

\* The second level serves no answer as fresh past the lifetime that
\* saveRespToCache's rule gives that very answer, also after a dump and a
\* restart; and what the first level has from it by a promotion, whose two
\* lookups another query or update may come between, is not served as fresh
\* past the lifetime of every answer to its key (cache.go:435-440, :1072, :1091-1128).
\* What Exec and the lazy update store in the first level expires by another rule
\* (cache.go:461, :508), and that one does go past the lifetime.
L2WithinLifetime ==
    \A k \in Keys :
        /\ l2[k] # None => l2[k].exp <= l2[k].until
        /\ l1.items[k] # None /\ l1.items[k].promoted => l1.items[k].exp <= alive[k]

Unsaved == {k \in Keys : l2[k] # None /\ ~ Expired(l2[k]) /\ l2[k] # file[k]}

\* An answer that is not in the file is counted in updatedKey, so that the dump
\* loop comes to it, unless a dump has failed since (cache.go:451, :558-563).
UnsavedIsCounted ==
    dump = Unlocked /\ task["loop"] = "out" /\ task["flush"] = "out" /\ ~ lost
        => Cardinality(Unsaved) <= updated + Cardinality({w \in Workers : At(w, "count")})

\* Once a flush has succeeded, what was stored before it began is in neither
\* the second level nor the file, so no restart brings it back (cache.go:736-757).
FlushSticks ==
    \A k \in Keys :
        /\ l2[k] # None => l2[k].stored >= flushed
        /\ file[k] # None => file[k].stored >= flushed

\* The first level holds messages as upstreams gave them: an age subtracted from
\* a TTL does not reach the cache (cache.go:399).
TtlNotPolluted == \A k \in Keys : l1.items[k] # None => l1.items[k].ttl \in Ttls
=============================================================================
