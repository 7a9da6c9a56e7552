------------------------------ MODULE L1Shard -------------------------------
(****************************************************************************)
(* A shard of the first level of the cache (plugin/executable/cache,        *)
(* l1Shard): a map of at most ShardMax unpacked answers, whose room is      *)
(* given to new keys by the CLOCK algorithm.  Every operation runs under    *)
(* the lock of the shard, so a shard is a record and an operation an        *)
(* operator on it.                                                          *)
(****************************************************************************)
EXTENDS Integers

CONSTANTS
    Keys,     \* keys whose hash falls in the shard
    ShardMax, \* shardMaxSize
    None

ASSUME ShardAssumption == ShardMax \in Nat \ {0} /\ None \notin Keys

Slots == 0 .. ShardMax - 1

Shards(Entry) ==
    [items : [Keys -> Entry \cup {None}], order : [Slots -> Keys \cup {None}], ref : SUBSET Keys,
     pos : Slots]

EmptyShard ==
    [items |-> [k \in Keys |-> None], order |-> [i \in Slots |-> None], ref |-> {}, pos |-> 0]

\* The slot n places after the hand.
Slot(s, n) == (s.pos + n) % ShardMax

Referenced(s, n) == s.order[Slot(s, n)] \in s.ref

\* The places the hand passes, clearing their marks.  When every slot is marked
\* it comes round to the first one, which it has cleared.
Passed(s) == CHOOSE n \in 0 .. ShardMax :
    /\ \A m \in 0 .. n - 1 : Referenced(s, m)
    /\ n = ShardMax \/ ~ Referenced(s, n)

\* Mutant: the key evicted keeps its item.
InsertLeaks(s, k, e) ==
    LET slot == Slot(s, Passed(s)) IN
    [items |-> [s.items EXCEPT ![k] = e],
     order |-> [s.order EXCEPT ![slot] = k],
     ref   |-> (s.ref \ {s.order[Slot(s, m)] : m \in 0 .. Passed(s)}) \cup {k},
     pos   |-> (slot + 1) % ShardMax]

\* A key the shard does not hold.
Insert(s, k, e) ==
    LET slot == Slot(s, Passed(s)) IN
    [items |-> [j \in Keys |-> IF j = k THEN e
                               ELSE IF j = s.order[slot] THEN None ELSE s.items[j]],
     order |-> [s.order EXCEPT ![slot] = k],
     ref   |-> (s.ref \ {s.order[Slot(s, m)] : m \in 0 .. Passed(s)}) \cup {k},
     pos   |-> (slot + 1) % ShardMax]

\* updateL1.
UpdateL1(s, k, e) ==
    IF s.items[k] # None
    THEN [s EXCEPT !.items[k] = e, !.ref = @ \cup {k}]
    ELSE Insert(s, k, e)

-----------------------------------------------------------------------------
(* The ring of slots and the map agree: every key with an item has exactly  *)
(* one slot, from which it can be evicted, and no slot or mark outlives its *)
(* item.  So the map never grows past ShardMax.                             *)
RingMatchesMap(s) ==
    /\ \A k \in Keys : s.items[k] # None <=> \E i \in Slots : s.order[i] = k
    /\ \A i, j \in Slots : s.order[i] = s.order[j] /\ s.order[i] # None => i = j
    /\ \A k \in s.ref : s.items[k] # None
=============================================================================
