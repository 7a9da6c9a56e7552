------------------------- MODULE QueryPath_proofs --------------------------
(* A theorem about QueryPath, for every set of configurations: programs of *)
(* any size and nesting, any number of queries, races and fallbacks.  The   *)
(* invariant is that a goroutine runs, keeps on its stack and jumps back to *)
(* walkers it has made itself.  It fails behind a jump into prefer_ipv4,    *)
(* whose two goroutines get copies that jump back to the same walker, so    *)
(* NoPreferBehindJump is assumed of the configuration.                      *)
EXTENDS QueryPath, FiniteSetTheorems, WellFoundedInduction, TLAPS

Fields == {"pc", "stack", "q", "err", "left", "first", "heard"}
WalkerFields == {"seq", "p", "back"}

\* The walkers in a heap that g has made.
Owned(h, g) == {c \in DOMAIN h : c[1] = g}
Fresh(h, g) == <<g, Cardinality(Owned(h, g)) + 1>>

RulesOf(c, tag) == c.plugins[tag].rules

\* The sequences that some rule jumps to.
JumpedTo(c) ==
    {t \in SequencesOf(c) : \E s \in SequencesOf(c) : \E i \in 1 .. Len(RulesOf(c, s)) :
        RulesOf(c, s)[i].exec = "jump" /\ RulesOf(c, s)[i].to = t}

\* prefer_ipv4 is no rule of a sequence that another one jumps to.
NoPreferBehindJump(c) ==
    \A t \in JumpedTo(c) : \A i \in 1 .. Len(RulesOf(c, t)) : RulesOf(c, t)[i].exec # "prefer"

\* w runs a sequence, and jumps back to an older walker of g, if at all.
WalkerGood(c, h, g, n, w) ==
    /\ DOMAIN w = WalkerFields
    /\ w.seq \in SequencesOf(c)
    /\ w.p \in Nat \ {0}
    /\ w.back # NoCell => /\ w.back \in Owned(h, g) /\ w.back[2] < n
                          /\ w.seq \in JumpedTo(c)

CellsGood(c, h) ==
    /\ IsFiniteSet(DOMAIN h)
    /\ \A x \in DOMAIN h : /\ x = <<x[1], x[2]>>
                           /\ x[2] \in 1 .. Cardinality(Owned(h, x[1]))
                           /\ WalkerGood(c, h, x[1], x[2], h[x])

Frames(h, g) == [cell : Owned(h, g), node : Nat, then : {None, "exec", "try", "prefer"}]

\* A goroutine runs walkers that it has made itself.
Stacked(c, h, g, r) ==
    /\ DOMAIN r = Fields
    /\ r.stack \in Seq(Frames(h, g)) /\ r.stack # <<>>
    /\ r.pc = "run" => Last(r.stack).node \in 1 .. Len(RulesOf(c, h[Last(r.stack).cell].seq))

Roles == {"primary", "secondary", "reference", "original"}
Names(c) == Seq(DOMAIN c.queries \cup Roles) \ {<<>>}

\* A child has a name that is not in use, as its parent starts others once.
IInv ==
    /\ config \in Configs
    /\ CellsGood(config, heap)
    /\ \A x \in DOMAIN heap : x[1] \in DOMAIN go
    /\ \A g \in DOMAIN go : Stacked(config, heap, g, go[g])
    /\ \A g \in DOMAIN go : g \in Names(config) /\ (Len(g) > 1 => Parent(g) \in DOMAIN chan)

\* Walkers are added and moved, and stay in their sequences.
Grown(h1, h2) ==
    DOMAIN h1 \subseteq DOMAIN h2 /\ \A x \in DOMAIN h1 : h2[x].seq = h1[x].seq

-----------------------------------------------------------------------------
(* Helpers.                                                                 *)

LEMMA OwnedFinite ==
    ASSUME NEW h, IsFiniteSet(DOMAIN h), NEW g
    PROVE  IsFiniteSet(Owned(h, g)) /\ Cardinality(Owned(h, g)) \in Nat
<1>1. Owned(h, g) \subseteq DOMAIN h
  BY DEF Owned
<1> QED
  BY <1>1, FS_Subset, FS_CardinalityType

\* A walker that g makes gets a cell that was not there.
LEMMA AddCell ==
    ASSUME NEW c, NEW h, CellsGood(c, h), NEW g, NEW w, NEW x, x = Fresh(h, g),
           WalkerGood(c, h, g, x[2], w)
    PROVE  /\ CellsGood(c, Extend(h, x, w)) /\ Grown(h, Extend(h, x, w))
           /\ x \notin DOMAIN h /\ x \in Owned(Extend(h, x, w), g)
           /\ Cardinality(Owned(Extend(h, x, w), g)) = Cardinality(Owned(h, g)) + 1
           /\ \A k : k # g => Owned(Extend(h, x, w), k) = Owned(h, k)
<1> DEFINE e == Extend(h, x, w)
           n == Cardinality(Owned(h, g))
<1>1. IsFiniteSet(DOMAIN h) /\ IsFiniteSet(Owned(h, g)) /\ n \in Nat
  BY OwnedFinite DEF CellsGood
<1>2. x = <<g, n + 1>> /\ x[1] = g /\ x[2] = n + 1
  BY DEF Fresh
<1>3. x \notin DOMAIN h
  BY <1>1, <1>2 DEF CellsGood
<1>4. DOMAIN e = {x} \cup DOMAIN h /\ e[x] = w /\ \A y \in DOMAIN h : e[y] = h[y]
  <2>1. /\ DOMAIN e = {x} \cup DOMAIN h /\ e[x] = w
        /\ \A y \in DOMAIN h : y # x => e[y] = h[y]
    BY DEF Extend
  <2> HIDE DEF e
  <2> QED
    BY <1>3, <2>1
<1> HIDE DEF e
<1>5. Owned(e, g) = Owned(h, g) \cup {x}
  BY <1>2, <1>4 DEF Owned
<1>6. \A k : k # g => Owned(e, k) = Owned(h, k)
  BY <1>2, <1>4 DEF Owned
<1>7. Cardinality(Owned(e, g)) = n + 1
  BY <1>1, <1>3, <1>5, FS_AddElement DEF Owned
<1>8. IsFiniteSet(DOMAIN e)
  BY <1>1, <1>4, FS_AddElement
<1>9. ASSUME NEW y \in DOMAIN e
      PROVE  /\ y = <<y[1], y[2]>> /\ y[2] \in 1 .. Cardinality(Owned(e, y[1]))
             /\ WalkerGood(c, e, y[1], y[2], e[y])
  <2>1. \A k : Owned(h, k) \subseteq Owned(e, k)
    BY <1>5, <1>6
  <2>2. CASE y = x
    <3>1. y = <<y[1], y[2]>> /\ y[1] = g /\ y[2] = n + 1
      BY <1>2, <2>2
    <3>2. y[2] \in 1 .. Cardinality(Owned(e, y[1]))
      BY <1>1, <1>7, <3>1
    <3>3. WalkerGood(c, e, g, x[2], w)
      BY <2>1 DEF WalkerGood
    <3> QED
      BY <1>2, <1>4, <2>2, <3>1, <3>2, <3>3
  <2>3. CASE y # x
    <3>1. y \in DOMAIN h /\ e[y] = h[y]
      BY <1>4, <2>3
    <3>2. /\ y = <<y[1], y[2]>> /\ y[2] \in 1 .. Cardinality(Owned(h, y[1]))
          /\ WalkerGood(c, h, y[1], y[2], h[y])
      BY <3>1 DEF CellsGood
    <3>3. WalkerGood(c, e, y[1], y[2], e[y])
      BY <2>1, <3>1, <3>2 DEF WalkerGood
    <3>4. y[2] \in 1 .. Cardinality(Owned(e, y[1]))
      <4>1. CASE y[1] = g
        BY <1>1, <1>7, <3>2, <4>1
      <4>2. CASE y[1] # g
        BY <1>6, <3>2, <4>2
      <4> QED
        BY <4>1, <4>2
    <3> QED
      BY <3>2, <3>3, <3>4
  <2> QED
    BY <2>2, <2>3
<1>10. CellsGood(c, e)
  BY <1>8, <1>9 DEF CellsGood
<1>11. Grown(h, e)
  BY <1>4 DEF Grown
<1>12. x \in Owned(e, g)
  BY <1>5
<1> QED
  BY <1>3, <1>6, <1>7, <1>10, <1>11, <1>12 DEF e

\* A walker that moves stays what it is.
LEMMA MoveCell ==
    ASSUME NEW c, NEW h, CellsGood(c, h), NEW x \in DOMAIN h, NEW p \in Nat \ {0}
    PROVE  /\ CellsGood(c, [h EXCEPT ![x].p = p]) /\ Grown(h, [h EXCEPT ![x].p = p])
           /\ DOMAIN [h EXCEPT ![x].p = p] = DOMAIN h
<1> DEFINE e == [h EXCEPT ![x].p = p]
<1>1. DOMAIN e = DOMAIN h /\ \A y \in DOMAIN h : e[y] = IF y = x THEN [h[x] EXCEPT !.p = p] ELSE h[y]
  OBVIOUS
<1> HIDE DEF e
<1>2. \A y \in DOMAIN h : DOMAIN h[y] = WalkerFields
  BY DEF CellsGood, WalkerGood
<1>3. \A y \in DOMAIN h : /\ DOMAIN e[y] = WalkerFields /\ e[y].seq = h[y].seq
                          /\ e[y].back = h[y].back /\ (e[y].p = h[y].p \/ e[y].p = p)
  BY <1>1, <1>2 DEF WalkerFields
<1>4. \A k : Owned(e, k) = Owned(h, k)
  BY <1>1 DEF Owned
<1>5. \A y \in DOMAIN h : WalkerGood(c, h, y[1], y[2], h[y])
  BY DEF CellsGood
<1>6. \A y \in DOMAIN h : WalkerGood(c, e, y[1], y[2], e[y])
  BY <1>3, <1>4, <1>5 DEF WalkerGood
<1>7. CellsGood(c, e)
  BY <1>1, <1>4, <1>6 DEF CellsGood
<1>8. Grown(h, e)
  BY <1>1, <1>3 DEF Grown
<1> QED
  BY <1>1, <1>7, <1>8 DEF e

LEMMA FramesGrow ==
    ASSUME NEW h, NEW e, Grown(h, e), NEW g
    PROVE  Owned(h, g) \subseteq Owned(e, g) /\ Frames(h, g) \subseteq Frames(e, g)
<1>1. Owned(h, g) \subseteq Owned(e, g)
  BY DEF Owned, Grown
<1> QED
  BY <1>1 DEF Frames

LEMMA TopIsFrame ==
    ASSUME NEW S, NEW s \in Seq(S), s # <<>>
    PROVE  /\ Last(s) \in S /\ Front(s) \in Seq(S) /\ Len(s) \in Nat \ {0}
           /\ Len(Front(s)) = Len(s) - 1
           /\ \A f \in S : Append(Front(s), f) \in Seq(S) /\ Append(Front(s), f) # <<>>
                           /\ Last(Append(Front(s), f)) = f
<1>1. Len(s) \in Nat \ {0} /\ Last(s) \in S
  BY DEF Last
<1>2. Front(s) \in Seq(S) /\ Len(Front(s)) = Len(s) - 1
  BY <1>1 DEF Front
<1>3. ASSUME NEW f \in S
      PROVE  /\ Append(Front(s), f) \in Seq(S) /\ Append(Front(s), f) # <<>>
             /\ Last(Append(Front(s), f)) = f
  BY <1>1, <1>2 DEF Last
<1> QED
  BY <1>1, <1>2, <1>3

LEMMA StackedGrows ==
    ASSUME NEW c, NEW h, NEW e, Grown(h, e), NEW g, NEW r, Stacked(c, h, g, r)
    PROVE  Stacked(c, e, g, r)
<1>1. Frames(h, g) \subseteq Frames(e, g)
  BY FramesGrow
<1>2. Last(r.stack) \in Frames(h, g)
  BY TopIsFrame DEF Stacked
<1>3. Last(r.stack).cell \in DOMAIN h
  BY <1>2 DEF Frames, Owned
<1>4. e[Last(r.stack).cell].seq = h[Last(r.stack).cell].seq
  BY <1>3 DEF Grown
<1>5. r.stack \in Seq(Frames(e, g))
  BY <1>1 DEF Stacked
<1> QED
  BY <1>4, <1>5 DEF Stacked

LEMMA ChildIs ==
    ASSUME NEW S, NEW g \in Seq(S), NEW x \in S
    PROVE  /\ Child(g, x) \in Seq(S) /\ Len(Child(g, x)) = Len(g) + 1
           /\ Parent(Child(g, x)) = g /\ Last(Child(g, x)) = x /\ Child(g, x) # g
BY DEF Child, Parent, Front, Last

-----------------------------------------------------------------------------
(* Steps.                                                                   *)

\* A step adds walkers and goroutines, and changes the goroutines it changes
\* into what a goroutine may be.
LEMMA StepKeeps ==
    ASSUME IInv, config' = config, CellsGood(config, heap'), Grown(heap, heap'),
           DOMAIN chan \subseteq DOMAIN chan', DOMAIN go \subseteq DOMAIN go',
           \A x \in DOMAIN heap' : x \in DOMAIN heap \/ x[1] \in DOMAIN go',
           \A k \in DOMAIN go' :
              \/ k \in DOMAIN go /\ go'[k] = go[k]
              \/ /\ Stacked(config, heap', k, go'[k])
                 /\ k \notin DOMAIN go =>
                       k \in Names(config) /\ (Len(k) > 1 => Parent(k) \in DOMAIN chan')
    PROVE  IInv'
<1>1. \A x \in DOMAIN heap' : x[1] \in DOMAIN go'
  BY DEF IInv
<1>2. ASSUME NEW k \in DOMAIN go'
      PROVE  Stacked(config', heap', k, go'[k])
  <2>1. CASE k \in DOMAIN go /\ go'[k] = go[k]
    <3>1. Stacked(config, heap, k, go[k])
      BY <2>1 DEF IInv
    <3> QED
      BY <2>1, <3>1, StackedGrows
  <2> QED
    BY <2>1
<1>3. ASSUME NEW k \in DOMAIN go'
      PROVE  k \in Names(config') /\ (Len(k) > 1 => Parent(k) \in DOMAIN chan')
  BY DEF IInv
<1> QED
  BY <1>1, <1>2, <1>3 DEF IInv

\* A goroutine goes on, and may make walkers.
LEMMA GoesOn ==
    ASSUME IInv, NEW g \in DOMAIN go, NEW r, Becomes(g, r), config' = config,
           CellsGood(config, heap'), Grown(heap, heap'),
           \A x \in DOMAIN heap' : x \in DOMAIN heap \/ x[1] = g,
           DOMAIN chan \subseteq DOMAIN chan', Stacked(config, heap', g, r)
    PROVE  IInv'
<1>1. DOMAIN go' = DOMAIN go /\ \A k \in DOMAIN go : go'[k] = IF k = g THEN r ELSE go[k]
  BY DEF Becomes
<1>2. \A x \in DOMAIN heap' : x \in DOMAIN heap \/ x[1] \in DOMAIN go'
  BY <1>1
<1>3. \A k \in DOMAIN go' :
         \/ k \in DOMAIN go /\ go'[k] = go[k]
         \/ /\ Stacked(config, heap', k, go'[k])
            /\ k \notin DOMAIN go =>
                  k \in Names(config) /\ (Len(k) > 1 => Parent(k) \in DOMAIN chan')
  BY <1>1
<1>4. DOMAIN go \subseteq DOMAIN go'
  BY <1>1
<1> QED
  BY <1>2, <1>3, <1>4, StepKeeps, Zenon

LEMMA SameHeap ==
    ASSUME IInv, heap' = heap
    PROVE  CellsGood(config, heap') /\ Grown(heap, heap') /\ DOMAIN heap' = DOMAIN heap
BY DEF IInv, Grown

\* Its stack stays as it is.
LEMMA StackStays ==
    ASSUME IInv, NEW g \in DOMAIN go, NEW r, Becomes(g, r), config' = config, heap' = heap,
           DOMAIN chan \subseteq DOMAIN chan',
           DOMAIN r = Fields, r.stack = go[g].stack, r.pc # "run"
    PROVE  IInv'
<1>1. Stacked(config, heap, g, go[g])
  BY DEF IInv
<1>2. Stacked(config, heap, g, r)
  BY <1>1 DEF Stacked
<1> QED
  BY <1>2, SameHeap, GoesOn

LEMMA TopGood ==
    ASSUME IInv, NEW g \in DOMAIN go
    PROVE  /\ Top(g) \in Frames(heap, g) /\ Top(g).cell \in Owned(heap, g)
           /\ Top(g).node \in Nat /\ DOMAIN go[g] = Fields
           /\ Stacked(config, heap, g, go[g])
           /\ WalkerGood(config, heap, g, Cardinality(Owned(heap, g)) + 1, WalkerOf(g))
<1>1. Stacked(config, heap, g, go[g])
  BY DEF IInv
<1>2. Top(g) \in Frames(heap, g)
  BY <1>1, TopIsFrame DEF Stacked, Top
<1>3. Top(g).cell \in Owned(heap, g) /\ Top(g).node \in Nat
  BY <1>2 DEF Frames
<1> DEFINE x == Top(g).cell
<1>4. x \in DOMAIN heap /\ x[1] = g
  BY <1>3 DEF Owned
<1>5. WalkerGood(config, heap, g, x[2], WalkerOf(g)) /\ x[2] \in 1 .. Cardinality(Owned(heap, g))
  BY <1>4 DEF IInv, CellsGood, WalkerOf
<1>6. Cardinality(Owned(heap, g)) \in Nat
  BY OwnedFinite DEF IInv, CellsGood
<1>7. WalkerOf(g).back # NoCell =>
         WalkerOf(g).back \in Owned(heap, g) /\ WalkerOf(g).back[2] < x[2]
  BY <1>5 DEF WalkerGood
<1>8. \A y \in Owned(heap, g) : y[2] \in Nat
  <2>1. \A y \in Owned(heap, g) : y \in DOMAIN heap /\ y[1] = g
    BY DEF Owned
  <2> QED
    BY <1>6, <2>1 DEF IInv, CellsGood
<1>9. WalkerOf(g).back # NoCell => WalkerOf(g).back[2] < Cardinality(Owned(heap, g)) + 1
  BY <1>5, <1>6, <1>7, <1>8
<1>10. WalkerGood(config, heap, g, Cardinality(Owned(heap, g)) + 1, WalkerOf(g))
  BY <1>5, <1>9 DEF WalkerGood
<1> QED
  BY <1>1, <1>2, <1>3, <1>10 DEF Stacked

LEMMA FrameGood ==
    ASSUME NEW h, NEW g, NEW x \in Owned(h, g), NEW f \in Frames(h, g), NEW n \in Nat,
           NEW t \in {None, "exec", "try", "prefer"}
    PROVE  /\ Frame(x) \in Frames(h, g) /\ [f EXCEPT !.node = n] \in Frames(h, g)
           /\ [f EXCEPT !.then = t] \in Frames(h, g)
           /\ [Frame(x) EXCEPT !.then = t] \in Frames(h, g)
           /\ [f EXCEPT !.node = n].node = n /\ [f EXCEPT !.node = n].cell = f.cell
BY DEF Frame, Frames

LEMMA SetTopStacked ==
    ASSUME NEW c, NEW h, NEW g, NEW r, Stacked(c, h, g, r), NEW f \in Frames(h, g),
           NEW q, DOMAIN q = Fields, q.stack = Append(Front(r.stack), f),
           q.pc = "run" => f.node \in 1 .. Len(RulesOf(c, h[f.cell].seq))
    PROVE  Stacked(c, h, g, q)
<1>1. /\ Append(Front(r.stack), f) \in Seq(Frames(h, g))
      /\ Append(Front(r.stack), f) # <<>> /\ Last(Append(Front(r.stack), f)) = f
  BY TopIsFrame DEF Stacked
<1> QED
  BY <1>1 DEF Stacked

LEMMA PushStacked ==
    ASSUME NEW c, NEW h, NEW g, NEW r, Stacked(c, h, g, r), NEW f \in Frames(h, g),
           NEW top \in Frames(h, g), NEW q, DOMAIN q = Fields,
           q.stack = Append(Front(r.stack), f) \o <<top>>, q.pc # "run"
    PROVE  Stacked(c, h, g, q)
<1>1. Append(Front(r.stack), f) \in Seq(Frames(h, g))
  BY TopIsFrame DEF Stacked
<1>2. q.stack \in Seq(Frames(h, g)) /\ Len(q.stack) > 0
  BY <1>1
<1> QED
  BY <1>2 DEF Stacked

LEMMA PopStacked ==
    ASSUME NEW c, NEW h, NEW g, NEW r, Stacked(c, h, g, r), Len(r.stack) > 1,
           NEW q, DOMAIN q = Fields, q.stack = Front(r.stack), q.pc # "run"
    PROVE  Stacked(c, h, g, q)
<1>1. Front(r.stack) \in Seq(Frames(h, g)) /\ Len(Front(r.stack)) = Len(r.stack) - 1
      /\ Len(r.stack) \in Nat
  BY TopIsFrame DEF Stacked
<1>2. Front(r.stack) # <<>>
  BY <1>1
<1> QED
  BY <1>1, <1>2 DEF Stacked
-----------------------------------------------------------------------------
(* The head of the loop.                                                    *)

LEMMA Positioned ==
    ASSUME IInv, NEW g \in DOMAIN go, LoopHead(g)
    PROVE  /\ CellsGood(config, heap') /\ Grown(heap, heap') /\ DOMAIN heap' = DOMAIN heap
           /\ Position(g) \in Nat \ {0} /\ config' = config /\ chan' = chan
           /\ Stacked(config, heap', g, go[g]) /\ DOMAIN go[g] = Fields
           /\ Top(g) \in Frames(heap', g)
           /\ WalkerOf(g).back # NoCell => Frame(WalkerOf(g).back) \in Frames(heap', g)
           /\ RulesOf(config, heap'[Top(g).cell].seq) = Rules(g)
           /\ WalkerOf(g).seq \in SequencesOf(config)
<1>1. /\ Top(g) \in Frames(heap, g) /\ Top(g).cell \in Owned(heap, g) /\ Top(g).node \in Nat
      /\ DOMAIN go[g] = Fields /\ Stacked(config, heap, g, go[g])
      /\ WalkerGood(config, heap, g, Cardinality(Owned(heap, g)) + 1, WalkerOf(g))
  BY TopGood
<1>2. Top(g).cell \in DOMAIN heap /\ CellsGood(config, heap)
  BY <1>1 DEF Owned, IInv
<1>3. Position(g) \in Nat \ {0}
  BY <1>1 DEF Position, WalkerGood
<1>4. config' = config /\ chan' = chan /\ heap' = [heap EXCEPT ![Top(g).cell].p = Position(g)]
  BY DEF LoopHead, others
<1>5. CellsGood(config, heap') /\ Grown(heap, heap') /\ DOMAIN heap' = DOMAIN heap
  BY <1>2, <1>3, <1>4, MoveCell
<1>6. Owned(heap, g) \subseteq Owned(heap', g) /\ Frames(heap, g) \subseteq Frames(heap', g)
  BY <1>5, FramesGrow
<1>7. Stacked(config, heap', g, go[g])
  BY <1>1, <1>5, StackedGrows
<1>8. WalkerOf(g).back # NoCell => Frame(WalkerOf(g).back) \in Frames(heap', g)
  <2>1. WalkerOf(g).back # NoCell => WalkerOf(g).back \in Owned(heap', g)
    BY <1>1, <1>6 DEF WalkerGood
  <2> QED
    BY <2>1 DEF Frames, Frame
<1>9. heap'[Top(g).cell].seq = WalkerOf(g).seq
  BY <1>2, <1>5 DEF Grown, WalkerOf
<1>10. RulesOf(config, heap'[Top(g).cell].seq) = Rules(g)
  BY <1>9 DEF Rules, RulesOf, Plugin
<1>11. WalkerOf(g).seq \in SequencesOf(config)
  BY <1>1 DEF WalkerGood
<1> QED
  BY <1>1, <1>3, <1>4, <1>5, <1>6, <1>7, <1>8, <1>10, <1>11

\* What Back, JumpBack and Done make of a goroutine.
LEMMA BackIs ==
    ASSUME NEW r, DOMAIN r = Fields, NEW e
    PROVE  DOMAIN Back(r, e) = Fields /\ Back(r, e).stack = r.stack /\ Back(r, e).pc = "back"
BY DEF Back, Fields

LEMMA SetTopIs ==
    ASSUME NEW r, DOMAIN r = Fields, NEW f
    PROVE  /\ DOMAIN SetTop(r, f) = Fields /\ SetTop(r, f).stack = Append(Front(r.stack), f)
           /\ SetTop(r, f).pc = r.pc
BY DEF SetTop, Fields

LEMMA JumpBackStacked ==
    ASSUME NEW h, NEW g, NEW r, Stacked(config, h, g, r), NEW w,
           w.back # NoCell => Frame(w.back) \in Frames(h, g)
    PROVE  Stacked(config, h, g, JumpBack(r, w))
<1>1. DOMAIN r = Fields
  BY DEF Stacked
<1>2. CASE w.back = NoCell
  <2>1. JumpBack(r, w) = Back(r, None)
    BY <1>2 DEF JumpBack
  <2>2. /\ DOMAIN Back(r, None) = Fields /\ Back(r, None).stack = r.stack
        /\ Back(r, None).pc = "back"
    BY <1>1, BackIs
  <2> QED
    BY <2>1, <2>2 DEF Stacked
<1>3. CASE w.back # NoCell
  <2> DEFINE q == [r EXCEPT !.pc = "loop"]
             f == Frame(w.back)
  <2>1. DOMAIN q = Fields /\ q.stack = r.stack /\ q.pc = "loop"
    BY <1>1 DEF Fields
  <2>2. JumpBack(r, w) = SetTop(q, f)
    BY <1>3 DEF JumpBack
  <2> HIDE DEF q, f
  <2>3. /\ DOMAIN SetTop(q, f) = Fields /\ SetTop(q, f).stack = Append(Front(r.stack), f)
        /\ SetTop(q, f).pc = "loop"
    BY <2>1, SetTopIs
  <2>4. f \in Frames(h, g)
    BY <1>3 DEF f
  <2>5. SetTop(q, f).pc # "run"
    BY <2>3
  <2> QED
    BY <2>2, <2>3, <2>4, <2>5, SetTopStacked
<1> QED
  BY <1>2, <1>3

LEMMA RuleMatchesKeeps == ASSUME IInv, NEW g \in DOMAIN go, RuleMatches(g) PROVE IInv'
<1> DEFINE q == [go[g] EXCEPT !.pc = "run"]
           f == [Top(g) EXCEPT !.node = Position(g)]
<1>1. LoopHead(g) /\ Becomes(g, SetTop(q, f)) /\ Position(g) <= Len(Rules(g))
  BY DEF RuleMatches
<1>2. /\ CellsGood(config, heap') /\ Grown(heap, heap') /\ DOMAIN heap' = DOMAIN heap
      /\ Position(g) \in Nat \ {0} /\ config' = config /\ chan' = chan
      /\ Stacked(config, heap', g, go[g]) /\ DOMAIN go[g] = Fields
      /\ Top(g) \in Frames(heap', g)
      /\ RulesOf(config, heap'[Top(g).cell].seq) = Rules(g)
      /\ WalkerOf(g).seq \in SequencesOf(config)
  BY <1>1, Positioned
<1>3. DOMAIN q = Fields /\ q.stack = go[g].stack /\ q.pc = "run"
  BY <1>2 DEF Fields
<1>4. f \in Frames(heap', g) /\ f.cell = Top(g).cell /\ f.node = Position(g)
  BY <1>2 DEF Frames
<1> HIDE DEF q, f
<1>5. DOMAIN SetTop(q, f) = Fields /\ SetTop(q, f).stack = Append(Front(go[g].stack), f)
  BY <1>3, SetTopIs
<1>6. Len(Rules(g)) \in Nat
  <2>1. Rules(g) \in Seq([when : STRING, exec : STRING, to : STRING])
    BY <1>2, ConfigsTyped DEF IInv, Rules, Plugin
  <2> QED
    BY <2>1
<1>7. f.node \in 1 .. Len(RulesOf(config, heap'[f.cell].seq))
  BY <1>1, <1>2, <1>4, <1>6
<1>8. Stacked(config, heap', g, SetTop(q, f))
  BY <1>2, <1>4, <1>5, <1>7, SetTopStacked
<1>9. DOMAIN chan \subseteq DOMAIN chan'
  BY <1>2
<1> QED
  BY <1>1, <1>2, <1>8, <1>9, GoesOn

LEMMA RuleIsSkippedKeeps == ASSUME IInv, NEW g \in DOMAIN go, RuleIsSkipped(g) PROVE IInv'
<1> DEFINE q == [go[g] EXCEPT !.pc = "next"]
           f == [Top(g) EXCEPT !.node = Position(g)]
<1>1. LoopHead(g) /\ Becomes(g, SetTop(q, f))
  BY DEF RuleIsSkipped
<1>2. /\ CellsGood(config, heap') /\ Grown(heap, heap') /\ DOMAIN heap' = DOMAIN heap
      /\ Position(g) \in Nat \ {0} /\ config' = config /\ chan' = chan
      /\ Stacked(config, heap', g, go[g]) /\ DOMAIN go[g] = Fields
      /\ Top(g) \in Frames(heap', g)
  BY <1>1, Positioned
<1>3. DOMAIN q = Fields /\ q.stack = go[g].stack /\ q.pc = "next"
  BY <1>2 DEF Fields
<1>4. f \in Frames(heap', g)
  BY <1>2 DEF Frames
<1> HIDE DEF q, f
<1>5. /\ DOMAIN SetTop(q, f) = Fields /\ SetTop(q, f).stack = Append(Front(go[g].stack), f)
      /\ SetTop(q, f).pc # "run"
  BY <1>3, SetTopIs
<1>6. Stacked(config, heap', g, SetTop(q, f))
  BY <1>2, <1>4, <1>5, SetTopStacked
<1>7. DOMAIN chan \subseteq DOMAIN chan'
  BY <1>2
<1> QED
  BY <1>1, <1>2, <1>6, <1>7, GoesOn

LEMMA MatcherFailsKeeps == ASSUME IInv, NEW g \in DOMAIN go, MatcherFails(g) PROVE IInv'
<1> DEFINE q == Back(go[g], "failed")
<1>1. LoopHead(g) /\ Becomes(g, q)
  BY DEF MatcherFails
<1>2. /\ CellsGood(config, heap') /\ Grown(heap, heap') /\ DOMAIN heap' = DOMAIN heap
      /\ config' = config /\ chan' = chan
      /\ Stacked(config, heap', g, go[g]) /\ DOMAIN go[g] = Fields
  BY <1>1, Positioned
<1>3. DOMAIN q = Fields /\ q.stack = go[g].stack /\ q.pc # "run"
  BY <1>2, BackIs
<1> HIDE DEF q
<1>4. Stacked(config, heap', g, q) /\ DOMAIN chan \subseteq DOMAIN chan'
  BY <1>2, <1>3 DEF Stacked
<1> QED
  BY <1>1, <1>2, <1>4, GoesOn

LEMMA SequenceEndsKeeps == ASSUME IInv, NEW g \in DOMAIN go, SequenceEnds(g) PROVE IInv'
<1>1. LoopHead(g) /\ Becomes(g, JumpBack(go[g], WalkerOf(g)))
  BY DEF SequenceEnds
<1>2. /\ CellsGood(config, heap') /\ Grown(heap, heap') /\ DOMAIN heap' = DOMAIN heap
      /\ config' = config /\ chan' = chan /\ Stacked(config, heap', g, go[g])
      /\ WalkerOf(g).back # NoCell => Frame(WalkerOf(g).back) \in Frames(heap', g)
  BY <1>1, Positioned
<1>3. Stacked(config, heap', g, JumpBack(go[g], WalkerOf(g))) /\ DOMAIN chan \subseteq DOMAIN chan'
  BY <1>2, JumpBackStacked
<1> QED
  BY <1>1, <1>2, <1>3, GoesOn
-----------------------------------------------------------------------------
(* Steps that leave the stack as it is, or move on to the next rule.        *)

LEMMA DoneKeeps ==
    ASSUME IInv, NEW g \in DOMAIN go, NEW r, DOMAIN r = Fields, r.stack = go[g].stack,
           Becomes(g, Done(g, r)), config' = config, heap' = heap,
           DOMAIN chan \subseteq DOMAIN chan'
    PROVE  IInv'
<1> DEFINE q == [r EXCEPT !.pc = "next"]
           f == [Top(g) EXCEPT !.node = WalkerOf(g).p]
<1>1. Done(g, r) = SetTop(q, f)
  BY DEF Done
<1>2. DOMAIN q = Fields /\ q.stack = go[g].stack /\ q.pc = "next"
  BY DEF Fields
<1>3. Top(g) \in Frames(heap, g) /\ WalkerOf(g).p \in Nat /\ Stacked(config, heap, g, go[g])
  BY TopGood DEF WalkerGood
<1>4. f \in Frames(heap, g)
  BY <1>3 DEF Frames
<1> HIDE DEF q, f
<1>5. /\ DOMAIN SetTop(q, f) = Fields /\ SetTop(q, f).stack = Append(Front(go[g].stack), f)
      /\ SetTop(q, f).pc # "run"
  BY <1>2, SetTopIs
<1>6. Stacked(config, heap, g, SetTop(q, f))
  BY <1>3, <1>4, <1>5, SetTopStacked
<1>7. CellsGood(config, heap') /\ Grown(heap, heap') /\ DOMAIN heap' = DOMAIN heap
  BY SameHeap
<1> QED
  BY <1>1, <1>6, <1>7, GoesOn

LEMMA RecordKept ==
    ASSUME IInv, NEW g \in DOMAIN go
    PROVE  /\ DOMAIN go[g] = Fields
           /\ \A e : LET q == Back(go[g], e) IN
                 DOMAIN q = Fields /\ q.stack = go[g].stack /\ q.pc = "back"
           /\ \A m, e : LET q == Back(SetResponse(go[g], m), e) IN
                 DOMAIN q = Fields /\ q.stack = go[g].stack /\ q.pc = "back"
<1>1. DOMAIN go[g] = Fields
  BY TopGood
<1> QED
  BY <1>1 DEF Fields, Back, SetResponse

LEMMA ChanUpdated ==
    ASSUME NEW x, NEW v
    PROVE  DOMAIN [chan EXCEPT ![x] = v] = DOMAIN chan
OBVIOUS

\* The action changes pc and what is not the stack.
LEMMA PlainStepsKeep ==
    ASSUME IInv, NEW g \in DOMAIN go,
           \/ HandleReturns(g) \/ Accept(g) \/ Exit(g) \/ Reject(g)
           \/ PrimaryReturns(g) \/ Send(g) \/ Hold(g) \/ SecondaryReturns(g) \/ Standby(g)
           \/ BlockKnown(g) \/ ReferenceReturns(g) \/ OriginalReturns(g)
           \/ Block(g) \/ HearOriginal(g)
           \/ \E pc \in {"forward", "fallback", "select", "wait"} : GiveUp(g, pc)
    PROVE  IInv'
<1>1. SUFFICES /\ \/ \E p : p # "run" /\ Becomes(g, [go[g] EXCEPT !.pc = p])
                  \/ \E p, e : p # "run" /\ Becomes(g, [go[g] EXCEPT !.pc = p, !.err = e])
                  \/ \E e : Becomes(g, Back(go[g], e))
                  \/ \E m, e : Becomes(g, Back(SetResponse(go[g], m), e))
               /\ config' = config /\ heap' = heap /\ DOMAIN chan' = DOMAIN chan
  <2>1. PICK q : /\ Becomes(g, q) /\ DOMAIN q = Fields /\ q.stack = go[g].stack
                 /\ q.pc # "run"
    <3>1. CASE \E p : p # "run" /\ Becomes(g, [go[g] EXCEPT !.pc = p])
      <4>1. PICK p : p # "run" /\ Becomes(g, [go[g] EXCEPT !.pc = p])
        BY <3>1
      <4> DEFINE q == [go[g] EXCEPT !.pc = p]
      <4>2. DOMAIN q = Fields /\ q.stack = go[g].stack /\ q.pc = p
        BY TopGood DEF Fields
      <4> HIDE DEF q
      <4> QED
        BY <4>1, <4>2 DEF q
    <3>2. CASE \E p, e : p # "run" /\ Becomes(g, [go[g] EXCEPT !.pc = p, !.err = e])
      <4>1. PICK p, e : p # "run" /\ Becomes(g, [go[g] EXCEPT !.pc = p, !.err = e])
        BY <3>2
      <4> DEFINE q == [go[g] EXCEPT !.pc = p, !.err = e]
      <4>2. DOMAIN q = Fields /\ q.stack = go[g].stack /\ q.pc = p
        BY TopGood DEF Fields
      <4> HIDE DEF q
      <4> QED
        BY <4>1, <4>2 DEF q
    <3>3. CASE \E e : Becomes(g, Back(go[g], e))
      BY <3>3, RecordKept
    <3>4. CASE \E m, e : Becomes(g, Back(SetResponse(go[g], m), e))
      BY <3>4, RecordKept
    <3> QED
      BY <1>1, <3>1, <3>2, <3>3, <3>4
  <2>2. DOMAIN chan \subseteq DOMAIN chan'
    BY <1>1
  <2> QED
    BY <1>1, <2>1, <2>2, StackStays
<1>2. CASE HandleReturns(g)
  BY <1>2 DEF HandleReturns
<1>3. CASE Accept(g) \/ Exit(g) \/ Reject(g)
  BY <1>3 DEF Accept, Exit, Reject, others
<1>4. CASE PrimaryReturns(g)
  BY <1>4 DEF PrimaryReturns, Rest
<1>5. CASE Send(g)
  BY <1>5 DEF Send, Rest
<1>6. CASE Hold(g)
  BY <1>6 DEF Hold, Rest
<1>7. CASE SecondaryReturns(g)
  BY <1>7 DEF SecondaryReturns, others
<1>8. CASE Standby(g)
  BY <1>8 DEF Standby, Rest
<1>9. CASE BlockKnown(g)
  BY <1>9 DEF BlockKnown, Blocked, others
<1>10. CASE ReferenceReturns(g)
  BY <1>10 DEF ReferenceReturns
<1>11. CASE OriginalReturns(g)
  BY <1>11 DEF OriginalReturns, Rest
<1>12. CASE Block(g)
  BY <1>12 DEF Block, Blocked, others
<1>13. CASE HearOriginal(g)
  BY <1>13 DEF HearOriginal, others
<1>14. CASE \E pc \in {"forward", "fallback", "select", "wait"} : GiveUp(g, pc)
  BY <1>14 DEF GiveUp, others
<1> QED
  BY <1>2, <1>3, <1>4, <1>5, <1>6, <1>7, <1>8, <1>9, <1>10, <1>11, <1>12, <1>13, <1>14

LEMMA ForwardKeeps == ASSUME IInv, NEW g \in DOMAIN go, Forward(g) PROVE IInv'
<1>1. PICK n, w : Becomes(g, [go[g] EXCEPT !.pc = "forward", !.first = n, !.heard = {},
                                           !.left = w])
  BY DEF Forward
<1> DEFINE q == [go[g] EXCEPT !.pc = "forward", !.first = n, !.heard = {}, !.left = w]
<1>2. DOMAIN q = Fields /\ q.stack = go[g].stack /\ q.pc # "run"
  BY TopGood DEF Fields
<1>3. config' = config /\ heap' = heap /\ DOMAIN chan \subseteq DOMAIN chan'
  BY DEF Forward, others
<1> HIDE DEF q
<1> QED
  BY <1>1, <1>2, <1>3, StackStays DEF q

LEMMA HearAddressKeeps == ASSUME IInv, NEW g \in DOMAIN go, HearAddress(g) PROVE IInv'
<1> DEFINE q == SetResponse(go[g], Message(go[g].q.type, "address"))
<1>1. Becomes(g, Done(g, q)) /\ config' = config /\ heap' = heap /\ chan' = chan
  BY DEF HearAddress, Responds, others
<1>2. DOMAIN q = Fields /\ q.stack = go[g].stack
  BY TopGood DEF SetResponse, Fields
<1> HIDE DEF q
<1> QED
  BY <1>1, <1>2, DoneKeeps

LEMMA HearOtherKeeps == ASSUME IInv, NEW g \in DOMAIN go, HearOther(g) PROVE IInv'
<1>1. PICK w, s :
         LET r == [go[g] EXCEPT !.left = w, !.heard = s] IN
         \/ Becomes(g, r)
         \/ \E kind : Responds(g, r, kind)
         \/ Becomes(g, Back(r, "failed"))
  BY DEF HearOther
<1> DEFINE r == [go[g] EXCEPT !.left = w, !.heard = s]
<1>2. DOMAIN r = Fields /\ r.stack = go[g].stack /\ r.pc = "forward"
  BY TopGood DEF Fields, HearOther, At
<1>3. config' = config /\ heap' = heap /\ DOMAIN chan \subseteq DOMAIN chan'
  BY DEF HearOther, others
<1> HIDE DEF r
<1>4. CASE Becomes(g, r)
  BY <1>2, <1>3, <1>4, StackStays
<1>5. CASE \E kind : Responds(g, r, kind)
  <2>1. PICK kind : Becomes(g, Done(g, SetResponse(r, Message(r.q.type, kind))))
    BY <1>5 DEF Responds
  <2> DEFINE q == SetResponse(r, Message(r.q.type, kind))
  <2>2. DOMAIN q = Fields /\ q.stack = go[g].stack
    BY <1>2 DEF SetResponse, Fields
  <2> HIDE DEF q
  <2> QED
    BY <1>3, <2>1, <2>2, DoneKeeps DEF q
<1>6. CASE Becomes(g, Back(r, "failed"))
  <2>1. /\ DOMAIN Back(r, "failed") = Fields /\ Back(r, "failed").stack = go[g].stack
        /\ Back(r, "failed").pc # "run"
    BY <1>2, BackIs
  <2> QED
    BY <1>3, <1>6, <2>1, StackStays
<1> QED
  BY <1>1, <1>4, <1>5, <1>6 DEF r

LEMMA HearFailureKeeps == ASSUME IInv, NEW g \in DOMAIN go, HearFailure(g) PROVE IInv'
<1>1. /\ Becomes(g, Back(go[g], "failed")) \/ Becomes(g, go[g])
      /\ go[g].pc = "fallback"
      /\ config' = config /\ heap' = heap /\ DOMAIN chan \subseteq DOMAIN chan'
  BY DEF HearFailure, Rest, At
<1>2. /\ DOMAIN Back(go[g], "failed") = Fields /\ Back(go[g], "failed").stack = go[g].stack
      /\ Back(go[g], "failed").pc # "run" /\ DOMAIN go[g] = Fields /\ go[g].pc # "run"
  BY <1>1, TopGood, BackIs
<1> QED
  BY <1>1, <1>2, StackStays

LEMMA HearResponseKeeps == ASSUME IInv, NEW g \in DOMAIN go, HearResponse(g) PROVE IInv'
<1> DEFINE q == [go[g] EXCEPT !.q = go[Received(g)].q]
<1>1. Becomes(g, Done(g, q)) /\ config' = config /\ heap' = heap /\ DOMAIN chan \subseteq DOMAIN chan'
  BY DEF HearResponse, Rest
<1>2. DOMAIN q = Fields /\ q.stack = go[g].stack
  BY TopGood DEF Fields
<1> HIDE DEF q
<1> QED
  BY <1>1, <1>2, DoneKeeps

LEMMA PassOriginalKeeps == ASSUME IInv, NEW g \in DOMAIN go, PassOriginal(g) PROVE IInv'
<1> DEFINE r == [go[g] EXCEPT !.q = go[Original(g)].q]
           q == Back(r, go[Original(g)].err)
<1>1. Becomes(g, q) /\ config' = config /\ heap' = heap /\ DOMAIN chan \subseteq DOMAIN chan'
  BY DEF PassOriginal, Rest
<1>2. DOMAIN r = Fields /\ r.stack = go[g].stack
  BY TopGood DEF Fields
<1> HIDE DEF r
<1>3. DOMAIN q = Fields /\ q.stack = go[g].stack /\ q.pc # "run"
  BY <1>2, BackIs
<1> HIDE DEF q
<1> QED
  BY <1>1, <1>3, StackStays

LEMMA ReturnKeeps == ASSUME IInv, NEW g \in DOMAIN go, Return(g) PROVE IInv'
<1>1. /\ Becomes(g, JumpBack(go[g], WalkerOf(g)))
      /\ config' = config /\ heap' = heap /\ DOMAIN chan \subseteq DOMAIN chan'
  BY DEF Return, others
<1>2. Stacked(config, heap, g, go[g])
  BY TopGood
<1>3. WalkerOf(g).back # NoCell => Frame(WalkerOf(g).back) \in Frames(heap, g)
  BY TopGood, FrameGood DEF WalkerGood, Frame, Frames
<1>4. Stacked(config, heap, g, JumpBack(go[g], WalkerOf(g)))
  BY <1>2, <1>3, JumpBackStacked
<1> QED
  BY <1>1, <1>4, SameHeap, GoesOn
-----------------------------------------------------------------------------
(* Returns to the caller on the stack.                                      *)

LEMMA Popped ==
    ASSUME IInv, NEW g \in DOMAIN go, Len(go[g].stack) > 1, At(g, "back")
    PROVE  /\ Stacked(config, heap, g, Pop(g)) /\ Pop(g).pc = "back"
           /\ Caller(g) = Last(Pop(g).stack)
           /\ Caller(g) \in Frames(heap, g) /\ Caller(g).cell \in Owned(heap, g)
           /\ heap[Caller(g).cell].p \in Nat
<1>1. DOMAIN go[g] = Fields /\ Stacked(config, heap, g, go[g])
  BY TopGood
<1>2. DOMAIN Pop(g) = Fields /\ Pop(g).stack = Front(go[g].stack) /\ Pop(g).pc = "back"
  BY <1>1 DEF Pop, Fields, At
<1>3. Stacked(config, heap, g, Pop(g))
  BY <1>1, <1>2, PopStacked
<1>4. Caller(g) = Last(Pop(g).stack)
  BY <1>2 DEF Caller
<1>5. Caller(g) \in Frames(heap, g)
  BY <1>3, <1>4, TopIsFrame DEF Stacked
<1>6. Caller(g).cell \in Owned(heap, g)
  BY <1>5 DEF Frames
<1>7. heap[Caller(g).cell].p \in Nat
  BY <1>6 DEF IInv, CellsGood, WalkerGood, Owned
<1> QED
  BY <1>2, <1>3, <1>4, <1>5, <1>6, <1>7

\* The caller goes on at pc, with an error e or none.
LEMMA CallerGoesOn ==
    ASSUME IInv, NEW g \in DOMAIN go, Len(go[g].stack) > 1, At(g, "back"),
           NEW q, DOMAIN q = Fields, q.stack = Pop(g).stack, q.pc # "run",
           NEW f \in Frames(heap, g), config' = config, heap' = heap,
           DOMAIN chan \subseteq DOMAIN chan',
           Becomes(g, q) \/ Becomes(g, SetTop(q, f))
    PROVE  IInv'
<1>1. Stacked(config, heap, g, Pop(g))
  BY Popped
<1>2. Stacked(config, heap, g, q)
  BY <1>1 DEF Stacked
<1>3. DOMAIN SetTop(q, f) = Fields /\ SetTop(q, f).stack = Append(Front(q.stack), f)
      /\ SetTop(q, f).pc # "run"
  BY SetTopIs
<1>4. Stacked(config, heap, g, SetTop(q, f))
  BY <1>2, <1>3, SetTopStacked
<1> QED
  BY <1>2, <1>4, SameHeap, GoesOn

LEMMA ReturnsKeep ==
    ASSUME IInv, NEW g \in DOMAIN go,
           ExecReturns(g) \/ TryReturns(g) \/ PreferredReturns(g)
    PROVE  IInv'
<1>1. Len(go[g].stack) > 1 /\ At(g, "back") /\ heap' = heap /\ config' = config
      /\ DOMAIN chan \subseteq DOMAIN chan'
  BY DEF ExecReturns, TryReturns, PreferredReturns, Returns, others
<1>2. /\ Stacked(config, heap, g, Pop(g)) /\ Pop(g).pc = "back"
      /\ Caller(g) \in Frames(heap, g) /\ Caller(g).cell \in Owned(heap, g)
      /\ heap[Caller(g).cell].p \in Nat
  BY <1>1, Popped
<1>3. DOMAIN Pop(g) = Fields
  BY <1>2 DEF Stacked
<1>4. CASE Becomes(g, Pop(g))
  BY <1>1, <1>2, <1>3, <1>4, CallerGoesOn
<1>5. CASE ExecReturns(g) /\ ~Becomes(g, Pop(g))
  <2> DEFINE q == [Pop(g) EXCEPT !.pc = "next"]
             f == [Caller(g) EXCEPT !.node = heap[Caller(g).cell].p]
  <2>1. Becomes(g, SetTop(q, f))
    BY <1>5 DEF ExecReturns
  <2>2. DOMAIN q = Fields /\ q.stack = Pop(g).stack /\ q.pc # "run"
    BY <1>3 DEF Fields
  <2>3. f \in Frames(heap, g)
    BY <1>2 DEF Frames
  <2> HIDE DEF q, f
  <2> QED
    BY <1>1, <2>1, <2>2, <2>3, CallerGoesOn
<1>6. CASE TryReturns(g) /\ ~Becomes(g, Pop(g))
  <2> DEFINE q == [Pop(g) EXCEPT !.pc = "loop", !.err = None]
             f == Frame(Caller(g).cell)
  <2>1. Becomes(g, SetTop(q, f))
    BY <1>6 DEF TryReturns
  <2>2. DOMAIN q = Fields /\ q.stack = Pop(g).stack /\ q.pc # "run"
    BY <1>3 DEF Fields
  <2>3. f \in Frames(heap, g)
    BY <1>2 DEF Frames, Frame
  <2> HIDE DEF q, f
  <2> QED
    BY <1>1, <2>1, <2>2, <2>3, CallerGoesOn
<1>7. CASE PreferredReturns(g)
  <2> DEFINE q == [Pop(g) EXCEPT !.err = Normalized(go[g])]
  <2>1. Becomes(g, q)
    BY <1>7 DEF PreferredReturns
  <2>2. DOMAIN q = Fields /\ q.stack = Pop(g).stack /\ q.pc # "run"
    BY <1>2, <1>3 DEF Fields
  <2> HIDE DEF q
  <2> QED
    BY <1>1, <1>2, <2>1, <2>2, CallerGoesOn
<1> QED
  BY <1>4, <1>5, <1>6, <1>7
-----------------------------------------------------------------------------
(* New walkers.                                                             *)

LEMMA RuleGood ==
    ASSUME IInv, NEW g \in DOMAIN go, NEW e, Runs(g, e)
    PROVE  /\ e \in {"jump", "goto", "try"} => Rule(g).to \in SequencesOf(config)
           /\ e = "exec" => Rule(g).to \in DOMAIN config.plugins
           /\ e = "jump" => Rule(g).to \in JumpedTo(config)
           /\ e = "prefer" /\ NoPreferBehindJump(config) => WalkerOf(g).back = NoCell
<1> DEFINE tag == WalkerOf(g).seq
           n == Top(g).node
<1>1. tag \in SequencesOf(config) /\ (WalkerOf(g).back # NoCell => tag \in JumpedTo(config))
  BY TopGood DEF WalkerGood
<1>2. n \in 1 .. Len(RulesOf(config, tag))
  BY TopGood DEF Stacked, Runs, At, Top, WalkerOf
<1>3. Rule(g) = RulesOf(config, tag)[n] /\ Rule(g).exec = e
  BY DEF Rule, Rules, RulesOf, Plugin, Runs
<1> HIDE DEF tag, n
<1>4. /\ Rule(g).exec \in {"jump", "goto", "try"} => Rule(g).to \in SequencesOf(config)
      /\ Rule(g).exec = "exec" => Rule(g).to \in DOMAIN config.plugins
  BY <1>1, <1>2, <1>3, ConfigsTyped DEF IInv, RulesOf
<1>5. e = "jump" => Rule(g).to \in JumpedTo(config)
  BY <1>1, <1>2, <1>3, <1>4 DEF JumpedTo
<1>6. e = "prefer" /\ NoPreferBehindJump(config) => WalkerOf(g).back = NoCell
  BY <1>1, <1>2, <1>3 DEF NoPreferBehindJump
<1> QED
  BY <1>3, <1>4, <1>5, <1>6

LEMMA CellIs ==
    ASSUME NEW g, NEW n
    PROVE  Cell(g, 1) = Fresh(heap, g) /\ Cell(g, n) = <<g, Cardinality(Owned(heap, g)) + n>>
BY DEF Cell, Fresh, Owned

\* A walker that jumps nowhere.
LEMMA FlatGood ==
    ASSUME NEW c, NEW h, NEW g, NEW n, NEW tag \in SequencesOf(c)
    PROVE  WalkerGood(c, h, g, n, Walker(tag, NoCell))
BY DEF WalkerGood, Walker, WalkerFields

LEMMA NextGood ==
    ASSUME IInv, NEW g \in DOMAIN go
    PROVE  /\ WalkerGood(config, heap, g, Fresh(heap, g)[2], NextWalker(g))
           /\ NextWalker(g).back = WalkerOf(g).back /\ NextWalker(g).seq = WalkerOf(g).seq
           /\ DOMAIN NextWalker(g) = WalkerFields /\ NextWalker(g).p \in Nat \ {0}
<1>1. WalkerGood(config, heap, g, Fresh(heap, g)[2], WalkerOf(g))
  BY TopGood DEF Fresh
<1>2. /\ NextWalker(g).back = WalkerOf(g).back /\ NextWalker(g).seq = WalkerOf(g).seq
      /\ DOMAIN NextWalker(g) = WalkerFields /\ NextWalker(g).p = WalkerOf(g).p + 1
  BY <1>1 DEF WalkerGood, NextWalker, WalkerFields
<1>3. NextWalker(g).p \in Nat \ {0}
  BY <1>1, <1>2 DEF WalkerGood
<1> QED
  BY <1>1, <1>2, <1>3 DEF WalkerGood

LEMMA OneMade ==
    ASSUME IInv, NEW g, NEW w, WalkerGood(config, heap, g, Fresh(heap, g)[2], w),
           heap' = Extend(heap, Cell(g, 1), w)
    PROVE  /\ CellsGood(config, heap') /\ Grown(heap, heap')
           /\ \A x \in DOMAIN heap' : x \in DOMAIN heap \/ x[1] = g
           /\ Frame(Cell(g, 1)) \in Frames(heap', g)
           /\ Frames(heap, g) \subseteq Frames(heap', g)
<1>1. CellsGood(config, heap) /\ Cell(g, 1) = Fresh(heap, g)
  BY CellIs DEF IInv
<1>2. /\ CellsGood(config, heap') /\ Grown(heap, heap') /\ Cell(g, 1) \in Owned(heap', g)
  BY <1>1, AddCell
<1>3. \A x \in DOMAIN heap' : x \in DOMAIN heap \/ x = Cell(g, 1)
  BY DEF Extend
<1>4. Cell(g, 1)[1] = g
  BY DEF Cell
<1>5. Frame(Cell(g, 1)) \in Frames(heap', g)
  BY <1>2 DEF Frames, Frame
<1>6. Frames(heap, g) \subseteq Frames(heap', g)
  BY <1>2, FramesGrow
<1> QED
  BY <1>2, <1>3, <1>4, <1>5, <1>6

LEMMA TwoMade ==
    ASSUME IInv, NEW g, NEW w, WalkerGood(config, heap, g, Fresh(heap, g)[2], w),
           NEW v, WalkerGood(config, Extend(heap, Cell(g, 1), w), g, Cell(g, 2)[2], v),
           heap' = Extend(Extend(heap, Cell(g, 1), w), Cell(g, 2), v)
    PROVE  /\ CellsGood(config, heap') /\ Grown(heap, heap')
           /\ \A x \in DOMAIN heap' : x \in DOMAIN heap \/ x[1] = g
           /\ Cell(g, 1) \in Owned(heap', g) /\ Cell(g, 2) \in Owned(heap', g)
<1> DEFINE e == Extend(heap, Cell(g, 1), w)
           n == Cardinality(Owned(heap, g))
<1>1. /\ CellsGood(config, heap) /\ Cell(g, 1) = Fresh(heap, g)
      /\ Cell(g, 1) = <<g, n + 1>> /\ Cell(g, 2) = <<g, n + 2>>
  BY CellIs DEF IInv
<1>2. n \in Nat
  BY <1>1, OwnedFinite DEF CellsGood
<1>3. /\ CellsGood(config, e) /\ Grown(heap, e) /\ Cell(g, 1) \in Owned(e, g)
      /\ Cardinality(Owned(e, g)) = n + 1
  BY <1>1, AddCell
<1>4. \A x \in DOMAIN e : x \in DOMAIN heap \/ x = Cell(g, 1)
  BY DEF Extend
<1>5. heap' = Extend(e, Cell(g, 2), v) /\ WalkerGood(config, e, g, Cell(g, 2)[2], v)
  OBVIOUS
<1> HIDE DEF e
<1>6. Cell(g, 2) = Fresh(e, g)
  BY <1>1, <1>2, <1>3 DEF Fresh
<1>7. /\ CellsGood(config, heap') /\ Grown(e, heap') /\ Cell(g, 2) \in Owned(heap', g)
  BY <1>3, <1>5, <1>6, AddCell
<1>8. \A x \in DOMAIN heap' : x \in DOMAIN e \/ x = Cell(g, 2)
  BY <1>5 DEF Extend
<1>9. Cell(g, 1) \in Owned(heap', g)
  BY <1>3, <1>7, FramesGrow
<1>10. Grown(heap, heap')
  BY <1>3, <1>7 DEF Grown
<1>11. \A x \in DOMAIN heap' : x \in DOMAIN heap \/ x[1] = g
  BY <1>1, <1>4, <1>8
<1> QED
  BY <1>7, <1>9, <1>10, <1>11

LEMMA CallKeeps ==
    ASSUME IInv, NEW g \in DOMAIN go, NEW w, WalkerGood(config, heap, g, Fresh(heap, g)[2], w),
           NEW then \in {"exec", "prefer"}, UNCHANGED others,
           TailCall(g, w) \/ Call(g, w, then)
    PROVE  IInv'
<1>1. heap' = Extend(heap, Cell(g, 1), w) /\ config' = config /\ DOMAIN chan \subseteq DOMAIN chan'
  BY DEF TailCall, Call, others
<1>2. /\ CellsGood(config, heap') /\ Grown(heap, heap')
      /\ \A x \in DOMAIN heap' : x \in DOMAIN heap \/ x[1] = g
      /\ Frame(Cell(g, 1)) \in Frames(heap', g)
      /\ Frames(heap, g) \subseteq Frames(heap', g)
  BY <1>1, OneMade
<1>3. Stacked(config, heap', g, go[g]) /\ DOMAIN go[g] = Fields /\ Top(g) \in Frames(heap', g)
  BY <1>2, TopGood, StackedGrows
<1> DEFINE f == Frame(Cell(g, 1))
           r == [go[g] EXCEPT !.pc = "loop"]
           called == [Top(g) EXCEPT !.then = then]
           q == [go[g] EXCEPT !.pc = "loop", !.stack = Append(Front(@), called) \o <<f>>]
<1>4. CASE Becomes(g, SetTop(r, f))
  <2>1. DOMAIN r = Fields /\ r.stack = go[g].stack /\ r.pc # "run"
    BY <1>3 DEF Fields
  <2> HIDE DEF f, r
  <2>2. DOMAIN SetTop(r, f) = Fields /\ SetTop(r, f).stack = Append(Front(go[g].stack), f)
        /\ SetTop(r, f).pc # "run"
    BY <2>1, SetTopIs
  <2>3. Stacked(config, heap', g, SetTop(r, f))
    BY <1>2, <1>3, <2>2, SetTopStacked DEF f
  <2> QED
    BY <1>1, <1>2, <1>4, <2>3, GoesOn
<1>5. CASE Becomes(g, q)
  <2>1. called \in Frames(heap', g)
    BY <1>3 DEF Frames
  <2>2. DOMAIN q = Fields /\ q.pc # "run" /\ q.stack = Append(Front(go[g].stack), called) \o <<f>>
    BY <1>3 DEF Fields
  <2> HIDE DEF q, called, f
  <2>3. Stacked(config, heap', g, q)
    BY <1>2, <1>3, <2>1, <2>2, PushStacked DEF f
  <2> QED
    BY <1>1, <1>2, <1>5, <2>3, GoesOn
<1> QED
  BY <1>4, <1>5 DEF TailCall, Call

LEMMA GotoKeeps == ASSUME IInv, NEW g \in DOMAIN go, Goto(g) PROVE IInv'
<1>1. Rule(g).to \in SequencesOf(config)
  BY RuleGood DEF Goto
<1> QED
  BY <1>1, FlatGood, CallKeeps DEF Goto

LEMMA ExecSequenceKeeps == ASSUME IInv, NEW g \in DOMAIN go, ExecSequence(g) PROVE IInv'
<1>1. Rule(g).to \in DOMAIN config.plugins
  BY RuleGood DEF ExecSequence
<1>2. Rule(g).to \in SequencesOf(config)
  BY <1>1 DEF ExecSequence, Executable, Plugin, SequencesOf
<1> QED
  BY <1>2, FlatGood, CallKeeps DEF ExecSequence

LEMMA PreferOneKeeps ==
    ASSUME IInv, NEW g \in DOMAIN go, PreferOther(g) \/ PreferPreferred(g) PROVE IInv'
BY NextGood, CallKeeps DEF PreferOther, PreferPreferred

LEMMA JumpKeeps == ASSUME IInv, NEW g \in DOMAIN go, Jump(g) PROVE IInv'
<1> DEFINE w == NextWalker(g)
           v == Walker(Rule(g).to, Cell(g, 1))
           e == Extend(heap, Cell(g, 1), w)
           n == Cardinality(Owned(heap, g))
           f == Frame(Cell(g, 2))
           r == [go[g] EXCEPT !.pc = "loop"]
<1>1. /\ heap' = Extend(e, Cell(g, 2), v) /\ Becomes(g, SetTop(r, f))
      /\ config' = config /\ DOMAIN chan \subseteq DOMAIN chan'
  BY DEF Jump, others
<1>2. WalkerGood(config, heap, g, Fresh(heap, g)[2], w)
  BY NextGood
<1>3. Rule(g).to \in SequencesOf(config) /\ Rule(g).to \in JumpedTo(config)
  BY RuleGood DEF Jump
<1>4. n \in Nat /\ Cell(g, 1) = <<g, n + 1>> /\ Cell(g, 2) = <<g, n + 2>>
      /\ Cell(g, 1) = Fresh(heap, g)
  BY OwnedFinite, CellIs DEF IInv, CellsGood
<1>5. Cell(g, 1) \in Owned(e, g)
  BY <1>2, <1>4, AddCell DEF IInv
<1> HIDE DEF e, n, w
<1>6. WalkerGood(config, e, g, Cell(g, 2)[2], v)
  <2>1. Cell(g, 1)[2] < Cell(g, 2)[2]
    BY <1>4
  <2> QED
    BY <1>3, <1>5, <2>1 DEF WalkerGood, Walker, WalkerFields
<1> HIDE DEF v
<1>7. /\ CellsGood(config, heap') /\ Grown(heap, heap')
      /\ \A x \in DOMAIN heap' : x \in DOMAIN heap \/ x[1] = g
      /\ Cell(g, 2) \in Owned(heap', g)
  BY <1>1, <1>2, <1>6, TwoMade DEF e
<1>8. f \in Frames(heap', g)
  BY <1>7 DEF Frames, Frame
<1>9. Stacked(config, heap', g, go[g]) /\ DOMAIN go[g] = Fields
  BY <1>7, TopGood, StackedGrows
<1>10. DOMAIN r = Fields /\ r.stack = go[g].stack /\ r.pc # "run"
  BY <1>9 DEF Fields
<1> HIDE DEF f, r
<1>11. DOMAIN SetTop(r, f) = Fields /\ SetTop(r, f).stack = Append(Front(go[g].stack), f)
       /\ SetTop(r, f).pc # "run"
  BY <1>10, SetTopIs
<1>12. Stacked(config, heap', g, SetTop(r, f))
  BY <1>8, <1>9, <1>11, SetTopStacked
<1> QED
  BY <1>1, <1>7, <1>12, GoesOn

LEMMA TryKeeps == ASSUME IInv, NEW g \in DOMAIN go, Try(g) PROVE IInv'
<1> DEFINE w == NextWalker(g)
           v == Walker(Rule(g).to, NoCell)
           below == [Frame(Cell(g, 1)) EXCEPT !.then = "try"]
           f == Frame(Cell(g, 2))
           q == [go[g] EXCEPT !.pc = "loop", !.stack = Append(Front(@), below) \o <<f>>]
<1>1. /\ heap' = Extend(Extend(heap, Cell(g, 1), w), Cell(g, 2), v) /\ Becomes(g, q)
      /\ config' = config /\ DOMAIN chan \subseteq DOMAIN chan'
  BY DEF Try, others
<1>2. WalkerGood(config, heap, g, Fresh(heap, g)[2], w)
  BY NextGood
<1>3. WalkerGood(config, Extend(heap, Cell(g, 1), w), g, Cell(g, 2)[2], v)
  BY RuleGood, FlatGood DEF Try
<1> HIDE DEF w, v
<1>4. /\ CellsGood(config, heap') /\ Grown(heap, heap')
      /\ \A x \in DOMAIN heap' : x \in DOMAIN heap \/ x[1] = g
      /\ Cell(g, 1) \in Owned(heap', g) /\ Cell(g, 2) \in Owned(heap', g)
  BY <1>1, <1>2, <1>3, TwoMade
<1>5. f \in Frames(heap', g) /\ below \in Frames(heap', g)
  BY <1>4 DEF Frames, Frame
<1>6. Stacked(config, heap', g, go[g]) /\ DOMAIN go[g] = Fields
  BY <1>4, TopGood, StackedGrows
<1>7. DOMAIN q = Fields /\ q.pc # "run" /\ q.stack = Append(Front(go[g].stack), below) \o <<f>>
  BY <1>6 DEF Fields
<1> HIDE DEF q, f, below
<1>8. Stacked(config, heap', g, q)
  BY <1>5, <1>6, <1>7, PushStacked
<1> QED
  BY <1>1, <1>4, <1>8, GoesOn
-----------------------------------------------------------------------------
(* New goroutines.                                                          *)

LEMMA GoroutineGood ==
    ASSUME NEW c, NEW h, NEW g, NEW x \in Owned(h, g), NEW q, NEW pc, pc # "run"
    PROVE  Stacked(c, h, g, Goroutine(q, x, pc))
<1>1. Frame(x) \in Frames(h, g)
  BY DEF Frame, Frames
<1>2. /\ DOMAIN Goroutine(q, x, pc) = Fields /\ Goroutine(q, x, pc).stack = <<Frame(x)>>
      /\ Goroutine(q, x, pc).pc = pc
  BY DEF Goroutine, Fields
<1>3. <<Frame(x)>> \in Seq(Frames(h, g)) /\ <<Frame(x)>> # <<>>
  BY <1>1
<1> QED
  BY <1>2, <1>3 DEF Stacked

LEMMA AskKeeps == ASSUME IInv, Ask PROVE IInv'
<1>1. PICK i \in DOMAIN config.queries :
         /\ <<i>> \notin DOMAIN go
         /\ heap' = Extend(heap, Cell(<<i>>, 1), Walker("main", NoCell))
         /\ \E q : go' = Extend(go, <<i>>, Goroutine(q, Cell(<<i>>, 1), "loop"))
         /\ config' = config /\ chan' = chan
  BY DEF Ask, others
<1> DEFINE g == <<i>>
<1>2. g \in Names(config) /\ Len(g) = 1
  BY DEF Names
<1>3. PICK q : go' = Extend(go, g, Goroutine(q, Cell(g, 1), "loop"))
  BY <1>1
<1> HIDE DEF g
<1>4. "main" \in SequencesOf(config)
  BY ConfigsTyped DEF IInv
<1>5. /\ CellsGood(config, heap') /\ Grown(heap, heap')
      /\ \A x \in DOMAIN heap' : x \in DOMAIN heap \/ x[1] = g
      /\ Frame(Cell(g, 1)) \in Frames(heap', g)
  BY <1>1, <1>4, FlatGood, OneMade DEF g
<1>6. Cell(g, 1) \in Owned(heap', g)
  BY <1>5 DEF Frames, Frame
<1>7. Stacked(config, heap', g, Goroutine(q, Cell(g, 1), "loop"))
  BY <1>6, GoroutineGood
<1>8. /\ DOMAIN go' = {g} \cup DOMAIN go /\ go'[g] = Goroutine(q, Cell(g, 1), "loop")
      /\ \A k \in DOMAIN go : k # g => go'[k] = go[k]
  BY <1>3 DEF Extend
<1>9. g \notin DOMAIN go
  BY <1>1 DEF g
<1>10. \A x \in DOMAIN heap' : x \in DOMAIN heap \/ x[1] \in DOMAIN go'
  BY <1>5, <1>8
<1>11. \A k \in DOMAIN go' :
          \/ k \in DOMAIN go /\ go'[k] = go[k]
          \/ /\ Stacked(config, heap', k, go'[k])
             /\ k \notin DOMAIN go =>
                   k \in Names(config) /\ (Len(k) > 1 => Parent(k) \in DOMAIN chan')
  <2> TAKE k \in DOMAIN go'
  <2>1. CASE k = g
    <3>1. ~ (Len(g) > 1) /\ Stacked(config, heap', g, go'[g])
      BY <1>2, <1>7, <1>8
    <3> QED
      BY <1>2, <2>1, <3>1, Zenon
  <2>2. CASE k # g
    BY <1>8, <2>2
  <2> QED
    BY <2>1, <2>2
<1>12. DOMAIN go \subseteq DOMAIN go' /\ DOMAIN chan \subseteq DOMAIN chan'
  BY <1>1, <1>8
<1> QED
  BY <1>1, <1>5, <1>10, <1>11, <1>12, StepKeeps

\* A walker that jumps nowhere, whoever makes it.
Flat(w) == /\ DOMAIN w = WalkerFields /\ w.seq \in SequencesOf(config)
           /\ w.p \in Nat \ {0} /\ w.back = NoCell

LEMMA StartKeeps ==
    ASSUME IInv, NEW g \in DOMAIN go, NEW a \in Roles, NEW b \in Roles, a # b,
           NEW w, Flat(w), NEW v, Flat(v), NEW q1, NEW q2, NEW p1, p1 # "run", NEW p2, p2 # "run",
           NEW pc, pc # "run", NEW standby, config' = config,
           heap' = Extend(Extend(heap, Cell(Child(g, a), 1), w), Cell(Child(g, b), 1), v),
           Start(g, pc, standby, Child(g, a), Goroutine(q1, Cell(Child(g, a), 1), p1),
                 Child(g, b), Goroutine(q2, Cell(Child(g, b), 1), p2))
    PROVE  IInv'
<1> DEFINE c1 == Child(g, a)
           c2 == Child(g, b)
           x1 == Cell(c1, 1)
           x2 == Cell(c2, 1)
           r1 == Goroutine(q1, x1, p1)
           r2 == Goroutine(q2, x2, p2)
           r == [go[g] EXCEPT !.pc = pc]
           e == Extend(heap, x1, w)
           parts == DOMAIN config.queries \cup Roles
<1>1. /\ g \notin DOMAIN chan /\ DOMAIN chan' = {g} \cup DOMAIN chan
      /\ go' = Extend(Extend([go EXCEPT ![g].pc = pc], c1, r1), c2, r2)
      /\ heap' = Extend(e, x2, v)
  BY DEF Start, Extend
<1>2. /\ g \in Seq(parts) /\ g # <<>> /\ Len(g) \in Nat \ {0} /\ a \in parts /\ b \in parts
      /\ Names(config) = Seq(parts) \ {<<>>}
  BY DEF IInv, Names
<1> HIDE DEF parts
<1>3. /\ c1 \in Seq(parts) /\ Len(c1) = Len(g) + 1
      /\ Parent(c1) = g /\ Last(c1) = a /\ c1 # g
      /\ c2 \in Seq(parts) /\ Len(c2) = Len(g) + 1
      /\ Parent(c2) = g /\ Last(c2) = b /\ c2 # g
  BY <1>2, ChildIs
<1> HIDE DEF c1, c2
<1>4. c1 \in Names(config) /\ c2 \in Names(config) /\ c1 # c2
  BY <1>2, <1>3
<1>5. c1 \notin DOMAIN go /\ c2 \notin DOMAIN go
  BY <1>1, <1>2, <1>3 DEF IInv
<1>6. x1 = Fresh(heap, c1) /\ x2 = Fresh(heap, c2) /\ x1[1] = c1 /\ x2[1] = c2
  BY CellIs DEF Fresh
<1>7. \A h, k, n : WalkerGood(config, h, k, n, w) /\ WalkerGood(config, h, k, n, v)
  BY DEF Flat, WalkerGood
<1> HIDE DEF x1, x2
<1>8. /\ CellsGood(config, e) /\ Grown(heap, e) /\ x1 \in Owned(e, c1)
      /\ Owned(e, c2) = Owned(heap, c2)
  BY <1>4, <1>6, <1>7, AddCell DEF IInv
<1>9. DOMAIN e = {x1} \cup DOMAIN heap
  BY DEF Extend
<1> HIDE DEF e
<1>10. x2 = Fresh(e, c2)
  BY <1>6, <1>8 DEF Fresh
<1>11. CellsGood(config, heap') /\ Grown(e, heap') /\ x2 \in Owned(heap', c2)
  BY <1>1, <1>7, <1>8, <1>10, AddCell
<1>12. DOMAIN heap' = {x2} \cup DOMAIN e
  BY <1>1 DEF Extend
<1>13. Grown(heap, heap') /\ x1 \in Owned(heap', c1)
  BY <1>8, <1>11, FramesGrow DEF Grown
<1>14. Stacked(config, heap', c1, r1) /\ Stacked(config, heap', c2, r2)
  BY <1>11, <1>13, GoroutineGood
<1>15. Stacked(config, heap', g, r)
  <2>1. DOMAIN r = Fields /\ r.stack = go[g].stack /\ r.pc # "run"
    BY TopGood DEF Fields
  <2>2. Stacked(config, heap', g, go[g])
    BY <1>13, TopGood, StackedGrows
  <2> HIDE DEF r
  <2> QED
    BY <2>1, <2>2 DEF Stacked
<1> HIDE DEF r1, r2
<1>16. /\ DOMAIN go' = {c1, c2} \cup DOMAIN go /\ go'[c1] = r1 /\ go'[c2] = r2 /\ go'[g] = r
       /\ \A k \in DOMAIN go : k # g => go'[k] = go[k]
  BY <1>1, <1>3, <1>4, <1>5 DEF Extend
<1> HIDE DEF r
<1>17. \A x \in DOMAIN heap' : x \in DOMAIN heap \/ x[1] \in DOMAIN go'
  BY <1>6, <1>9, <1>12, <1>16
<1>18. \A k \in DOMAIN go' :
          \/ k \in DOMAIN go /\ go'[k] = go[k]
          \/ /\ Stacked(config, heap', k, go'[k])
             /\ k \notin DOMAIN go =>
                   k \in Names(config) /\ (Len(k) > 1 => Parent(k) \in DOMAIN chan')
  BY <1>1, <1>3, <1>4, <1>14, <1>15, <1>16
<1>19. DOMAIN go \subseteq DOMAIN go' /\ DOMAIN chan \subseteq DOMAIN chan'
  BY <1>1, <1>16
<1> QED
  BY <1>11, <1>13, <1>17, <1>18, <1>19, StepKeeps

LEMMA FallbackKeeps == ASSUME IInv, NEW g \in DOMAIN go, Fallback(g) PROVE IInv'
<1> DEFINE f == Executable(g)
<1>1. f.primary \in SequencesOf(config) /\ f.secondary \in SequencesOf(config)
  <2>1. Rule(g).to \in DOMAIN config.plugins /\ config.plugins[Rule(g).to].kind = "fallback"
    BY RuleGood DEF Fallback, Executable, Plugin
  <2>2. config \in Configs
    BY DEF IInv
  <2> QED
    BY <2>1, <2>2, ConfigsTyped DEF Executable, Plugin
<1>2. Flat(Walker(f.primary, NoCell)) /\ Flat(Walker(f.secondary, NoCell))
  BY <1>1 DEF Flat, Walker, WalkerFields
<1> DEFINE p == Child(g, "primary")
           s == Child(g, "secondary")
           held == IF f.standby THEN "loop" ELSE "hold"
<1>3. /\ heap' = Extend(Extend(heap, Cell(p, 1), Walker(f.primary, NoCell)),
                        Cell(s, 1), Walker(f.secondary, NoCell))
      /\ Start(g, "fallback", f.standby, p, Goroutine(go[g].q, Cell(p, 1), "loop"),
               s, Goroutine(go[g].q, Cell(s, 1), held))
      /\ config' = config
  BY DEF Fallback, Rest
<1>4. held # "run"
  OBVIOUS
<1>5. "primary" \in Roles /\ "secondary" \in Roles /\ "primary" # "secondary" /\ "loop" # "run"
      /\ "fallback" # "run"
  BY DEF Roles
<1> HIDE DEF f, held
<1> QED
  BY <1>2, <1>3, <1>4, <1>5, StartKeeps

LEMMA AskBothKeeps ==
    ASSUME IInv, NEW g \in DOMAIN go, NoPreferBehindJump(config), AskBoth(g) PROVE IInv'
<1> DEFINE q == [go[g].q EXCEPT !.type = Preferred]
           w == NextWalker(g)
<1>1. WalkerOf(g).back = NoCell
  BY RuleGood DEF AskBoth, StartBoth
<1>2. Flat(w)
  BY <1>1, NextGood DEF Flat, WalkerGood
<1>3. /\ heap' = Extend(Extend(heap, Cell(Child(g, "reference"), 1), w),
                        Cell(Child(g, "original"), 1), w)
      /\ Start(g, "select", FALSE, Child(g, "reference"),
               Goroutine(q, Cell(Child(g, "reference"), 1), "loop"),
               Child(g, "original"), Goroutine(go[g].q, Cell(Child(g, "original"), 1), "loop"))
      /\ config' = config
  BY DEF AskBoth, StartBoth, Reference, Original, Rest
<1>4. /\ "reference" \in Roles /\ "original" \in Roles /\ "reference" # "original"
      /\ "loop" # "run" /\ "select" # "run"
  BY DEF Roles
<1> HIDE DEF q, w
<1> QED
  BY <1>2, <1>3, <1>4, StartKeeps
-----------------------------------------------------------------------------
(* The invariant and what follows from it.                                  *)

LEMMA InitHolds == Init => IInv
<1> SUFFICES ASSUME Init PROVE IInv
  OBVIOUS
<1>1. DOMAIN heap = {} /\ DOMAIN go = {} /\ config \in Configs
  BY DEF Init
<1>2. CellsGood(config, heap)
  BY <1>1, FS_EmptySet DEF CellsGood
<1> QED
  BY <1>1, <1>2 DEF IInv

LEMMA StepHolds == IInv /\ NoPreferBehindJump(config) /\ [Next]_vars => IInv'
<1> SUFFICES ASSUME IInv, NoPreferBehindJump(config), [Next]_vars PROVE IInv'
  OBVIOUS
<1>1. CASE Ask
  BY <1>1, AskKeeps
<1>2. CASE DeadlinePasses \/ Terminating \/ UNCHANGED vars
  <2>1. UNCHANGED <<config, go, heap, chan>>
    BY <1>2 DEF DeadlinePasses, Terminating, vars
  <2> QED
    BY <2>1 DEF IInv
<1>3. CASE Moves
  <2>1. PICK g \in DOMAIN go :
           \/ \/ HandleReturns(g) \/ Accept(g) \/ Exit(g) \/ Reject(g)
              \/ PrimaryReturns(g) \/ Send(g) \/ Hold(g) \/ SecondaryReturns(g) \/ Standby(g)
              \/ BlockKnown(g) \/ ReferenceReturns(g) \/ OriginalReturns(g)
              \/ Block(g) \/ HearOriginal(g)
              \/ \E pc \in {"forward", "fallback", "select", "wait"} : GiveUp(g, pc)
           \/ RuleMatches(g) \/ RuleIsSkipped(g) \/ MatcherFails(g) \/ SequenceEnds(g)
           \/ Return(g) \/ Jump(g) \/ Goto(g) \/ Try(g) \/ ExecSequence(g)
           \/ ExecReturns(g) \/ TryReturns(g) \/ PreferredReturns(g)
           \/ Forward(g) \/ HearAddress(g) \/ HearOther(g)
           \/ Fallback(g) \/ HearFailure(g) \/ HearResponse(g)
           \/ PreferOther(g) \/ PreferPreferred(g) \/ AskBoth(g) \/ PassOriginal(g)
    BY <1>3, Zenon DEF Moves
  <2>2. CASE \/ HandleReturns(g) \/ Accept(g) \/ Exit(g) \/ Reject(g)
             \/ PrimaryReturns(g) \/ Send(g) \/ Hold(g) \/ SecondaryReturns(g) \/ Standby(g)
             \/ BlockKnown(g) \/ ReferenceReturns(g) \/ OriginalReturns(g)
             \/ Block(g) \/ HearOriginal(g)
             \/ \E pc \in {"forward", "fallback", "select", "wait"} : GiveUp(g, pc)
    BY <2>2, PlainStepsKeep, Zenon
  <2>3. CASE RuleMatches(g) \/ RuleIsSkipped(g) \/ MatcherFails(g) \/ SequenceEnds(g)
    BY <2>3, RuleMatchesKeeps, RuleIsSkippedKeeps, MatcherFailsKeeps, SequenceEndsKeeps, Zenon
  <2>4. CASE Return(g) \/ Jump(g) \/ Goto(g) \/ Try(g) \/ ExecSequence(g)
    BY <2>4, ReturnKeeps, JumpKeeps, GotoKeeps, TryKeeps, ExecSequenceKeeps, Zenon
  <2>5. CASE ExecReturns(g) \/ TryReturns(g) \/ PreferredReturns(g)
    BY <2>5, ReturnsKeep, Zenon
  <2>6. CASE Forward(g) \/ HearAddress(g) \/ HearOther(g)
    BY <2>6, ForwardKeeps, HearAddressKeeps, HearOtherKeeps, Zenon
  <2>7. CASE Fallback(g) \/ HearFailure(g) \/ HearResponse(g)
    BY <2>7, FallbackKeeps, HearFailureKeeps, HearResponseKeeps, Zenon
  <2>8. CASE PreferOther(g) \/ PreferPreferred(g) \/ AskBoth(g) \/ PassOriginal(g)
    BY <2>8, PreferOneKeeps, AskBothKeeps, PassOriginalKeeps, Zenon
  <2> QED
    BY <2>1, <2>2, <2>3, <2>4, <2>5, <2>6, <2>7, <2>8, Zenon
<1> QED
  BY <1>1, <1>2, <1>3 DEF Next

\* The configuration never changes.
LEMMA ConfigStays == [Next]_vars => config' = config
<1> SUFFICES ASSUME [Next]_vars PROVE config' = config
  OBVIOUS
<1>1. CASE Ask \/ DeadlinePasses \/ Terminating \/ UNCHANGED vars
  BY <1>1 DEF Ask, DeadlinePasses, Terminating, vars, others
<1>2. CASE Moves
  <2>1. UNCHANGED others \/ UNCHANGED Rest \/ config' = config
    <3>1. ASSUME NEW g \in DOMAIN go,
                 \/ RuleMatches(g) \/ RuleIsSkipped(g) \/ MatcherFails(g) \/ SequenceEnds(g)
                 \/ Accept(g) \/ Exit(g) \/ Reject(g) \/ Return(g) \/ Jump(g) \/ Goto(g)
                 \/ Try(g) \/ TryReturns(g) \/ ExecSequence(g) \/ ExecReturns(g)
                 \/ Forward(g) \/ HearAddress(g) \/ HearOther(g) \/ SecondaryReturns(g)
                 \/ PreferOther(g) \/ PreferPreferred(g) \/ BlockKnown(g) \/ Block(g)
                 \/ HearOriginal(g)
                 \/ \E pc \in {"forward", "fallback", "select", "wait"} : GiveUp(g, pc)
          PROVE  UNCHANGED others
      BY <3>1, Zenon DEF RuleMatches, RuleIsSkipped, MatcherFails, SequenceEnds, LoopHead, Accept,
           Exit, Reject, Return, Jump, Goto, Try, TryReturns, ExecSequence, ExecReturns, Forward,
           HearAddress, HearOther, SecondaryReturns, PreferOther, PreferPreferred, BlockKnown,
           Block, HearOriginal, GiveUp
    <3>2. ASSUME NEW g \in DOMAIN go,
                 \/ Fallback(g) \/ PrimaryReturns(g) \/ Send(g) \/ Hold(g) \/ Standby(g)
                 \/ HearFailure(g) \/ HearResponse(g) \/ AskBoth(g) \/ OriginalReturns(g)
                 \/ PassOriginal(g)
          PROVE  UNCHANGED Rest
      BY <3>2, Zenon DEF Fallback, PrimaryReturns, Send, Hold, Standby, HearFailure, HearResponse,
           AskBoth, StartBoth, OriginalReturns, PassOriginal
    <3>3. ASSUME NEW g \in DOMAIN go, HandleReturns(g) \/ PreferredReturns(g) \/ ReferenceReturns(g)
          PROVE  config' = config
      BY <3>3 DEF HandleReturns, PreferredReturns, ReferenceReturns
    <3> QED
      BY <1>2, <3>1, <3>2, <3>3, Zenon DEF Moves
  <2> QED
    BY <2>1 DEF others, Rest
<1> QED
  BY <1>1, <1>2 DEF Next

\* Chain is what its definition says, as the walkers jumped back to are there:
\* the least sets that are closed under jumping back satisfy the equation.
Least(c) ==
    {x \in DOMAIN heap : \A S \in SUBSET DOMAIN heap :
        c \in S /\ (\A d \in S : heap[d].back # NoCell => heap[d].back \in S) => x \in S}

LEMMA ChainIs ==
    ASSUME \A c \in DOMAIN heap : heap[c].back # NoCell => heap[c].back \in DOMAIN heap
    PROVE  \A c \in DOMAIN heap :
              Chain[c] = {c} \cup IF heap[c].back = NoCell THEN {} ELSE Chain[heap[c].back]
<1> DEFINE body(f) == [c \in DOMAIN heap |->
                          {c} \cup IF heap[c].back = NoCell THEN {} ELSE f[heap[c].back]]
           least == [c \in DOMAIN heap |-> Least(c)]
<1>1. least = body(least)
  <2>1. ASSUME NEW c \in DOMAIN heap, heap[c].back = NoCell
        PROVE  Least(c) = {c}
    <3>1. {c} \in SUBSET DOMAIN heap /\ (\A d \in {c} : heap[d].back # NoCell => heap[d].back \in {c})
      BY <2>1
    <3>2. \A x \in Least(c) : x \in {c}
      BY <3>1 DEF Least
    <3>3. c \in Least(c)
      BY DEF Least
    <3> QED
      BY <3>2, <3>3
  <2>2. ASSUME NEW c \in DOMAIN heap, heap[c].back # NoCell
        PROVE  Least(c) = {c} \cup Least(heap[c].back)
    <3> DEFINE b == heap[c].back
    <3>1. b \in DOMAIN heap
      BY <2>2
    <3>2. Least(b) \subseteq DOMAIN heap /\ b \in Least(b)
      BY <3>1 DEF Least
    <3>3. \A d \in Least(b) : heap[d].back # NoCell => heap[d].back \in Least(b)
      BY <3>1, Zenon DEF Least
    <3>4. \A x \in Least(c) : x \in {c} \cup Least(b)
      <4>1. {c} \cup Least(b) \in SUBSET DOMAIN heap
        BY <3>2
      <4>2. \A d \in {c} \cup Least(b) : heap[d].back # NoCell => heap[d].back \in {c} \cup Least(b)
        BY <3>2, <3>3
      <4> QED
        BY <4>1, <4>2 DEF Least
    <3>5. \A x \in Least(b) : x \in Least(c)
      BY <2>2 DEF Least
    <3>6. c \in Least(c)
      BY DEF Least
    <3> QED
      BY <3>4, <3>5, <3>6
  <2> QED
    BY <2>1, <2>2
<1>2. Chain = CHOOSE f : f = body(f)
  BY DEF Chain
<1> HIDE DEF body, least
<1>3. \E f : f = body(f)
  BY <1>1
<1>4. Chain = body(Chain)
  BY <1>2, <1>3, Zenon
<1> QED
  BY <1>4 DEF body

\* A goroutine jumps back to its own walkers only: of the walkers that do not,
\* the oldest would jump back to an older one that does not.
LEMMA ChainIsOwned ==
    ASSUME IInv, NEW g, NEW c \in Owned(heap, g)
    PROVE  Chain[c] \subseteq Owned(heap, g)
<1>1. \A x \in DOMAIN heap :
         heap[x].back # NoCell => heap[x].back \in Owned(heap, x[1]) /\ heap[x].back[2] < x[2]
  BY DEF IInv, CellsGood, WalkerGood
<1>2. \A x \in DOMAIN heap : heap[x].back # NoCell => heap[x].back \in DOMAIN heap
  BY <1>1 DEF Owned
<1>3. \A x \in Owned(heap, g) :
         /\ x \in DOMAIN heap /\ x[1] = g
         /\ Chain[x] = {x} \cup IF heap[x].back = NoCell THEN {} ELSE Chain[heap[x].back]
  BY <1>2, ChainIs DEF Owned
<1>4. \A x \in Owned(heap, g) : x[2] \in Nat
  <2>1. IsFiniteSet(DOMAIN heap)
    BY DEF IInv, CellsGood
  <2>2. Cardinality(Owned(heap, g)) \in Nat
    BY <2>1, OwnedFinite
  <2> QED
    BY <1>3, <2>2 DEF IInv, CellsGood
<1> DEFINE T == {x[2] : x \in {y \in Owned(heap, g) : ~ (Chain[y] \subseteq Owned(heap, g))}}
<1>5. SUFFICES ASSUME T # {} PROVE FALSE
  OBVIOUS
<1>6. T \subseteq Nat
  BY <1>4
<1>7. PICK n \in T : \A m \in T : ~ (<<m, n>> \in OpToRel(<, Nat))
  <2> HIDE DEF T
  <2> QED
    BY <1>5, <1>6, NatLessThanWellFounded, WFMin
<1>8. PICK x \in Owned(heap, g) : ~ (Chain[x] \subseteq Owned(heap, g)) /\ n = x[2]
  OBVIOUS
<1> DEFINE b == heap[x].back
<1>9. b # NoCell /\ Chain[x] = {x} \cup Chain[b]
  BY <1>3, <1>8
<1>10. b \in Owned(heap, g) /\ b[2] < x[2]
  BY <1>1, <1>3, <1>9
<1>11. ~ (Chain[b] \subseteq Owned(heap, g))
  BY <1>8, <1>9
<1>12. b[2] \in T
  BY <1>10, <1>11
<1>13. <<b[2], n>> \in OpToRel(<, Nat)
  BY <1>4, <1>8, <1>10 DEF OpToRel
<1> QED
  BY <1>7, <1>12, <1>13

LEMMA WalkersAreOwned ==
    ASSUME IInv, NEW g \in DOMAIN go
    PROVE  Walkers(g) \subseteq Owned(heap, g)
<1>1. go[g].stack \in Seq(Frames(heap, g))
  BY DEF IInv, Stacked
<1>2. \A k \in DOMAIN go[g].stack : go[g].stack[k].cell \in Owned(heap, g)
  <2>1. \A k \in DOMAIN go[g].stack : go[g].stack[k] \in Frames(heap, g)
    BY <1>1
  <2> QED
    BY <2>1 DEF Frames
<1> QED
  BY <1>2, ChainIsOwned DEF Walkers

\* As long as no rule jumps to a sequence in which prefer_ipv4 stands, no two
\* goroutines run the same walker: each runs those it has made, and none of
\* them jumps back to another's, through however many tails, calls and tries.
THEOREM WalkersArePrivateCorrect == Spec => [](NoPreferBehindJump(config) => WalkersArePrivate)
<1>1. Init => (NoPreferBehindJump(config) => IInv)
  BY InitHolds
<1>2. (NoPreferBehindJump(config) => IInv) /\ [Next]_vars => (NoPreferBehindJump(config) => IInv)'
  BY StepHolds, ConfigStays
<1>3. (NoPreferBehindJump(config) => IInv) => (NoPreferBehindJump(config) => WalkersArePrivate)
  <2>1. ASSUME IInv, NEW g \in DOMAIN go, NEW h \in DOMAIN go, g # h
        PROVE  Walkers(g) \cap Walkers(h) = {}
    <3>1. Walkers(g) \subseteq Owned(heap, g) /\ Walkers(h) \subseteq Owned(heap, h)
      BY <2>1, WalkersAreOwned
    <3> QED
      BY <2>1, <3>1 DEF Owned
  <2> QED
    BY <2>1 DEF WalkersArePrivate
<1> QED
  BY <1>1, <1>2, <1>3, PTL DEF Spec
=============================================================================
