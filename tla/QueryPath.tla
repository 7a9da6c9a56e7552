----------------------------- MODULE QueryPath ------------------------------
(****************************************************************************)
(* The way of a query through the plugins: the entry handler, the sequence  *)
(* interpreter (a ChainWalker runs the rules of a sequence and jumps back   *)
(* to the walker it came from), and the plugins that run their own          *)
(* goroutines: forward, fallback and prefer_ipv4 (dual_selector).           *)
(*                                                                          *)
(* A goroutine is named by the goroutine that started it and its role.  It  *)
(* has a stack of calls of ExecNext, of which the calls in tail position    *)
(* have replaced their callers.  Walkers are cells of the heap, because the *)
(* walker a sequence jumps back to is a pointer, which two goroutines may   *)
(* hold.  Of a message only what the plugins look at is kept.               *)
(****************************************************************************)
EXTENDS Naturals, Sequences, FiniteSets, SequencesExt

CONSTANTS
    Configs,  \* configurations
    None      \* nil

(* A configuration is a record [plugins, queries, late]: for each tag a      *)
(* plugin, the types the client asks for, one after the other, and whether   *)
(* the deadline of the last query may pass (bound).  A plugin is             *)
(*   [kind |-> "sequence", rules |-> <<[when, exec, to], ...>>]              *)
(*   [kind |-> "forward",  upstreams |-> <<type -> outcome, ...>>, concurrent] *)
(*   [kind |-> "fallback", primary, secondary, standby]                      *)
(* The entry is the sequence "main"; primary and secondary are sequences, of *)
(* one rule when the plugin named is none.  Bounds: a goroutine starts others *)
(* once, and one name is asked for, within the life of an okCache entry.     *)

Preferred == "A"

\* What the constructors of the plugins have checked: the plugins that rules and
\* fallbacks name exist, and are sequences where they have to be.
SequencesOf(c) == {t \in DOMAIN c.plugins : c.plugins[t].kind = "sequence"}

ASSUME ConfigsTyped ==
    \A c \in Configs :
        /\ "main" \in SequencesOf(c)
        /\ \A t \in SequencesOf(c) :
              LET rules == c.plugins[t].rules IN
              /\ rules \in Seq([when : STRING, exec : STRING, to : STRING])
              /\ \A i \in 1 .. Len(rules) :
                    /\ rules[i].exec \in {"jump", "goto", "try"} => rules[i].to \in SequencesOf(c)
                    /\ rules[i].exec = "exec" => rules[i].to \in DOMAIN c.plugins
        /\ \A t \in DOMAIN c.plugins :
              LET p == c.plugins[t] IN
              p.kind = "fallback" => {p.primary, p.secondary} \subseteq SequencesOf(c)

VARIABLES
    config,
    go,       \* the goroutines started
    heap,     \* the walkers
    chan,     \* the channels of the goroutines that wait for others
    okCache,  \* preferTypOkCache
    late,     \* the deadline of the queries has passed
    elapsed,  \* goroutines that went on because a timer of theirs ran out
    answer    \* what the client got for each query

vars == <<config, go, heap, chan, okCache, late, elapsed, answer>>

Plugin(tag) == config.plugins[tag]

Extend(f, x, v) == [y \in {x} \cup DOMAIN f |-> IF y = x THEN v ELSE f[y]]

Init ==
    /\ config \in Configs
    /\ go = [g \in {} |-> None] /\ heap = [c \in {} |-> None] /\ chan = [g \in {} |-> None]
    /\ okCache = FALSE /\ late = FALSE /\ elapsed = {}
    /\ answer = [i \in DOMAIN config.queries |-> None]

-----------------------------------------------------------------------------
(* Walkers, frames and goroutines.                                          *)

NoCell == <<>>

\* NewChainWalker.
Walker(tag, back) == [seq |-> tag, p |-> 1, back |-> back]

\* The n-th walker that g makes from now on.
Cell(g, n) == <<g, Cardinality({c \in DOMAIN heap : c[1] = g}) + n>>

\* A call of ExecNext on a walker; then says what it is in the middle of.
Frame(cell) == [cell |-> cell, node |-> 0, then |-> None]

Goroutine(q, cell, pc) ==
    [pc |-> pc, stack |-> <<Frame(cell)>>, q |-> q, err |-> None, left |-> {}, first |-> 0,
     heard |-> {}]

Top(g) == Last(go[g].stack)
WalkerOf(g) == heap[Top(g).cell]
Rules(g) == Plugin(WalkerOf(g).seq).rules
At(g, pc) == g \in DOMAIN go /\ go[g].pc = pc

SetTop(r, f) == [r EXCEPT !.stack = Append(Front(@), f)]
Becomes(g, r) == go' = [go EXCEPT ![g] = r]

\* The call on top of the stack returns err.
Back(r, err) == [r EXCEPT !.pc = "back", !.err = err]

\* The plugin of a rule that is followed by the next one has returned; w.p is
\* read again, to be incremented.
Done(g, r) == SetTop([r EXCEPT !.pc = "next"], [Top(g) EXCEPT !.node = WalkerOf(g).p])

SetResponse(r, m) == [r EXCEPT !.q.resp = m]

Message(type, kind) == [type |-> type, kind |-> kind]

\* Calls ExecNext on a new walker, kept in a cell, and goes on as then says.
Call(g, walker, then) ==
    /\ heap' = Extend(heap, Cell(g, 1), walker)
    /\ Becomes(g, [go[g] EXCEPT !.pc = "loop",
                     !.stack = Append(Front(@), [Top(g) EXCEPT !.then = then])
                                 \o <<Frame(Cell(g, 1))>>])

\* The same in tail position.
TailCall(g, walker) ==
    /\ heap' = Extend(heap, Cell(g, 1), walker)
    /\ Becomes(g, SetTop([go[g] EXCEPT !.pc = "loop"], Frame(Cell(g, 1))))

others == <<config, chan, okCache, late, elapsed, answer>>

-----------------------------------------------------------------------------
(* EntryHandler.Handle.                                                     *)

\* The client asks one query after the other.
Ask ==
    \E i \in DOMAIN config.queries :
        LET g == <<i>> IN
        /\ g \notin DOMAIN go /\ (i > 1 => answer[i - 1] # None)
        /\ heap' = Extend(heap, Cell(g, 1), Walker("main", NoCell))
        /\ go' = Extend(go, g, Goroutine([type |-> config.queries[i], resp |-> None],
                                         Cell(g, 1), "loop"))
        /\ UNCHANGED others

\* An exit is no error; without a response the query is refused.
Reply(type, resp, err) ==
    IF err \notin {None, "exit"} THEN Message(type, "SERVFAIL")
    ELSE IF resp = None THEN Message(type, "REFUSED") ELSE resp

HandleReturns(g) ==
    /\ At(g, "back") /\ Len(go[g].stack) = 1 /\ Len(g) = 1
    /\ answer' = [answer EXCEPT ![g[1]] = Reply(config.queries[g[1]], go[g].q.resp, go[g].err)]
    /\ Becomes(g, [go[g] EXCEPT !.pc = "ended"])
    /\ UNCHANGED <<config, heap, chan, okCache, late, elapsed>>

\* The contexts of all goroutines of a query have the deadline of its entry.
DeadlinePasses ==
    /\ config.late /\ ~late /\ <<Len(config.queries)>> \in DOMAIN go /\ late' = TRUE
    /\ UNCHANGED <<config, go, heap, chan, okCache, elapsed, answer>>

-----------------------------------------------------------------------------
(* ExecNext.                                                                *)

\* The head of the loop: at w.p, or after w.p++, of which the value was read
\* in an earlier step.
Position(g) == IF go[g].pc = "next" THEN Top(g).node + 1 ELSE WalkerOf(g).p

LoopHead(g) ==
    /\ g \in DOMAIN go /\ go[g].pc \in {"loop", "next"}
    /\ heap' = [heap EXCEPT ![Top(g).cell].p = Position(g)]
    /\ UNCHANGED others

\* has_resp and its negation, no matcher, and one that returns an error.
Holds(when, q) ==
    \/ when = "always"
    \/ when = "answered" /\ q.resp # None
    \/ when = "unanswered" /\ q.resp = None

RuleMatches(g) ==
    /\ LoopHead(g) /\ Position(g) <= Len(Rules(g))
    /\ Holds(Rules(g)[Position(g)].when, go[g].q)
    /\ Becomes(g, SetTop([go[g] EXCEPT !.pc = "run"], [Top(g) EXCEPT !.node = Position(g)]))

RuleIsSkipped(g) ==
    /\ LoopHead(g) /\ Position(g) <= Len(Rules(g))
    /\ LET when == Rules(g)[Position(g)].when IN when # "error" /\ ~Holds(when, go[g].q)
    /\ Becomes(g, SetTop([go[g] EXCEPT !.pc = "next"], [Top(g) EXCEPT !.node = Position(g)]))

MatcherFails(g) ==
    /\ LoopHead(g) /\ Position(g) <= Len(Rules(g))
    /\ Rules(g)[Position(g)].when = "error"
    /\ Becomes(g, Back(go[g], "failed"))

\* w.jumpBack.ExecNext, in tail position, on the walker itself.
JumpBack(r, w) ==
    IF w.back = NoCell THEN Back(r, None)
    ELSE SetTop([r EXCEPT !.pc = "loop"], Frame(w.back))

SequenceEnds(g) ==
    /\ LoopHead(g) /\ Position(g) > Len(Rules(g))
    /\ Becomes(g, JumpBack(go[g], WalkerOf(g)))

-----------------------------------------------------------------------------
(* The rules of built_in.go, which get the walker of the next rule.  Its    *)
(* place is computed from w.p, read again.                                  *)

Rule(g) == Rules(g)[Top(g).node]
Runs(g, exec) == At(g, "run") /\ Rule(g).exec = exec
NextWalker(g) == [WalkerOf(g) EXCEPT !.p = @ + 1]

\* The plugin that an exec rule runs.
Executable(g) == Plugin(Rule(g).to)

Accept(g) == Runs(g, "accept") /\ Becomes(g, Back(go[g], None)) /\ UNCHANGED <<heap, others>>

Exit(g) == Runs(g, "exit") /\ Becomes(g, Back(go[g], "exit")) /\ UNCHANGED <<heap, others>>

Reject(g) ==
    /\ Runs(g, "reject")
    /\ Becomes(g, Back(SetResponse(go[g], Message(go[g].q.type, "rejected")), None))
    /\ UNCHANGED <<heap, others>>

Return(g) ==
    Runs(g, "return") /\ Becomes(g, JumpBack(go[g], WalkerOf(g))) /\ UNCHANGED <<heap, others>>

\* The walker to jump back to is a cell of its own.
Jump(g) ==
    /\ Runs(g, "jump")
    /\ heap' = Extend(Extend(heap, Cell(g, 1), NextWalker(g)),
                      Cell(g, 2), Walker(Rule(g).to, Cell(g, 1)))
    /\ Becomes(g, SetTop([go[g] EXCEPT !.pc = "loop"], Frame(Cell(g, 2))))
    /\ UNCHANGED others

Goto(g) == Runs(g, "goto") /\ TailCall(g, Walker(Rule(g).to, NoCell)) /\ UNCHANGED others

\* A sequence, or several execs in one rule, which make a sequence.
ExecSequence(g) ==
    /\ Runs(g, "exec") /\ Executable(g).kind = "sequence"
    /\ Call(g, Walker(Rule(g).to, NoCell), "exec") /\ UNCHANGED others

\* next is copied before the target runs.
Try(g) ==
    /\ Runs(g, "try")
    /\ heap' = Extend(Extend(heap, Cell(g, 1), NextWalker(g)),
                      Cell(g, 2), Walker(Rule(g).to, NoCell))
    /\ Becomes(g, [go[g] EXCEPT !.pc = "loop",
                     !.stack = Append(Front(@), [Frame(Cell(g, 1)) EXCEPT !.then = "try"])
                                 \o <<Frame(Cell(g, 2))>>])
    /\ UNCHANGED others

\* ExecNext returns to its caller on the stack.
Pop(g) == [go[g] EXCEPT !.stack = Front(@)]
Caller(g) == Last(Front(go[g].stack))
Returns(g, then) ==
    At(g, "back") /\ Len(go[g].stack) > 1 /\ Caller(g).then = then /\ UNCHANGED heap

ExecReturns(g) ==
    /\ Returns(g, "exec") /\ UNCHANGED others
    /\ Becomes(g, IF go[g].err # None THEN Pop(g)
                  ELSE SetTop([Pop(g) EXCEPT !.pc = "next"],
                              [Caller(g) EXCEPT !.node = heap[Caller(g).cell].p]))

\* Mutant: try passes every error on.
TryPassesExit(g) ==
    /\ Returns(g, "try") /\ UNCHANGED others
    /\ Becomes(g, IF go[g].err # None THEN Pop(g)
                  ELSE SetTop([Pop(g) EXCEPT !.pc = "loop", !.err = None], Frame(Caller(g).cell)))

TryReturns(g) ==
    /\ Returns(g, "try") /\ UNCHANGED others
    /\ Becomes(g, IF go[g].err \notin {None, "exit"} THEN Pop(g)
                  ELSE SetTop([Pop(g) EXCEPT !.pc = "loop", !.err = None], Frame(Caller(g).cell)))

-----------------------------------------------------------------------------
(* Forward.exchange.                                                        *)

\* It asks so many upstreams at once, from a random one on.
Forward(g) ==
    /\ Runs(g, "exec") /\ Executable(g).kind = "forward"
    /\ \E r \in 1 .. Len(Executable(g).upstreams) :
         Becomes(g, [go[g] EXCEPT !.pc = "forward", !.first = r, !.heard = {},
                                  !.left = 0 .. Executable(g).concurrent - 1])
    /\ UNCHANGED <<heap, others>>

\* What the i-th upstream asked makes of the query.
Outcome(g, i) ==
    LET us == Executable(g).upstreams IN us[((go[g].first - 1 + i) % Len(us)) + 1][go[g].q.type]

Responds(g, r, kind) == Becomes(g, Done(g, SetResponse(r, Message(r.q.type, kind))))

\* An address is taken at once.
HearAddress(g) ==
    /\ At(g, "forward") /\ \E i \in go[g].left : Outcome(g, i) = "address"
    /\ Responds(g, go[g], "address")
    /\ UNCHANGED <<heap, others>>

\* Otherwise the first result of the best kind, once all are there.
HearOther(g) ==
    /\ At(g, "forward")
    /\ \E i \in go[g].left :
         LET o == Outcome(g, i)
             r == [go[g] EXCEPT !.left = @ \ {i}, !.heard = @ \cup {o}]
         IN /\ o # "address"
            /\ \/ r.left # {} /\ Becomes(g, r)
               \/ r.left = {} /\ "empty" \in r.heard /\ Responds(g, r, "empty")
               \/ /\ r.left = {} /\ "empty" \notin r.heard /\ "fail" \in r.heard
                  /\ Responds(g, r, "fail")
               \/ r.left = {} /\ r.heard = {"error"} /\ Becomes(g, Back(r, "failed"))
    /\ UNCHANGED <<heap, others>>

GiveUp(g, pc) ==
    At(g, pc) /\ late /\ Becomes(g, Back(go[g], "late")) /\ UNCHANGED <<heap, others>>

-----------------------------------------------------------------------------
(* Goroutines that g starts and waits for.                                  *)

Child(g, role) == Append(g, role)
Parent(g) == Front(g)
Ends(g) == At(g, "back") /\ Len(go[g].stack) = 1
IsChild(g, role) == Len(g) > 1 /\ Last(g) = role

Channels(standby) ==
    [inbox |-> <<>>, got |-> 0, standby |-> standby, primary |-> "running", verdict |-> None,
     done |-> FALSE]

\* Starts c1 and c2, and waits for them at pc.
Start(g, pc, standby, c1, r1, c2, r2) ==
    /\ g \notin DOMAIN chan /\ chan' = Extend(chan, g, Channels(standby))
    /\ go' = Extend(Extend([go EXCEPT ![g].pc = pc], c1, r1), c2, r2)

Rest == <<config, okCache, late, answer>>

-----------------------------------------------------------------------------
(* fallback.doFallback.                                                     *)

Fallback(g) ==
    /\ Runs(g, "exec") /\ Executable(g).kind = "fallback"
    /\ LET f == Executable(g)
           p == Child(g, "primary")
           s == Child(g, "secondary")
       IN /\ heap' = Extend(Extend(heap, Cell(p, 1), Walker(f.primary, NoCell)),
                            Cell(s, 1), Walker(f.secondary, NoCell))
          /\ Start(g, "fallback", f.standby, p, Goroutine(go[g].q, Cell(p, 1), "loop"),
                   s, Goroutine(go[g].q, Cell(s, 1), IF f.standby THEN "loop" ELSE "hold"))
    /\ UNCHANGED <<Rest, elapsed>>

IsStandby(g) == chan[Parent(g)].standby

Failed(r) == r.err # None \/ r.q.resp = None

\* The primary closes primFailed or primDone, and then sends.
PrimaryReturns(g) ==
    /\ Ends(g) /\ IsChild(g, "primary")
    /\ chan' = [chan EXCEPT ![Parent(g)].primary = IF Failed(go[g]) THEN "failed" ELSE "done"]
    /\ Becomes(g, [go[g] EXCEPT !.pc = "send"])
    /\ UNCHANGED <<heap, Rest, elapsed>>

Send(g) ==
    /\ At(g, "send")
    /\ chan' = [chan EXCEPT ![Parent(g)].inbox = Append(@, IF Failed(go[g]) THEN None ELSE g)]
    /\ Becomes(g, [go[g] EXCEPT !.pc = "ended"])
    /\ UNCHANGED <<heap, Rest, elapsed>>

\* The secondary waits for the primary or for the threshold.
PrimaryIs(g, what) == chan[Parent(g)].primary = what

TimesOut(g) == elapsed' = elapsed \cup {g}

Hold(g) ==
    /\ At(g, "hold") /\ UNCHANGED <<heap, chan, Rest>>
    /\ \/ /\ PrimaryIs(g, "done") /\ UNCHANGED elapsed
          /\ Becomes(g, [go[g] EXCEPT !.pc = "send", !.err = "skipped"])
       \/ /\ PrimaryIs(g, "failed") /\ UNCHANGED elapsed
          /\ Becomes(g, [go[g] EXCEPT !.pc = "loop"])
       \/ TimesOut(g) /\ Becomes(g, [go[g] EXCEPT !.pc = "loop"])

\* Mutant: a secondary without a response sends nothing.
SilentWithoutResponse(g) ==
    /\ Ends(g) /\ IsChild(g, "secondary")
    /\ Becomes(g, [go[g] EXCEPT !.pc = IF IsStandby(g) /\ ~Failed(go[g]) THEN "standby"
                                       ELSE IF go[g].err = None /\ go[g].q.resp = None THEN "ended"
                                       ELSE "send"])
    /\ UNCHANGED <<heap, others>>

SecondaryReturns(g) ==
    /\ Ends(g) /\ IsChild(g, "secondary")
    /\ Becomes(g, [go[g] EXCEPT !.pc = IF IsStandby(g) /\ ~Failed(go[g]) THEN "standby"
                                                                        ELSE "send"])
    /\ UNCHANGED <<heap, others>>

\* A secondary that was not held keeps its response until it is wanted.
Standby(g) ==
    /\ At(g, "standby") /\ UNCHANGED <<heap, chan, Rest>>
    /\ \/ /\ late \/ PrimaryIs(g, "done")
          /\ UNCHANGED elapsed /\ Becomes(g, [go[g] EXCEPT !.pc = "ended"])
       \/ PrimaryIs(g, "failed") /\ UNCHANGED elapsed /\ Becomes(g, [go[g] EXCEPT !.pc = "send"])
       \/ TimesOut(g) /\ Becomes(g, [go[g] EXCEPT !.pc = "send"])

Received(g) == Head(chan[g].inbox)

HearFailure(g) ==
    /\ At(g, "fallback") /\ chan[g].inbox # <<>> /\ Received(g) = None
    /\ chan' = [chan EXCEPT ![g].inbox = Tail(@), ![g].got = @ + 1]
    /\ Becomes(g, IF chan[g].got = 1 THEN Back(go[g], "failed") ELSE go[g])
    /\ UNCHANGED <<heap, Rest, elapsed>>

\* CopyTo: the query becomes that of the goroutine that sent it.
HearResponse(g) ==
    /\ At(g, "fallback") /\ chan[g].inbox # <<>> /\ Received(g) # None
    /\ chan' = [chan EXCEPT ![g].inbox = Tail(@)]
    /\ Becomes(g, Done(g, [go[g] EXCEPT !.q = go[Received(g)].q]))
    /\ UNCHANGED <<heap, Rest, elapsed>>

-----------------------------------------------------------------------------
(* Selector.Exec of prefer_ipv4, which runs the rest of the sequence.       *)

HasPreferred(q) == q.resp # None /\ q.resp.kind = "address" /\ q.resp.type = Preferred

\* normalizeExecErr.
Normalized(r) == IF r.err = "exit" /\ r.q.resp # None THEN None ELSE r.err

PreferOther(g) ==
    /\ Runs(g, "prefer") /\ go[g].q.type \notin {"A", "AAAA"}
    /\ TailCall(g, NextWalker(g)) /\ UNCHANGED others

PreferPreferred(g) ==
    /\ Runs(g, "prefer") /\ go[g].q.type = Preferred
    /\ Call(g, NextWalker(g), "prefer") /\ UNCHANGED others

PreferredReturns(g) ==
    /\ Returns(g, "prefer")
    /\ okCache' = (okCache \/ (Normalized(go[g]) = None /\ HasPreferred(go[g].q)))
    /\ Becomes(g, [Pop(g) EXCEPT !.err = Normalized(go[g])])
    /\ UNCHANGED <<config, chan, late, elapsed, answer>>

Blocked(g) == Back(SetResponse(go[g], Message(go[g].q.type, "blocked")), None)

BlockKnown(g) ==
    /\ Runs(g, "prefer") /\ go[g].q.type = "AAAA" /\ okCache
    /\ Becomes(g, Blocked(g)) /\ UNCHANGED <<heap, others>>

\* Both lookups run the rest of the sequence on walkers of their own, which
\* jump back to the same walker.  The reference lookup asks for an A.
Reference(g) == Child(g, "reference")
Original(g) == Child(g, "original")

StartBoth(g, refCell, orgCell) ==
    /\ Runs(g, "prefer") /\ go[g].q.type = "AAAA" /\ ~okCache
    /\ heap' = Extend(Extend(heap, refCell, NextWalker(g)), orgCell, NextWalker(g))
    /\ Start(g, "select", FALSE,
             Reference(g), Goroutine([go[g].q EXCEPT !.type = Preferred], refCell, "loop"),
             Original(g), Goroutine(go[g].q, orgCell, "loop"))
    /\ UNCHANGED <<Rest, elapsed>>

\* Mutant: both lookups run the walker they got.
AskBothOnOneWalker(g) == StartBoth(g, Cell(Reference(g), 1), Cell(Reference(g), 1))

AskBoth(g) == StartBoth(g, Cell(Reference(g), 1), Cell(Original(g), 1))

ReferenceReturns(g) ==
    /\ Ends(g) /\ IsChild(g, "reference")
    /\ LET found == Normalized(go[g]) = None /\ HasPreferred(go[g].q) IN
       /\ okCache' = (okCache \/ found)
       /\ chan' = [chan EXCEPT ![Parent(g)].verdict = IF found THEN "block" ELSE "pass"]
    /\ Becomes(g, [go[g] EXCEPT !.pc = "ended"])
    /\ UNCHANGED <<config, heap, late, elapsed, answer>>

OriginalReturns(g) ==
    /\ Ends(g) /\ IsChild(g, "original")
    /\ chan' = [chan EXCEPT ![Parent(g)].done = TRUE]
    /\ Becomes(g, [go[g] EXCEPT !.pc = "ended", !.err = Normalized(go[g])])
    /\ UNCHANGED <<heap, Rest, elapsed>>

Block(g) ==
    /\ At(g, "select") \/ At(g, "wait")
    /\ chan[g].verdict = "block" /\ Becomes(g, Blocked(g)) /\ UNCHANGED <<heap, others>>

HearOriginal(g) ==
    /\ At(g, "select") /\ chan[g].done
    /\ Becomes(g, [go[g] EXCEPT !.pc = "wait"]) /\ UNCHANGED <<heap, others>>

\* The reference lookup found nothing, or took too long.
PassOriginal(g) ==
    /\ At(g, "wait")
    /\ \/ chan[g].verdict = "pass" /\ UNCHANGED elapsed
       \/ TimesOut(g)
    /\ LET org == go[Original(g)] IN Becomes(g, Back([go[g] EXCEPT !.q = org.q], org.err))
    /\ UNCHANGED <<heap, chan, Rest>>

-----------------------------------------------------------------------------
\* A step of a goroutine.
Moves ==
    \/ \E g \in DOMAIN go : HandleReturns(g)
    \/ \E g \in DOMAIN go : RuleMatches(g)
    \/ \E g \in DOMAIN go : RuleIsSkipped(g)
    \/ \E g \in DOMAIN go : MatcherFails(g)
    \/ \E g \in DOMAIN go : SequenceEnds(g)
    \/ \E g \in DOMAIN go : Accept(g)
    \/ \E g \in DOMAIN go : Exit(g)
    \/ \E g \in DOMAIN go : Reject(g)
    \/ \E g \in DOMAIN go : Return(g)
    \/ \E g \in DOMAIN go : Jump(g)
    \/ \E g \in DOMAIN go : Goto(g)
    \/ \E g \in DOMAIN go : Try(g)
    \/ \E g \in DOMAIN go : TryReturns(g)
    \/ \E g \in DOMAIN go : ExecSequence(g)
    \/ \E g \in DOMAIN go : ExecReturns(g)
    \/ \E g \in DOMAIN go : Forward(g)
    \/ \E g \in DOMAIN go : HearAddress(g)
    \/ \E g \in DOMAIN go : HearOther(g)
    \/ \E g \in DOMAIN go : Fallback(g)
    \/ \E g \in DOMAIN go : PrimaryReturns(g)
    \/ \E g \in DOMAIN go : SecondaryReturns(g)
    \/ \E g \in DOMAIN go : Send(g)
    \/ \E g \in DOMAIN go : Hold(g)
    \/ \E g \in DOMAIN go : Standby(g)
    \/ \E g \in DOMAIN go : HearFailure(g)
    \/ \E g \in DOMAIN go : HearResponse(g)
    \/ \E g \in DOMAIN go : PreferOther(g)
    \/ \E g \in DOMAIN go : PreferPreferred(g)
    \/ \E g \in DOMAIN go : PreferredReturns(g)
    \/ \E g \in DOMAIN go : BlockKnown(g)
    \/ \E g \in DOMAIN go : AskBoth(g)
    \/ \E g \in DOMAIN go : ReferenceReturns(g)
    \/ \E g \in DOMAIN go : OriginalReturns(g)
    \/ \E g \in DOMAIN go : Block(g)
    \/ \E g \in DOMAIN go : HearOriginal(g)
    \/ \E g \in DOMAIN go : PassOriginal(g)
    \/ \E g \in DOMAIN go, pc \in {"forward", "fallback", "select", "wait"} : GiveUp(g, pc)

AllEnded ==
    /\ \A i \in DOMAIN answer : answer[i] # None
    /\ \A g \in DOMAIN go : go[g].pc = "ended"

\* Every query is answered and every goroutine has ended.
Terminating == AllEnded /\ UNCHANGED vars

Next == Ask \/ DeadlinePasses \/ Moves \/ Terminating

\* Some goroutine runs as long as one can run, and the client goes on asking;
\* upstreams answer or time out.
Spec == Init /\ [][Next]_vars /\ WF_vars(Ask) /\ WF_vars(Moves)

-----------------------------------------------------------------------------
(* Properties.                                                              *)

\* A walker and those it may jump back to.
Chain[c \in DOMAIN heap] ==
    {c} \cup IF heap[c].back = NoCell THEN {} ELSE Chain[heap[c].back]

\* The walkers a goroutine runs or may jump back to.
Walkers(g) == UNION {Chain[go[g].stack[k].cell] : k \in DOMAIN go[g].stack}

\* No two goroutines run the same walker: an ExecNext that another one moves
\* would skip rules or run off the end of its sequence.
WalkersArePrivate ==
    \A g, h \in DOMAIN go :
        g # h /\ go[g].pc # "ended" /\ go[h].pc # "ended" => Walkers(g) \cap Walkers(h) = {}

\* Every query is answered, and no goroutine started for it waits for ever on
\* a channel, whatever order the primary, the secondary, the threshold and the
\* deadline come in.
EveryoneEnds == <>AllEnded
=============================================================================
