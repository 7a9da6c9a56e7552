---------------------------- MODULE MCQueryPath -----------------------------
(****************************************************************************)
(* Small instances of QueryPath: the configurations, and what they mean.    *)
(****************************************************************************)
EXTENDS QueryPath

M == INSTANCE QueryMeaning

When(when, exec) == [when |-> when, exec |-> exec, to |-> ""]
Do(exec) == When("always", exec)
Run(exec, tag) == [when |-> "always", exec |-> exec, to |-> tag]
Sequence(rules) == [kind |-> "sequence", rules |-> rules]
Upstream(a, aaaa) == [A |-> a, AAAA |-> aaaa, TXT |-> "empty"]
Race(upstreams, n) == [kind |-> "forward", upstreams |-> upstreams, concurrent |-> n]
Choice(p, s, standby) ==
    [kind |-> "fallback", primary |-> p, secondary |-> s, standby |-> standby]

Ok == Race(<<Upstream("address", "address")>>, 1)
Broken == Race(<<Upstream("error", "error")>>, 1)
Ask1(plugins) == [plugins |-> plugins, queries |-> <<"A">>, late |-> TRUE]

(* Every program of three short sequences, of which each refers to later     *)
(* ones only.                                                               *)
Leaf == {Do("accept"), Do("exit"), Do("reject"), Do("return"), Run("exec", "fwd"),
         When("answered", "accept"), When("unanswered", "return"), When("error", "accept")}
Into(tag) == {Run(exec, tag) : exec \in {"jump", "goto", "exec", "try"}}

Sequential ==
    {Ask1([main |-> Sequence(<<r1, r2>>), s |-> Sequence(s), t |-> Sequence(t), fwd |-> fwd]) :
       r1 \in Into("s"), r2 \in {Run("exec", "fwd"), Do("reject"), When("unanswered", "exit")},
       s \in {<<r, x>> : r \in Into("t"), x \in Leaf} \cup {<<x, r>> : r \in Into("t"), x \in Leaf},
       t \in {<<>>} \cup {<<x>> : x \in Leaf},
       fwd \in {Ok, Broken}}

(* Every race of three upstreams for two or three answers.                  *)
Kind == {"address", "empty", "fail", "error"}
Races ==
    {Ask1([main |-> Sequence(<<Run("exec", "fwd")>>),
           fwd |-> Race(<<Upstream(x, x), Upstream(y, y), Upstream(z, z)>>, n)]) :
       x, y, z \in Kind, n \in 2 .. 3}

(* A fallback, alone and behind prefer_ipv4, with primaries and secondaries  *)
(* that answer, fail, exit or end without a response.                       *)
Targets == {<<Run("exec", "fwd")>>, <<Run("exec", "bad")>>, <<Do("reject"), Do("exit")>>,
            <<Run("exec", "fwd"), Do("exit")>>, <<Do("return")>>}
Fallbacks ==
    {Ask1([main |-> Sequence(before \o <<Run("exec", "fb"), Do("accept")>>),
           fb |-> Choice("p", "b", standby), p |-> Sequence(p), b |-> Sequence(b),
           fwd |-> Ok, bad |-> Broken]) :
       before \in {<<>>, <<Do("prefer")>>}, p, b \in Targets, standby \in BOOLEAN}

(* prefer_ipv4 at the head of the entry: before a forward with names of all  *)
(* kinds, and before each way to run a sequence.                            *)
Prefer(r, s, u, queries, may_pass) ==
    [plugins |-> [main |-> Sequence(<<Do("prefer"), r>>), s |-> Sequence(s), fwd |-> Race(<<u>>, 1)],
     queries |-> queries, late |-> may_pass]
Prefers ==
    {Prefer(Run("exec", "fwd"), <<>>, Upstream(a, aaaa), queries, FALSE) :
       a \in Kind, aaaa \in {"address", "error"},
       queries \in {<<"A", "AAAA">>, <<"AAAA", "AAAA">>, <<"TXT">>}}
    \cup {Prefer(r, s, Upstream(a, "address"), <<"AAAA">>, may_pass) :
       r \in Into("s"), a \in {"address", "error"}, may_pass \in BOOLEAN,
       s \in {<<Run("exec", "fwd"), Do("exit")>>, <<Do("exit")>>, <<Run("exec", "fwd")>>}}

(* Both lookups of prefer_ipv4 end in a fallback.                           *)
PreferFallback ==
    {[plugins |-> [main |-> Sequence(<<Do("prefer"), Run("exec", "fb")>>),
                   fb |-> Choice("p", "b", standby), p |-> Sequence(<<Run("exec", "bad")>>),
                   b |-> Sequence(<<Run("exec", "fwd")>>), fwd |-> Ok, bad |-> Broken],
      queries |-> <<"AAAA">>, late |-> FALSE] : standby \in BOOLEAN}

AllPaths == Sequential \cup Races \cup Fallbacks \cup Prefers \cup PreferFallback

(* prefer_ipv4 in a sequence that the entry jumps to.                       *)
JumpToPrefer ==
    {[plugins |-> [main |-> Sequence(<<Run("jump", "s"), Run("exec", "fwd")>>),
                   s |-> Sequence(<<Do("prefer")>>), fwd |-> Ok],
      queries |-> <<"AAAA">>, late |-> FALSE]}

-----------------------------------------------------------------------------
\* The client gets an answer that the configuration means: the walkers, the
\* tail calls, the goroutines and the channels of the plugins lose no rule and
\* no response, and a later one never takes the place of the one that counts.
AnswerIsMeant ==
    \A i \in DOMAIN answer :
        answer[i] # None =>
            answer[i] \in M!Meaning(config.plugins, config.queries[i], elapsed # {}, late)

\* An AAAA is suppressed when the name has an A, as long as nothing was slow.
MissesNoSuppression ==
    \A i \in DOMAIN answer :
        /\ config.queries[i] = "AAAA" /\ answer[i] # None /\ elapsed = {} /\ ~late
        => answer[i] = Message("AAAA", "blocked")
=============================================================================
