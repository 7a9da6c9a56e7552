---------------------------- MODULE QueryMeaning ----------------------------
(****************************************************************************)
(* What a configuration means: the responses a query may end with when      *)
(* every plugin is a function from a query to the outcomes it may have, and *)
(* the rest of a sequence is a continuation.  There are no walkers, no      *)
(* goroutines and no channels here; of time only whether some timer ran out *)
(* (waited) and whether the deadline passed (late) is known.                *)
(*                                                                          *)
(* An outcome is a pair of a response and an error.                         *)
(****************************************************************************)
EXTENDS Naturals, Sequences

CONSTANT None

Msg(type, kind) == [type |-> type, kind |-> kind]

\* The responses of an outcome without error go on to Next(_).
Chain(outcomes, Continue(_)) ==
    {o \in outcomes : o[2] # None} \cup UNION {Continue(o[1]) : o \in {x \in outcomes : x[2] = None}}

Passes(when, resp) == when = "always" \/ (when = "answered") = (resp # None)

Good(outcomes) == {o \in outcomes : o[2] = None /\ o[1] # None}

\* The best of the results of the upstreams asked, from the r-th on; an
\* address first.
Best(kinds) ==
    CHOOSE k \in kinds : \A x \in kinds :
        LET rank == [address |-> 1, empty |-> 2, fail |-> 3, error |-> 4] IN rank[k] <= rank[x]

ForwardMeans(p, type, resp) ==
    LET n == Len(p.upstreams)
        Asked(r) == {p.upstreams[((r + i) % n) + 1][type] : i \in 0 .. p.concurrent - 1}
        best == {Best(Asked(r)) : r \in 0 .. n - 1}
    IN {IF k = "error" THEN <<resp, "failed">> ELSE <<Msg(type, k), None>> : k \in best}

\* The primary if it succeeds, the secondary if the primary fails or was slow.
FallbackMeans(primary, secondary, resp, waited) ==
    LET failing == primary \ Good(primary) # {} IN
    Good(primary)
    \cup (IF failing \/ waited THEN Good(secondary) ELSE {})
    \cup (IF failing /\ secondary \ Good(secondary) # {} THEN {<<resp, "failed">>} ELSE {})

ExitIsFine(outcomes) == {IF o[2] = "exit" /\ o[1] # None THEN <<o[1], None>> ELSE o : o \in outcomes}

Finds(o) == o[2] = None /\ o[1] # None /\ o[1].kind = "address" /\ o[1].type = "A"

\* Blocked if the name has an address of the preferred type.
PreferMeans(reference, original, waited) ==
    (IF \E o \in reference : Finds(o) THEN {<<Msg("AAAA", "blocked"), None>>} ELSE {})
    \cup (IF waited \/ \E o \in reference : ~Finds(o) THEN original ELSE {})

RECURSIVE Walk(_, _, _, _, _, _), Exec(_, _, _, _), Run(_, _, _, _, _, _)

\* The rules of tag from p on, and then those of the sequences in back.
Walk(env, tag, p, back, type, resp) ==
    LET rules == env.plugins[tag].rules IN
    IF p > Len(rules)
    THEN IF back = <<>> THEN {<<resp, None>>}
         ELSE Walk(env, Head(back)[1], Head(back)[2], Tail(back), type, resp)
    ELSE IF rules[p].when = "error" THEN {<<resp, "failed">>}
    ELSE IF ~Passes(rules[p].when, resp) THEN Walk(env, tag, p + 1, back, type, resp)
    ELSE Run(env, tag, p, back, type, resp)

Late(env, resp) == IF env.late THEN {<<resp, "late">>} ELSE {}

\* A plugin or sequence run by itself.
Exec(env, tag, type, resp) ==
    LET p == env.plugins[tag] IN
    CASE p.kind = "sequence" -> Walk(env, tag, 1, <<>>, type, resp)
      [] p.kind = "forward" -> ForwardMeans(p, type, resp) \cup Late(env, resp)
      [] p.kind = "fallback" ->
           FallbackMeans(Exec(env, p.primary, type, resp), Exec(env, p.secondary, type, resp),
                         resp, env.waited) \cup Late(env, resp)

Run(env, tag, p, back, type, resp) ==
    LET rule == env.plugins[tag].rules[p]
        Rest(x) == Walk(env, tag, p + 1, back, type, x)
    IN
    CASE rule.exec = "accept" -> {<<resp, None>>}
      [] rule.exec = "exit" -> {<<resp, "exit">>}
      [] rule.exec = "reject" -> {<<Msg(type, "rejected"), None>>}
      [] rule.exec = "return" ->
           IF back = <<>> THEN {<<resp, None>>}
           ELSE Walk(env, Head(back)[1], Head(back)[2], Tail(back), type, resp)
      [] rule.exec = "jump" -> Walk(env, rule.to, 1, <<<<tag, p + 1>>>> \o back, type, resp)
      [] rule.exec = "goto" -> Walk(env, rule.to, 1, <<>>, type, resp)
      [] rule.exec = "exec" -> Chain(Exec(env, rule.to, type, resp), Rest)
      [] rule.exec = "try" ->
           Chain({IF o[2] = "exit" THEN <<o[1], None>> ELSE o : o \in Exec(env, rule.to, type, resp)},
                 Rest)
      [] rule.exec = "prefer" ->
           CASE type = "A" -> ExitIsFine(Rest(resp))
             [] type = "AAAA" ->
                  PreferMeans(ExitIsFine(Walk(env, tag, p + 1, back, "A", resp)),
                              ExitIsFine(Rest(resp)), env.waited) \cup Late(env, resp)
             [] OTHER -> Rest(resp)

\* What the client may get.
Meaning(plugins, type, waited, late) ==
    LET env == [plugins |-> plugins, waited |-> waited, late |-> late]
    IN {IF o[2] \notin {None, "exit"} THEN Msg(type, "SERVFAIL")
        ELSE IF o[1] = None THEN Msg(type, "REFUSED") ELSE o[1] :
        o \in Exec(env, "main", type, None)}
=============================================================================
