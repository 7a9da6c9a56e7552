----------------------------- MODULE SwitchPanel -----------------------------
(***************************************************************************)
(* The switches of the system page (webui-log SystemControlManager.vue and  *)
(* the mode, feature and domain generation panels of system/).  The server  *)
(* has a plugin for each switch, with the value "A" or "B".                 *)
(***************************************************************************)
EXTENDS WebPage

CONSTANTS
    OtherSwitches,  \* feature switches that nothing else depends on
    GenerationKeys  \* tables of generated domains with a switch of their own

CoreMode == "switch3"
RoutingMode == "switch17"
IPv6Block == "switch6"
IPv4First == "switch8"
CNFakeIP == "switch9"
Modes == {CoreMode, RoutingMode}
Features == {IPv6Block, IPv4First, CNFakeIP} \cup OtherSwitches
Switches == Modes \cup Features

Master == "enabled"
Generation == GenerationKeys \cup {Master}

OnValue(tag) == IF tag = CNFakeIP THEN "B" ELSE "A"
OffValue(tag) == IF OnValue(tag) = "A" THEN "B" ELSE "A"

(* getMutuallyExclusiveProfile: the switches that must not both be on.       *)
Excluded(tag) == CASE tag = IPv6Block -> {IPv4First} [] tag = IPv4First -> {IPv6Block} [] OTHER -> {}

ModePart == "modes"
FeaturePart == "features"
GenerationPart == "generation"

SwitchServer ==
    [r \in Switches \cup {"generation"} |->
        CASE r = "generation" -> [k \in Generation |-> TRUE]
          [] r \in Modes      -> "A"
          [] OTHER            -> OffValue(r)]

SwitchFresh ==
    [kind |-> "switches", mounted |-> TRUE, busy |-> {}, visit |-> ModePart,
     states |-> Nothing, generation |-> [k \in Generation |-> TRUE]]

Shown(tag) == IF tag \in DOMAIN page.states THEN page.states[tag] ELSE None
Showing(p, tag, value) == [p EXCEPT !.states = Extend(@, tag, value)]

-----------------------------------------------------------------------------
(* reloadAll, for the part that the visit uses: loadFeatureSwitches shows a  *)
(* switch that did not answer as an error, loadDomainGenerationSettings      *)
(* leaves the settings as they are.                                          *)
SwitchReads(visit) ==
    GetAll(CASE visit = ModePart       -> Modes
             [] visit = FeaturePart    -> Features
             [] visit = GenerationPart -> {"generation"})

SwitchesMounted == \E visit \in {ModePart, FeaturePart, GenerationPart} :
    /\ page' = Raise([SwitchFresh EXCEPT !.visit = visit], {"loading"})
    /\ Begin("switchReads", SwitchReads(visit), None, {"loading"})

SwitchesRefresh ==
    /\ page.mounted
    /\ page' = Raise(page, {"loading"})
    /\ Begin("switchReads", SwitchReads(page.visit), None, {"loading"})
    /\ UNCHANGED <<server, dialog>>

SwitchesRead(i) ==
    /\ i \in Replied("switchReads")
    /\ page' = Lower(IF Visiting(GenerationPart)
                     THEN [page EXCEPT !.generation = Settled(i, "generation", @)]
                     ELSE [page EXCEPT !.states = [tag \in DOMAIN tasks[i].ask |-> Settled(i, tag, "error")]], i)
    /\ End(i)
    /\ UNCHANGED <<server, dialog>>

(* setSwitchValue up to its answer, as a handler's first or a later request. *)
PostSwitch(tag, value) == One(Put(tag, value))

ReadSwitchesAgain(i, p) ==
    /\ page' = p
    /\ Await(i, "switchReads", SwitchReads(p.visit), None, tasks[i].lower)

-----------------------------------------------------------------------------
(* setCoreMode asks first; the requery that follows may fail unnoticed.      *)
SetCoreMode == \E mode \in {"A", "B"} :
    /\ Clickable /\ Visiting(ModePart) /\ CoreMode \notin page.busy /\ Shown(CoreMode) # mode
    /\ AskFirst("setCoreMode", mode)
    /\ UNCHANGED <<page, server>>

(* setDnsRoutingMode asks first, and looks at its flag before it asks.       *)
SetDnsRoutingMode == \E mode \in {"A", "B"} :
    /\ Clickable /\ Visiting(ModePart) /\ RoutingMode \notin page.busy /\ Shown(RoutingMode) # mode
    /\ AskFirst("setDnsRoutingMode", mode)
    /\ UNCHANGED <<page, server>>

ModeAnswered(i) ==
    LET tag == IF tasks[i].fn = "setCoreMode" THEN CoreMode ELSE RoutingMode
        post == IF tag = CoreMode THEN "postCoreMode" ELSE "postRoutingMode"
    IN  /\ i \in Replied("setCoreMode") \cup Replied("setDnsRoutingMode")
        /\ \/ /\ Reply(i).val
              /\ page' = Raise(page, {tag})
              /\ Await(i, post, PostSwitch(tag, tasks[i].mem), tasks[i].mem, {tag})
           \/ ~Reply(i).val /\ page' = page /\ End(i)
        /\ UNCHANGED <<server, dialog>>

CoreModePosted(i) ==
    /\ i \in Replied("postCoreMode")
    /\ \/ /\ Reply(i).ok
          /\ page' = Lower(Showing(page, CoreMode, tasks[i].mem), i)
          /\ Await(i, "requeryAfterMode", One(Call("requery", None)), None, {})
       \/ ~Reply(i).ok /\ page' = Lower(page, i) /\ End(i)
    /\ UNCHANGED <<server, dialog>>

(* A post that fails with a conflict may have been applied: the switch is    *)
(* read to find out.  Any other failure reads all switches again.            *)
AskFlush(i, p) ==
    /\ page' = p
    /\ Await(i, "flushAfterMode", One(Call("caches", None)), None, {RoutingMode})

RoutingModePosted(i) ==
    /\ i \in Replied("postRoutingMode")
    /\ \/ Reply(i).ok /\ AskFlush(i, Showing(page, RoutingMode, tasks[i].mem))
       \/ /\ ~Reply(i).ok
          /\ page' = page
          /\ Await(i, "readRoutingMode", One(Get(RoutingMode)), tasks[i].mem, {RoutingMode})
       \/ ~Reply(i).ok /\ ReadSwitchesAgain(i, page)
    /\ UNCHANGED <<server, dialog>>

RoutingModeRead(i) ==
    LET value == Reply(i).val
        known == IF Reply(i).ok THEN Showing(page, RoutingMode, value) ELSE page
        applied == Reply(i).ok /\ value = tasks[i].mem
    IN  /\ i \in Replied("readRoutingMode")
        /\ \/ applied /\ AskFlush(i, known)
           \/ ~applied /\ ReadSwitchesAgain(i, known)
        /\ UNCHANGED <<server, dialog>>

(* The caches and then the requery; how they went only changes the message.  *)
CachesFlushedForMode(i) ==
    /\ i \in Replied("flushAfterMode")
    /\ Await(i, "requeryAfterMode", One(Call("requery", None)), None, tasks[i].lower)
    /\ UNCHANGED <<page, server, dialog>>

ModeDone(i) ==
    /\ i \in Replied("requeryAfterMode") \cup Replied("flushAfterSwitch")
    /\ page' = Lower(page, i)
    /\ End(i)
    /\ UNCHANGED <<server, dialog>>

-----------------------------------------------------------------------------
(* toggleSecondarySwitch.  The checkbox is bound one way, so after a failure *)
(* it may show the opposite of the state: either value can be asked for.     *)
(* The excluded switch is turned off first if the page shows it on.          *)
ToggleSwitch == \E tag \in Features, checked \in BOOLEAN :
    LET next == IF checked THEN OnValue(tag) ELSE OffValue(tag)
        conflict == {other \in Excluded(tag) : checked /\ Shown(other) = OnValue(other)}
    IN  /\ Clickable /\ Visiting(FeaturePart) /\ tag \notin page.busy /\ Shown(tag) # "error"
        /\ \/ \E other \in conflict :
              /\ page' = Raise(page, {other})
              /\ Begin("turnOff", PostSwitch(other, OffValue(other)),
                       [other |-> other, tag |-> tag, value |-> next], {other})
           \/ /\ conflict = {}
              /\ page' = Raise(page, {tag})
              /\ Begin("setSwitch", PostSwitch(tag, next), [tag |-> tag, value |-> next], {tag})
        /\ UNCHANGED <<server, dialog>>

TurnedOff(i) ==
    LET m == tasks[i].mem
        off == Showing(page, m.other, OffValue(m.other))
    IN  /\ i \in Replied("turnOff")
        /\ \/ /\ Reply(i).ok
              /\ page' = Raise(Lower(off, i), {m.tag})
              /\ Await(i, "setSwitch", PostSwitch(m.tag, m.value), [tag |-> m.tag, value |-> m.value], {m.tag})
           \/ /\ ~Reply(i).ok
              /\ page' = Lower(page, i)
              /\ Await(i, "switchReads", SwitchReads(FeaturePart), None, {})
        /\ UNCHANGED <<server, dialog>>

SwitchSet(i) ==
    LET m == tasks[i].mem
        set == Lower(Showing(page, m.tag, m.value), i)
    IN  /\ i \in Replied("setSwitch")
        /\ \/ Reply(i).ok /\ m.tag # CNFakeIP /\ page' = set /\ End(i)
           \/ /\ Reply(i).ok /\ m.tag = CNFakeIP
              /\ page' = set
              /\ Await(i, "flushAfterSwitch", One(Call("caches", None)), None, {})
           \/ /\ ~Reply(i).ok
              /\ page' = Lower(page, i)
              /\ Await(i, "switchReads", SwitchReads(FeaturePart), None, {})
        /\ UNCHANGED <<server, dialog>>

-----------------------------------------------------------------------------
(* toggleDomainGeneration: off asks first, and the flag falls even when the  *)
(* answer is no.  The master sets all; a table that is turned on takes the   *)
(* master with it if the page shows it off.                                  *)
GenerationPayload(key, checked) ==
    IF key = Master THEN [k \in Generation |-> checked]
    ELSE [k \in {key} \cup (IF checked /\ ~page.generation[Master] THEN {Master} ELSE {}) |-> checked]

GenerationRequest(key, checked) == One(Patch("generation", GenerationPayload(key, checked)))

ToggleGeneration == \E key \in Generation, checked \in BOOLEAN :
    /\ Clickable /\ Visiting(GenerationPart) /\ "generation" \notin page.busy
    /\ \/ /\ checked
          /\ page' = Raise(page, {"generation"})
          /\ Begin("postGeneration", GenerationRequest(key, TRUE), None, {"generation"})
          /\ UNCHANGED <<server, dialog>>
       \/ /\ ~checked
          /\ AskFirst("askGeneration", key)
          /\ UNCHANGED <<page, server>>

GenerationAnswered(i) ==
    /\ i \in Replied("askGeneration")
    /\ \/ /\ Reply(i).val
          /\ page' = Raise(page, {"generation"})
          /\ Await(i, "postGeneration", GenerationRequest(tasks[i].mem, FALSE), None, {"generation"})
       \/ ~Reply(i).val /\ page' = [page EXCEPT !.busy = @ \ {"generation"}] /\ End(i)
    /\ UNCHANGED <<server, dialog>>

GenerationPosted(i) ==
    /\ i \in Replied("postGeneration")
    /\ page' = Lower([page EXCEPT !.generation = Settled(i, "only", @)], i)
    /\ End(i)
    /\ UNCHANGED <<server, dialog>>

-----------------------------------------------------------------------------
SwitchEvent ==
    \/ SetCoreMode \/ SetDnsRoutingMode \/ ToggleSwitch \/ ToggleGeneration \/ SwitchesRefresh

SwitchResume(i) ==
    \/ SwitchesRead(i) \/ ModeAnswered(i) \/ CoreModePosted(i) \/ RoutingModePosted(i) \/ RoutingModeRead(i)
    \/ CachesFlushedForMode(i) \/ ModeDone(i) \/ TurnedOff(i) \/ SwitchSet(i)
    \/ GenerationAnswered(i) \/ GenerationPosted(i)

=============================================================================
