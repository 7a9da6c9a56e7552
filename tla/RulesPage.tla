------------------------------ MODULE RulesPage ------------------------------
(***************************************************************************)
(* The pages of subscribed rules (webui-log RulesManager.vue and rules/):   *)
(* the diversion rules, kept by one plugin for each type of rule, and the   *)
(* AdGuard rules, kept in one list.  No button of these pages is disabled   *)
(* while a request is under way.                                            *)
(***************************************************************************)
EXTENDS WebPage

CONSTANTS
    BuiltInTypes,   \* types of diversion rule that every installation has
    GroupTypes,     \* types that belong to the special groups
    RuleNames,      \* names of rules
    ReadyAttempts   \* looks at a rule that is being downloaded

ASSUME ReadyAttemptsAssumption == ReadyAttempts \in Nat \ {0}

RuleTypes == BuiltInTypes \cup GroupTypes

Diversion == "diversion"
AdGuard == "adguard"

ASSUME RuleTypesAssumption == {"specials", AdGuard} \cap RuleTypes = {}

Rule(name, type, enabled) == [name |-> name, type |-> type, enabled |-> enabled]

(* At first each type has one rule and AdGuard has one.                      *)
RulesServer ==
    LET first == CHOOSE n \in RuleNames : TRUE
    IN  [k \in RuleTypes \cup {"specials", AdGuard} |->
            CASE k = "specials" -> GroupTypes
              [] k = AdGuard    -> [n \in {1} |-> TRUE]
              [] OTHER          -> [n \in {first} |-> Rule(first, k, TRUE)]]

RulesFresh ==
    [kind |-> "rules", mounted |-> TRUE, busy |-> {}, mode |-> Diversion, groups |-> {},
     rows |-> {}, adguard |-> Nothing, editor |-> None, later |-> 0]

-----------------------------------------------------------------------------
(* diversionPluginMap: a rule goes to the plugin of its type, or back to the *)
(* one it was read from when the page does not know the type.                *)
KnownTypes == BuiltInTypes \cup page.groups
PluginOf(row) == IF row.rule.type \in KnownTypes THEN row.rule.type ELSE row.home

AskDiversion(i, p, mem) ==
    /\ page' = Raise(p, {Diversion})
    /\ Await(i, "diversionRules", GetAll(BuiltInTypes \cup p.groups), mem, {Diversion})

Reloading == [then |-> "end", name |-> None, type |-> None, left |-> 0]

(* reloadCurrentView: the special groups, whose types are needed, and the    *)
(* rules of every type; or the AdGuard list.                                 *)
ReloadRules(p) ==
    \/ /\ p.mode = Diversion
       /\ page' = Raise(p, {"special"})
       /\ Begin("ruleGroups", One(Get("specials")), None, {"special"})
    \/ /\ p.mode = AdGuard
       /\ page' = Raise(p, {AdGuard})
       /\ Begin("adguardRules", One(Get(AdGuard)), None, {AdGuard})

RulesMounted == \E mode \in {Diversion, AdGuard} : ReloadRules([RulesFresh EXCEPT !.mode = mode])

(* A page that has been left keeps nothing of what it would show; the types  *)
(* and the view it was on are still looked at by the functions that wait.    *)
RulesInView(p) ==
    IF p.mounted THEN p ELSE [p EXCEPT !.rows = {}, !.adguard = Nothing, !.editor = None]

RulesUnmounted == RulesInView([page EXCEPT !.mounted = FALSE])

RulesRefresh ==
    /\ page.mounted
    /\ ReloadRules(page)
    /\ UNCHANGED <<server, dialog>>

(* The types of a failed read stay those known before.                       *)
RuleGroupsRead(i) ==
    /\ i \in Replied("ruleGroups")
    /\ AskDiversion(i, Lower([page EXCEPT !.groups = Settled(i, "only", @)], i), Reloading)
    /\ UNCHANGED <<server, dialog>>

(* loadDiversionRules shows the rules of the plugins that answered.          *)
MergedRows(i) ==
    UNION {[home : {t}, rule : {tasks[i].got[t].val[n] : n \in DOMAIN tasks[i].got[t].val}]
              : t \in {u \in DOMAIN tasks[i].got : tasks[i].got[u].ok}}

(* waitForDiversionRuleReady looks a number of times for a rule that has     *)
(* entries or an update time; whether it has them is the server's affair.    *)
DiversionRead(i) ==
    LET m == tasks[i].mem
        shown == RulesInView(Lower([page EXCEPT !.rows = MergedRows(i)], i))
        listed == \E row \in MergedRows(i) : row.rule.name = m.name
    IN  /\ i \in Replied("diversionRules")
        /\ \/ /\ m.then = "end" \/ (m.then = "wait" /\ (listed \/ m.left = 0))
              /\ page' = shown /\ End(i)
           \/ /\ m.then = "wait" /\ m.left > 0
              /\ AskDiversion(i, shown, [m EXCEPT !.left = @ - 1])
           \/ /\ m.then = "update"
              /\ page' = shown
              /\ Await(i, "download", One(Call(m.type, m.name)), m, {})
        /\ UNCHANGED <<server, dialog>>

DownloadAsked(i) ==
    /\ i \in Replied("download")
    /\ \/ /\ Reply(i).ok
          /\ AskDiversion(i, page, [tasks[i].mem EXCEPT !.then = "wait", !.left = ReadyAttempts - 1])
       \/ ~Reply(i).ok /\ page' = page /\ End(i)
    /\ UNCHANGED <<server, dialog>>

AdguardRead(i) ==
    /\ i \in Replied("adguardRules")
    /\ page' = RulesInView(Lower([page EXCEPT !.adguard = Settled(i, "only", @)], i))
    /\ End(i)
    /\ UNCHANGED <<server, dialog>>

-----------------------------------------------------------------------------
(* The editor of either kind of rule.  What is typed is what it holds when   *)
(* it is saved; here that is a name and a type, not the other fields.        *)
TableInReach == Clickable /\ page.editor = None
RuleRows == IF page.mode = Diversion THEN page.rows ELSE DOMAIN page.adguard
EditorOf(new, row) == [new |-> new, row |-> row]

OpenRuleEditor ==
    /\ TableInReach
    /\ \/ page' = [page EXCEPT !.editor = EditorOf(TRUE, None)]
       \/ \E row \in RuleRows : page' = [page EXCEPT !.editor = EditorOf(FALSE, row)]
    /\ OnlyPage

CloseRuleEditor ==
    /\ Clickable /\ page.editor # None
    /\ page' = [page EXCEPT !.editor = None]
    /\ OnlyPage

(* Mutant: a change of the type alone is put to the plugin the rule is in.   *)
SaveDiversionInPlace == \E name \in RuleNames, type \in KnownTypes :
    LET new == page.editor.new
        row == page.editor.row
        moved == ~new /\ row.rule.name # name
        mem == [rule |-> Rule(name, type, new \/ row.rule.enabled), download |-> new \/ moved]
    IN  /\ Clickable /\ page.mode = Diversion /\ page.editor # None
        /\ \/ moved /\ Begin("deleteOld", One(Drop(PluginOf(row), row.rule.name)), mem, {})
           \/ ~moved /\ Begin("putRule", One(Set(IF new THEN type ELSE PluginOf(row), name, mem.rule)), mem, {})
        /\ UNCHANGED <<page, server, dialog>>

(* saveDiversion: a rule that gets another name or type is deleted before it *)
(* is put, and then downloaded as a new one is.                              *)
SaveDiversion == \E name \in RuleNames, type \in KnownTypes :
    LET new == page.editor.new
        row == page.editor.row
        moved == ~new /\ (row.rule.name # name \/ row.rule.type # type)
        mem == [rule |-> Rule(name, type, new \/ row.rule.enabled), download |-> new \/ moved]
    IN  /\ Clickable /\ page.mode = Diversion /\ page.editor # None
        /\ \/ moved /\ Begin("deleteOld", One(Drop(PluginOf(row), row.rule.name)), mem, {})
           \/ ~moved /\ Begin("putRule", One(Set(type, name, mem.rule)), mem, {})
        /\ UNCHANGED <<page, server, dialog>>

OldDeleted(i) ==
    LET rule == tasks[i].mem.rule
    IN  /\ i \in Replied("deleteOld")
        /\ \/ Reply(i).ok /\ Await(i, "putRule", One(Set(rule.type, rule.name, rule)), tasks[i].mem, {})
           \/ ~Reply(i).ok /\ End(i)
        /\ UNCHANGED <<page, server, dialog>>

(* The editor that is open by now is closed, whichever rule it is for.       *)
RulePut(i) ==
    LET m == tasks[i].mem
        next == IF m.download
                THEN [then |-> "update", name |-> m.rule.name, type |-> m.rule.type, left |-> 0]
                ELSE Reloading
    IN  /\ i \in Replied("putRule")
        /\ \/ Reply(i).ok /\ AskDiversion(i, [page EXCEPT !.editor = None], next)
           \/ ~Reply(i).ok /\ End(i) /\ UNCHANGED page
        /\ UNCHANGED <<server, dialog>>

-----------------------------------------------------------------------------
(* The buttons of a row.  The whole row is sent, as it was when it was read. *)
ToggleRule == \E row \in RuleRows :
    /\ TableInReach
    /\ \/ /\ page.mode = Diversion
          /\ LET flipped == [row.rule EXCEPT !.enabled = ~@]
             IN  Begin("changeRule", One(Set(PluginOf(row), flipped.name, flipped)), None, {})
       \/ /\ page.mode = AdGuard
          /\ Begin("changeRule", One(Set(AdGuard, row, ~page.adguard[row])), None, {})
    /\ UNCHANGED <<page, server, dialog>>

DeleteRule == \E row \in RuleRows :
    /\ TableInReach
    /\ AskFirst("deleteRule", row)
    /\ UNCHANGED <<page, server>>

DeleteRuleAnswered(i) ==
    LET row == tasks[i].mem
        drop == IF page.mode = AdGuard THEN Drop(AdGuard, row) ELSE Drop(PluginOf(row), row.rule.name)
    IN  /\ i \in Replied("deleteRule")
        /\ \/ Reply(i).val /\ Await(i, "changeRule", One(drop), None, {})
           \/ ~Reply(i).val /\ End(i)
        /\ UNCHANGED <<page, server, dialog>>

(* saveAdguard: a new rule gets its id from the server, an old one keeps it. *)
SaveAdguard ==
    LET row == page.editor.row
    IN  /\ Clickable /\ page.mode = AdGuard /\ page.editor # None
        /\ \E enabled \in BOOLEAN :
            Begin("saveAdguard", One(IF page.editor.new THEN Add(AdGuard, enabled) ELSE Set(AdGuard, row, enabled)),
                  None, {})
        /\ UNCHANGED <<page, server, dialog>>

(* What was changed is read again; the editor closes if it was saved.        *)
RuleChanged(i) ==
    LET closed == IF tasks[i].fn = "saveAdguard" THEN [page EXCEPT !.editor = None] ELSE page
    IN  /\ i \in Replied("changeRule") \cup Replied("saveAdguard")
        /\ \/ /\ Reply(i).ok /\ page.mode = Diversion
              /\ AskDiversion(i, closed, Reloading)
           \/ /\ Reply(i).ok /\ page.mode = AdGuard
              /\ page' = Raise(closed, {AdGuard})
              /\ Await(i, "adguardRules", One(Get(AdGuard)), None, {AdGuard})
           \/ ~Reply(i).ok /\ page' = page /\ End(i)
        /\ UNCHANGED <<server, dialog>>

-----------------------------------------------------------------------------
(* Downloads: of one rule, or of all.  Five seconds after one was accepted   *)
(* the rules are read again; nothing cancels that timer.                     *)
DownloadOf(row) == IF page.mode = AdGuard THEN Call(AdGuard, row) ELSE Call(PluginOf(row), row.rule.name)

UpdateRules ==
    /\ TableInReach
    /\ \/ \E row \in RuleRows : Begin("updateRules", One(DownloadOf(row)), None, {})
       \/ page.mode = AdGuard /\ Begin("updateRules", One(Call(AdGuard, None)), None, {})
       \/ /\ page.mode = Diversion /\ page.rows # {}
          /\ Begin("updateRules", [row \in page.rows |-> DownloadOf(row)], None, {})
    /\ UNCHANGED <<page, server, dialog>>

RulesUpdated(i) ==
    LET accepted == \E k \in DOMAIN tasks[i].ask : tasks[i].got[k].ok
    IN  /\ i \in Replied("updateRules")
        /\ page' = IF accepted THEN [page EXCEPT !.later = @ + 1] ELSE page
        /\ End(i)
        /\ UNCHANGED <<server, dialog>>

UpdateTimerFires ==
    /\ page.later > 0
    /\ LET p == [page EXCEPT !.later = @ - 1]
       IN  \/ /\ p.mode = Diversion
              /\ page' = Raise(p, {Diversion})
              /\ Begin("diversionRules", GetAll(KnownTypes), Reloading, {Diversion})
           \/ /\ p.mode = AdGuard
              /\ page' = Raise(p, {AdGuard})
              /\ Begin("adguardRules", One(Get(AdGuard)), None, {AdGuard})
    /\ UNCHANGED <<server, dialog>>

-----------------------------------------------------------------------------
RulesEvent ==
    \/ OpenRuleEditor \/ CloseRuleEditor \/ SaveDiversion \/ SaveAdguard
    \/ ToggleRule \/ DeleteRule \/ UpdateRules \/ UpdateTimerFires \/ RulesRefresh

RulesResume(i) ==
    \/ RuleGroupsRead(i) \/ DiversionRead(i) \/ AdguardRead(i) \/ DownloadAsked(i)
    \/ OldDeleted(i) \/ RulePut(i) \/ DeleteRuleAnswered(i) \/ RuleChanged(i) \/ RulesUpdated(i)

=============================================================================
