---------------------------- MODULE UpstreamPage -----------------------------
(***************************************************************************)
(* The page of upstreams and special groups (webui-log UpstreamManager.vue).*)
(* The server takes a whole group of upstreams at a time, so every change   *)
(* to one upstream is a list the page makes out of the list it last read;   *)
(* a row of the table is a position in that list.                           *)
(***************************************************************************)
EXTENDS WebPage, Sequences

CONSTANTS
    UpstreamGroups, \* groups of upstreams
    FakeIPGroup,    \* the group that the RealIP mode disables
    MaxUpstreams,   \* bound: upstreams a group has when one is added
    Ports           \* what may be typed as a listening port; 0 stands for a blank

ASSUME UpstreamsAssumption == MaxUpstreams \in Nat /\ Ports \subseteq Nat

(* Names of upstreams; the ones that are there at first have different names. *)
UpstreamTags == 1..MaxUpstreams

Upstream(tag, enabled) == [tag |-> tag, enabled |-> enabled]

UpstreamServers ==
    {[mode |-> mode, groups |-> Nothing,
      config |-> [g \in UpstreamGroups |-> [n \in UpstreamTags |-> Upstream(n, TRUE)]]]
        : mode \in {"A", "B"}}

Upstreams == "upstreams"
SpecialGroups == "special groups"

UpstreamFresh ==
    [kind |-> "upstream", mounted |-> TRUE, busy |-> {}, visit |-> Upstreams,
     config |-> Nothing, groups |-> Nothing, mode |-> None,
     editor |-> None, special |-> None, manager |-> FALSE]

-----------------------------------------------------------------------------
(* rows, groupOptions and isModeDisabledGroup.  A filter or a sort order     *)
(* changes which rows are in sight, not what a row is.                       *)
KnownList(g) == IF g \in DOMAIN page.config THEN page.config[g] ELSE <<>>
Rows == UNION {[group : {g}, index : DOMAIN page.config[g]] : g \in DOMAIN page.config}
ModeDisabled(g) == page.mode = "B" /\ g = FakeIPGroup
GroupOptions == UpstreamGroups \cup DOMAIN page.config
SpecialGroupCards == DOMAIN page.groups

TableClickable == Clickable /\ page.editor = None /\ ~page.manager /\ page.special = None

-----------------------------------------------------------------------------
(* loadData; what fails is shown as empty.  The tags and the proxy, which    *)
(* only fill the editor's choices and hints, are left out, and a visit reads *)
(* what its part shows.                                                      *)
UpstreamReadsOf(visit) == GetAll(IF visit = Upstreams THEN {"config", "mode"} ELSE {"groups"})
UpstreamReads == UpstreamReadsOf(page.visit)

Read(i, k, otherwise) == IF k \in DOMAIN tasks[i].ask THEN Settled(i, k, otherwise) ELSE otherwise

ReadAgain(i, p, lower) ==
    /\ page' = Raise(p, {"loading"})
    /\ Await(i, "loadUpstreams", UpstreamReads, None, lower \cup {"loading"})

UpstreamsLoaded(i) ==
    /\ i \in Replied("loadUpstreams")
    /\ page' = Lower([page EXCEPT !.config = Read(i, "config", Nothing),
                                  !.groups = Read(i, "groups", Nothing),
                                  !.mode = Read(i, "mode", None)], i)
    /\ End(i)
    /\ UNCHANGED <<server, dialog>>

UpstreamMounted == \E visit \in {Upstreams, SpecialGroups} :
    /\ page' = Raise([UpstreamFresh EXCEPT !.visit = visit], {"loading"})
    /\ Begin("loadUpstreams", UpstreamReadsOf(visit), None, {"loading"})

UpstreamRefresh ==
    /\ page.mounted
    /\ page' = Raise(page, {"loading"})
    /\ Begin("loadUpstreams", UpstreamReads, None, {"loading"})
    /\ UNCHANGED <<server, dialog>>

(* What follows the POST or DELETE of every handler below: the page is read  *)
(* again if it went well, and the handler's flags fall at the end.           *)
Written(i, fn, p) ==
    /\ i \in Replied(fn)
    /\ \/ Reply(i).ok /\ ReadAgain(i, p, tasks[i].lower)
       \/ ~Reply(i).ok /\ page' = Lower(page, i) /\ End(i)
    /\ UNCHANGED <<server, dialog>>

-----------------------------------------------------------------------------
(* The editor of one upstream.  The group of an existing one cannot change.  *)
(* Here an edit keeps the name and a new upstream takes a name that is used. *)
BeginAdd ==
    /\ TableClickable /\ Visiting(Upstreams)
    /\ \E g \in GroupOptions :
        page' = [page EXCEPT !.editor = [group |-> g, index |-> 0, tag |-> MaxUpstreams]]
    /\ OnlyPage

BeginEdit == \E row \in Rows :
    /\ TableClickable /\ Visiting(Upstreams) /\ ~ModeDisabled(row.group)
    /\ page' = [page EXCEPT !.editor = [group |-> row.group, index |-> row.index,
                                       tag |-> page.config[row.group][row.index].tag]]
    /\ OnlyPage

CloseEditor ==
    /\ Clickable /\ page.editor # None
    /\ page' = [page EXCEPT !.editor = None]
    /\ OnlyPage

(* An edit goes to the position the row had when the editor was opened.  If  *)
(* the list has become shorter the upstream is put there, disabled, with     *)
(* nulls before it.                                                          *)
Replaced(list, n, tag) ==
    IF n \in DOMAIN list THEN [list EXCEPT ![n] = Upstream(tag, @.enabled)]
    ELSE [m \in 1..n |-> IF m \in DOMAIN list THEN list[m]
                         ELSE Upstream(IF m = n THEN tag ELSE None, FALSE)]

SaveUpstream ==
    LET form == page.editor
        list == KnownList(form.group)
    IN  /\ Clickable /\ form # None /\ "saving" \notin page.busy /\ ~ModeDisabled(form.group)
        /\ form.index = 0 => Len(list) < MaxUpstreams
        /\ page' = Raise(page, {"saving"})
        /\ Begin("saveUpstream",
                 One(Set("config", form.group,
                         IF form.index = 0 THEN Append(list, Upstream(form.tag, TRUE))
                         ELSE Replaced(list, form.index, form.tag))), None, {"saving"})
        /\ UNCHANGED <<server, dialog>>

UpstreamSaved(i) == Written(i, "saveUpstream", [page EXCEPT !.editor = None])

-----------------------------------------------------------------------------
(* removeRow: the position is the clicked row's, the list is the one known   *)
(* when the user has confirmed.                                              *)
SpliceOut(list, n) ==
    IF n \in DOMAIN list THEN SubSeq(list, 1, n - 1) \o SubSeq(list, n + 1, Len(list)) ELSE list

RemoveRow == \E row \in Rows :
    /\ TableClickable /\ Visiting(Upstreams) /\ ~ModeDisabled(row.group)
    /\ AskFirst("removeRow", [row |-> row, named |-> page.config[row.group][row.index]])
    /\ UNCHANGED <<page, server>>

(* Mutant: the answer is not looked at.                                      *)
RemoveUnanswered(i) ==
    LET row == tasks[i].mem.row
    IN  /\ i \in Replied("removeRow")
        /\ Await(i, "postRemoval",
                 One(Set("config", row.group, SpliceOut(KnownList(row.group), row.index))), tasks[i].mem, {})
        /\ UNCHANGED <<page, server, dialog>>

RemoveAnswered(i) ==
    LET row == tasks[i].mem.row
    IN  /\ i \in Replied("removeRow")
        /\ \/ ~Reply(i).val /\ End(i)
           \/ /\ Reply(i).val
              /\ Await(i, "postRemoval",
                       One(Set("config", row.group, SpliceOut(KnownList(row.group), row.index))),
                       tasks[i].mem, {})
        /\ UNCHANGED <<page, server, dialog>>

RowRemoved(i) == Written(i, "postRemoval", page)

ToggleEnable == \E row \in Rows :
    LET list == page.config[row.group]
    IN  /\ TableClickable /\ Visiting(Upstreams) /\ ~ModeDisabled(row.group)
        /\ Begin("toggleEnable",
                 One(Set("config", row.group, [list EXCEPT ![row.index].enabled = ~@])), None, {})
        /\ UNCHANGED <<page, server, dialog>>

Toggled(i) == Written(i, "toggleEnable", page)

-----------------------------------------------------------------------------
(* Special groups.  The watcher of the port takes the "only" mark away with  *)
(* the port; the form can also be sent with the Enter key, which looks at no *)
(* flag.                                                                     *)
SpecialGroup(port, only) == [port |-> port, only |-> only]

ManageGroups == \E open \in BOOLEAN :
    /\ Clickable /\ Visiting(SpecialGroups) /\ page.special = None
    /\ page' = [page EXCEPT !.manager = open]
    /\ OnlyPage

OpenSpecialGroup == \E slot \in SpecialGroupCards \cup {0} :
    LET old == IF slot = 0 THEN SpecialGroup(0, FALSE) ELSE page.groups[slot]
    IN  /\ Clickable /\ page.manager /\ page.special = None
        /\ page' = [page EXCEPT !.special = [slot |-> slot, port |-> old.port, only |-> old.only /\ old.port # 0]]
        /\ OnlyPage

EditSpecialGroup == \E port \in Ports, only \in BOOLEAN :
    /\ Clickable /\ page.special # None
    /\ page' = [page EXCEPT !.special.port = port, !.special.only = only /\ port # 0]
    /\ OnlyPage

CloseSpecialGroup ==
    /\ Clickable /\ page.special # None
    /\ page' = [page EXCEPT !.special = None]
    /\ OnlyPage

PortAllowed(port) == port = 0 \/ (port \in 1..65535 /\ port # 53)

SaveSpecialGroup ==
    LET form == page.special
        group == SpecialGroup(form.port, form.port # 0 /\ form.only)
    IN  /\ Clickable /\ form # None /\ PortAllowed(form.port)
        /\ page' = Raise(page, {"specialSaving"})
        /\ Begin("saveSpecialGroup",
                 One(IF form.slot = 0 THEN Add("groups", group) ELSE Set("groups", form.slot, group)),
                 None, {"specialSaving"})
        /\ UNCHANGED <<server, dialog>>

SpecialGroupSaved(i) == Written(i, "saveSpecialGroup", [page EXCEPT !.special = None])

DeleteSpecialGroup == \E slot \in SpecialGroupCards :
    /\ Clickable /\ page.manager /\ page.special = None
    /\ AskFirst("deleteSpecialGroup", slot)
    /\ UNCHANGED <<page, server>>

DeleteGroupAnswered(i) ==
    /\ i \in Replied("deleteSpecialGroup")
    /\ \/ ~Reply(i).val /\ End(i)
       \/ Reply(i).val /\ Await(i, "dropGroup", One(Drop("groups", tasks[i].mem)), None, {})
    /\ UNCHANGED <<page, server, dialog>>

GroupDropped(i) == Written(i, "dropGroup", page)

-----------------------------------------------------------------------------
UpstreamEvent ==
    \/ BeginAdd \/ BeginEdit \/ CloseEditor \/ SaveUpstream \/ RemoveRow \/ ToggleEnable
    \/ ManageGroups \/ OpenSpecialGroup \/ EditSpecialGroup \/ CloseSpecialGroup
    \/ SaveSpecialGroup \/ DeleteSpecialGroup
    \/ UpstreamRefresh

UpstreamResume(i) ==
    \/ UpstreamsLoaded(i) \/ UpstreamSaved(i) \/ RemoveAnswered(i) \/ RowRemoved(i) \/ Toggled(i)
    \/ SpecialGroupSaved(i) \/ DeleteGroupAnswered(i) \/ GroupDropped(i)

=============================================================================
