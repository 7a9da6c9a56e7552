-------------------------------- MODULE WebLog --------------------------------
(***************************************************************************)
(* The web interface (webui-log): one page is open at a time, in the shell  *)
(* App.vue.  Leaving a page removes its component but not the functions that *)
(* still wait; they go on with a page that nobody sees.                     *)
(*                                                                         *)
(* A behaviour is about one kind of page, chosen at the start; only the      *)
(* overview leads to another, the query log.  Bound: a page is opened again  *)
(* when all that waited has ended, and starts anew.                         *)
(***************************************************************************)
EXTENDS ListPage, LogPage, UpstreamPage, DataTables, RequeryPanel, RulesPage, SwitchPanel,
        SystemPanel, AppearancePanel, OverviewPage, AppShell

CONSTANT Pages      \* the kinds of page that are checked

ASSUME PagesAssumption ==
    Pages \subseteq {"list", "log", "upstream", "tables", "requery", "rules", "switches", "system",
                     "appearance", "overview", "shell"}

FreshOf(kind) ==
    CASE kind = "list"        -> ListFresh
      [] kind = "log"         -> LogFresh
      [] kind = "upstream"    -> UpstreamFresh
      [] kind = "tables"      -> TablesFresh
      [] kind = "requery"     -> RequeryFresh
      [] kind = "rules"       -> RulesFresh
      [] kind = "switches"    -> SwitchFresh
      [] kind = "system"      -> SystemFresh
      [] kind = "appearance"  -> AppearanceFresh
      [] kind = "overview"    -> OverviewFresh
      [] kind = "shell"       -> ShellFresh

ServersOf(kind) ==
    CASE kind = "list"        -> {ListServer}
      [] kind = "log"         -> {LogServer}
      [] kind = "upstream"    -> UpstreamServers
      [] kind = "tables"      -> TableServers
      [] kind = "requery"     -> {RequeryServer}
      [] kind = "rules"       -> {RulesServer}
      [] kind = "switches"    -> {SwitchServer}
      [] kind = "system"      -> {SystemServer}
      [] kind = "appearance"  -> AppearanceServers
      [] kind = "overview"    -> OverviewServers
      [] kind = "shell"       -> {ShellServer}

WebInit ==
    /\ tasks = Nothing
    /\ dialog = None
    /\ spent = [calls |-> 0, faults |-> 0]
    /\ \E kind \in Pages :
        /\ page = [FreshOf(kind) EXCEPT !.mounted = FALSE]
        /\ server \in ServersOf(kind)

Mount ==
    /\ ~page.mounted /\ tasks = Nothing
    /\ \/ page.kind = "list" /\ ListMounted
       \/ page.kind = "log" /\ LogMounted
       \/ page.kind = "upstream" /\ UpstreamMounted
       \/ page.kind = "tables" /\ TablesMounted
       \/ page.kind = "requery" /\ RequeryMounted
       \/ page.kind = "rules" /\ RulesMounted
       \/ page.kind = "switches" /\ SwitchesMounted
       \/ page.kind = "system" /\ SystemMounted
       \/ page.kind = "appearance" /\ AppearanceMounted
       \/ page.kind = "overview" /\ OverviewMounted
       \/ page.kind = "shell" /\ ShellMounted
    /\ UNCHANGED <<server, dialog>>

LeftPage ==
    CASE page.kind = "log"         -> LogUnmounted
      [] page.kind = "tables"      -> TablesUnmounted
      [] page.kind = "requery"     -> RequeryUnmounted
      [] page.kind = "rules"       -> RulesUnmounted
      [] page.kind = "system"      -> SystemUnmounted
      [] page.kind = "appearance"  -> AppearanceUnmounted
      [] page.kind = "overview"    -> OverviewUnmounted
      [] OTHER                     -> [page EXCEPT !.mounted = FALSE]

Unmount ==
    /\ Clickable /\ page.kind # "shell"
    /\ page' = IF tasks = Nothing THEN [FreshOf(page.kind) EXCEPT !.mounted = FALSE] ELSE LeftPage
    /\ OnlyPage

(* openLogFilterFromOverview and handleOpenLogFilter: the windows close, the  *)
(* log is mounted, and the event comes at the next tick, which is before any *)
(* answer to the requests that mounting has sent.                            *)
LogFilterOffered == page.kind = "overview" /\ Clickable /\ (page.slow \/ page.detail.open)

OpenLogFilter == \E text \in Searches :
    LET opened == [LogFresh EXCEPT !.wanted = text]
    IN  /\ "log" \in Pages /\ LogFilterOffered /\ tasks = Nothing
        /\ page' = WithFilter(opened, text)
        /\ Begin("logMount", LogMountReads, None, {})
        /\ server' = LogServer
        /\ UNCHANGED dialog

Event ==
    \/ page.kind = "list" /\ ListEvent
    \/ page.kind = "log" /\ LogEvent
    \/ page.kind = "upstream" /\ UpstreamEvent
    \/ page.kind = "tables" /\ TablesEvent
    \/ page.kind = "requery" /\ RequeryEvent
    \/ page.kind = "rules" /\ RulesEvent
    \/ page.kind = "switches" /\ SwitchEvent
    \/ page.kind = "system" /\ SystemEvent
    \/ page.kind = "appearance" /\ AppearanceEvent
    \/ page.kind = "overview" /\ OverviewEvent
    \/ page.kind = "shell" /\ ShellEvent

Resume(i) ==
    \/ page.kind = "list" /\ ListResume(i)
    \/ page.kind = "log" /\ LogResume(i)
    \/ page.kind = "upstream" /\ UpstreamResume(i)
    \/ page.kind = "tables" /\ TablesResume(i)
    \/ page.kind = "requery" /\ RequeryResume(i)
    \/ page.kind = "rules" /\ RulesResume(i)
    \/ page.kind = "switches" /\ SwitchResume(i)
    \/ page.kind = "system" /\ SystemResume(i)
    \/ page.kind = "appearance" /\ AppearanceResume(i)
    \/ page.kind = "overview" /\ OverviewResume(i)
    \/ page.kind = "shell" /\ ShellResume(i)

WebNext ==
    \/ Mount \/ Unmount \/ OpenLogFilter \/ Event \/ ServerStep \/ DialogStep
    \/ \E i \in DOMAIN tasks : Resume(i)

WebSpec == WebInit /\ [][WebNext]_webVars

-----------------------------------------------------------------------------
(* Properties                                                                *)

(* When nothing waits, no flag is up: whichever way the functions that raise *)
(* and lower the same flag overlap, fail or are answered "no", no button is  *)
(* left disabled and no spinner is left turning.                             *)
IdleMeansReady == tasks = Nothing => page.busy = {}

(* A function whose question was answered "no", by the user or because the   *)
(* dialog was taken away, ends or goes on with reads only: nothing that was  *)
(* asked about is done.                                                      *)
SaidNo(i) == \E k \in DOMAIN tasks[i].got : tasks[i].ask[k].op = "confirm" /\ ~tasks[i].got[k].val
OnlyReads(ask) == \A k \in DOMAIN ask : ask[k].op = "get"

NoMeansNo == [][\A i \in DOMAIN tasks \cap DOMAIN tasks' :
    SaidNo(i) => tasks'[i] = tasks[i] \/ OnlyReads(tasks'[i].ask)]_webVars

(* Work under one of these flags is never under way twice: each is looked at *)
(* before the work is begun, though some are raised only after a question.   *)
ExclusiveFlags ==
    {"updateLoading", "applyingOverrides", "backingUp", "portSaving", "inFlight", "colorSaving",
     "uploading", "generation", CoreMode, RoutingMode, "overviewResetting", "saving", "aliasSaving"}

(* A cache and a switch have their flags under their own names.              *)
ASSUME FlagsAssumption == (AllCaches \cup OtherSwitches) \cap ExclusiveFlags = {}

OneAtATime == \A flag \in ExclusiveFlags : \A i, j \in DOMAIN tasks :
    flag \in tasks[i].lower /\ flag \in tasks[j].lower => i = j

(* The text of one list is never saved as another list, however selecting,   *)
(* loading, typing and saving overlap.                                       *)
ListsKeepApart == page.kind = "list" => \A t \in Lists : \A line \in server[t] : line[1] = t

(* The row whose detail is open is in the table, and the request that is     *)
(* selected among the captured ones was captured: what a later load takes    *)
(* away is not shown any more.                                               *)
SelectionExists == page.kind = "log" =>
    /\ page.detail # None => page.detail \in page.rows
    /\ page.selectedKey # Raw => StructuredItems # {}

(* While the data page is open its requery task is polled if and only if it   *)
(* runs or is awaited, every second while it is awaited, and a wait has the   *)
(* timer that ends it.                                                       *)
RequeryIsWatched == page.kind = "requery" /\ page.mounted =>
    /\ (page.poll # 0) = (Running(page) \/ page.pending)
    /\ (page.poll = 1000) = page.pending
    /\ page.pendingTimer = page.pending

(* Every diversion rule the server keeps is filed under its own name, with   *)
(* the plugin of its own type, however renames, moves and toggles overlap.   *)
RulesKeepIdentity == page.kind = "rules" => \A t \in RuleTypes : \A n \in DOMAIN server[t] :
    server[t][n].name = n /\ server[t][n].type = t

(* The log shown in a window of details is the log of the entry that the     *)
(* window is open for.                                                       *)
DetailShowsItsRows == page.kind = "overview" =>
    LET cards == SummaryCards
    IN  cards.from # None => cards.about.open /\ SameDetail(page, cards.from)

(* One interval runs if the automatic refresh is on and the window in sight, *)
(* none otherwise, and a notice that is shown has one timeout that ends it.  *)
RefreshAsSet == page.kind = "shell" =>
    /\ page.refreshing = (IF page.mounted /\ page.enabled /\ ~page.hidden THEN 1 ELSE 0)
    /\ page.fading = (IF page.notice # None THEN 1 ELSE 0)

(* Said of the interface (docs/releases/v0.4.9.md): filtering from the        *)
(* details of the overview switches to the live log and applies the value.   *)
FilterIsApplied == page.kind = "log" /\ page.mounted /\ tasks = Nothing /\ page.wanted # None =>
    page.search = page.wanted

=============================================================================
