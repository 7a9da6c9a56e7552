----------------------------- MODULE OverviewPage -----------------------------
(***************************************************************************)
(* The overview (webui-log OverviewManager.vue, DnsOverviewCard.vue,        *)
(* useRealtimeMetrics.ts, dashboard.ts and upstreamStats.js): the rankings  *)
(* with the window of details behind each entry, the statistics of the      *)
(* upstreams, and the card of the live trend with its popover.              *)
(***************************************************************************)
EXTENDS WebPage, SequencesExt

CONSTANTS
    RankKeys,       \* entries of a ranking: domains, clients, rules
    BuiltInGroups,  \* groups of upstreams in the order of the page
    SlotGroups,     \* groups of the special groups, in the order of their slots
    RealIPHides,    \* the group that the RealIP mode has no use for
    LogSample,      \* how many of the newest queries the trend looks at
    MaxQueries      \* bound: queries that the server answers

ASSUME QueriesAssumption == LogSample \in Nat \ {0} /\ MaxQueries \in Nat

Rankings == "rankings"
Statistics == "statistics"
Trend == "trend"

(* The audit counts the queries since it was cleared; the log keeps them in  *)
(* order, so a query is named by its number.                                 *)
Audit(cleared, newest) == [cleared |-> cleared, newest |-> newest]

GroupKeys == Range(BuiltInGroups) \cup Range(SlotGroups) \cup {"other"}

(* The metrics: which plugin counts what, for which upstream of which group;  *)
(* some lines carry no name of an upstream.                                  *)
ServerMetrics ==
    [plugin : {"forward", "aliapi"}, name : {"query", "winner"}, group : GroupKeys \ {"other"}, tag : {None, "u"}]

OverviewServers ==
    {[ranking |-> "counts", effective |-> "effective_tag", domainSet |-> "domain_set",
      specials |-> SlotGroups, metrics |-> ServerMetrics, config |-> [g \in GroupKeys |-> g # "other"], mode |-> mode,
      stats |-> Audit(0, 0), windows |-> "windows", logs |-> "any"]
        : mode \in {"A", "B"}}

NoDetail == [open |-> FALSE, field |-> None, key |-> None, rows |-> None]

OverviewFresh ==
    [kind |-> "overview", mounted |-> TRUE, busy |-> {}, visit |-> Rankings,
     source |-> None, sections |-> <<>>, detail |-> NoDetail, slow |-> FALSE,
     total |-> None, top |-> None, current |-> 0, warning |-> FALSE, poll |-> FALSE,
     popover |-> FALSE, closeTimer |-> FALSE, windows |-> None]

-----------------------------------------------------------------------------
(* orderUpstreamGroups and upstreamStatSections: the groups that are built   *)
(* in, those of the special groups by slot, then the others; groups without  *)
(* an enabled upstream, and one that the mode does not use, are not shown.   *)
OrderedGroups(keys, specials) ==
    LET isKey(g) == g \in keys
        first == SelectSeq(BuiltInGroups, isKey)
        second == SelectSeq(specials, LAMBDA g : isKey(g) /\ g \notin Range(first))
    IN  first \o second \o SetToSeq(keys \ (Range(first) \cup Range(second)))

(* parseUpstreamStatsMetrics: forward and aliapi name the group and the      *)
(* upstream by different labels, only aliapi counts winners, and a line      *)
(* without either name is left out.  Here each group has one upstream.       *)
Counted(m) == m.group # None /\ m.tag # None /\ (m.name = "winner" => m.plugin = "aliapi")

Buckets(metrics) ==
    [g \in {m.group : m \in {x \in metrics : Counted(x)}} |->
        {m.name : m \in {x \in metrics : Counted(x) /\ x.group = g}}]

Bucket(metrics, g) == IF g \in DOMAIN Buckets(metrics) THEN Buckets(metrics)[g] ELSE {}

Sections(config, specials, mode, metrics) ==
    LET shown == SelectSeq(OrderedGroups(DOMAIN config, specials),
                           LAMBDA g : config[g] /\ ~(mode = "B" /\ g = RealIPHides))
    IN  [n \in DOMAIN shown |-> [group |-> shown[n], counted |-> Bucket(metrics, shown[n])]]

-----------------------------------------------------------------------------
(* reloadOverview, for the part that the visit uses.  The rankings and the   *)
(* special groups are needed, the rest of what the upstreams need may fail;  *)
(* the ranking of rules has a second source, asked for when the first fails. *)
(* Nothing tells a later reload from this one.                               *)
OverviewReads(visit) ==
    GetAll(IF visit = Rankings THEN {"ranking", "effective"} ELSE {"specials", "config", "mode", "metrics"})

ReloadOverview(p) ==
    /\ page' = Raise(p, {"overviewLoading"})
    /\ Begin("reloadOverview", OverviewReads(p.visit), None, {"overviewLoading"})

OverviewShown(i) ==
    IF Visiting(Rankings) THEN [page EXCEPT !.source = "effective_tag"]
    ELSE [page EXCEPT !.sections =
            Sections(Settled(i, "config", Nothing), tasks[i].got["specials"].val, Settled(i, "mode", None),
                     Settled(i, "metrics", {}))]

OverviewRead(i) ==
    LET Fails(k) == k \in DOMAIN tasks[i].ask /\ ~tasks[i].got[k].ok
    IN  /\ \/ /\ i \in Rejected("reloadOverview", {"ranking", "specials"})
              /\ page' = Lower(page, i) /\ End(i)
           \/ /\ i \in Replied("reloadOverview")
              /\ ~Fails("ranking") /\ ~Fails("specials") /\ ~Fails("effective")
              /\ page' = Lower(OverviewShown(i), i) /\ End(i)
           \/ /\ i \in Replied("reloadOverview")
              /\ ~Fails("ranking") /\ Fails("effective")
              /\ page' = page
              /\ Await(i, "rankBySet", One(Get("domainSet")), None, tasks[i].lower)
        /\ UNCHANGED <<server, dialog>>

RankBySetRead(i) ==
    /\ i \in Replied("rankBySet")
    /\ page' = Lower(IF Reply(i).ok THEN [page EXCEPT !.source = "domain_set"] ELSE page, i)
    /\ End(i)
    /\ UNCHANGED <<server, dialog>>

-----------------------------------------------------------------------------
(* The windows over the rankings.  Opening one asks for its log, with the    *)
(* field and the key it has then; an answer for another window is ignored,   *)
(* a failure empties whichever is open.                                      *)
WindowsClosed == ~page.slow /\ ~page.detail.open

SameDetail(p, m) == p.detail.field = m.field /\ p.detail.key = m.key

OpenRankingDetail == \E key \in RankKeys, field \in {"q", "client_ip", page.source} :
    LET p == [page EXCEPT !.detail = [open |-> TRUE, field |-> field, key |-> key, rows |-> None]]
    IN  /\ Clickable /\ Visiting(Rankings) /\ page.source # None /\ WindowsClosed
        /\ page' = Raise(p, {"detailLoading"})
        /\ Begin("detailLogs", One(Get("logs")), [field |-> field, key |-> key], {})
        /\ UNCHANGED <<server, dialog>>

DetailEnded(p, m) == IF SameDetail(p, m) THEN [p EXCEPT !.busy = @ \ {"detailLoading"}] ELSE p

(* Mutant: an answer is shown in whichever window is open.                   *)
DetailReadUnchecked(i) ==
    LET m == tasks[i].mem
    IN  /\ i \in Replied("detailLogs")
        /\ page' = DetailEnded(IF Reply(i).ok /\ page.detail.open
                               THEN [page EXCEPT !.detail.rows = m] ELSE page, m)
        /\ End(i)
        /\ UNCHANGED <<server, dialog>>

DetailRead(i) ==
    LET m == tasks[i].mem
    IN  /\ i \in Replied("detailLogs")
        /\ page' = DetailEnded(
                IF ~Reply(i).ok THEN [page EXCEPT !.detail.rows = None]
                ELSE IF page.detail.open /\ SameDetail(page, m) THEN [page EXCEPT !.detail.rows = m]
                ELSE page, m)
        /\ End(i)
        /\ UNCHANGED <<server, dialog>>

(* Mutant: the window is closed without an end to its loading.               *)
DetailClosedLoading(p) ==
    [p EXCEPT !.detail.open = FALSE, !.detail.key = None, !.detail.rows = None]

DetailClosed(p) ==
    [p EXCEPT !.detail.open = FALSE, !.detail.key = None, !.detail.rows = None,
              !.busy = @ \ {"detailLoading"}]

(* The figures above the log are taken from its rows.                        *)
SummaryCards == [about |-> page.detail, from |-> page.detail.rows]

CloseRankingDetail ==
    /\ Clickable /\ page.detail.open /\ ~page.slow
    /\ page' = DetailClosed(page)
    /\ OnlyPage

(* The window of one query lies over the other: it is opened for a slow      *)
(* query of the rankings, or for a row of the log that a window shows.       *)
ShowSlowDetail == \E open \in BOOLEAN :
    /\ Clickable /\ Visiting(Rankings) /\ page.source # None
    /\ page.detail.open => page.slow \/ page.detail.rows # None
    /\ page' = [page EXCEPT !.slow = open]
    /\ OnlyPage

-----------------------------------------------------------------------------
(* refreshMetrics.  One runs at a time; it reads the count and the newest    *)
(* queries side by side, so the two may not fit each other.                  *)
(* Mutant: the flag is not looked at.                                        *)
RefreshMetricsAlways(p) ==
    /\ page' = Raise(p, {"inFlight"})
    /\ Begin("refreshMetrics", [k \in {"count", "sample"} |-> Get("stats")], None, {"inFlight"})

RefreshMetrics(p) ==
    \/ "inFlight" \in p.busy /\ page' = p /\ UNCHANGED <<tasks, spent>>
    \/ /\ "inFlight" \notin p.busy
       /\ page' = Raise(p, {"inFlight"})
       /\ Begin("refreshMetrics", [k \in {"count", "sample"} |-> Get("stats")], None, {"inFlight"})

(* previousTotalQueries: a count that has gone down starts from nothing.     *)
CountDelta(total) ==
    CASE page.total = None                              -> 0
      [] page.total # None /\ total >= page.total      -> total - page.total
      [] OTHER                                          -> total

(* The newest queries down to the one that was the newest the last time.     *)
Sample(audit) == {n \in (audit.cleared + 1)..audit.newest : n > audit.newest - LogSample}

CurrentQueries(i, total) ==
    LET sample == IF tasks[i].got["sample"].ok THEN Sample(tasks[i].got["sample"].val) ELSE {}
        counted == IF sample = {} \/ page.top = None THEN CountDelta(total)
                   ELSE Cardinality({n \in sample : n > page.top})
    IN  IF counted = 0 THEN CountDelta(total) ELSE counted

NewestSeen(i) ==
    IF tasks[i].got["sample"].ok /\ Sample(tasks[i].got["sample"].val) # {}
    THEN tasks[i].got["sample"].val.newest ELSE page.top

MetricsShown(i) ==
    LET audit == tasks[i].got["count"].val
        total == audit.newest - audit.cleared
    IN  [page EXCEPT !.current = CurrentQueries(i, total), !.total = total, !.top = NewestSeen(i),
                     !.warning = FALSE]

TrendRead(i) ==
    /\ i \in Replied("refreshMetrics")
    /\ page' = Lower(IF tasks[i].got["count"].ok THEN MetricsShown(i) ELSE [page EXCEPT !.warning = TRUE], i)
    /\ End(i)
    /\ UNCHANGED <<server, dialog>>

MetricsPoll ==
    /\ page.poll
    /\ RefreshMetrics(page)
    /\ UNCHANGED <<server, dialog>>

-----------------------------------------------------------------------------
(* The popover of the trend: it opens under the pointer and asks for its     *)
(* numbers when they are old or missing, and closes a moment after the       *)
(* pointer has left.  A click asks always, or closes it.                     *)
Opened == [page EXCEPT !.closeTimer = FALSE, !.popover = TRUE]

OpenPopover(old) ==
    /\ Clickable /\ Visiting(Trend)
    /\ \/ /\ old \/ page.windows = None
          /\ page' = Raise(Opened, {"popoverLoading"})
          /\ Begin("windowStats", One(Get("windows")), None, {"popoverLoading"})
          /\ UNCHANGED <<server, dialog>>
       \/ ~old /\ page.windows # None /\ page' = Opened /\ OnlyPage

TriggerEnter == \E old \in BOOLEAN : OpenPopover(old)

TogglePopover ==
    \/ ~page.popover /\ OpenPopover(TRUE)
    \/ /\ Clickable /\ page.popover
       /\ page' = [page EXCEPT !.popover = FALSE, !.closeTimer = FALSE]
       /\ OnlyPage

(* A press of the button outside of trigger and panel, or the escape key.    *)
DismissPopover ==
    /\ page.mounted /\ page.popover
    /\ page' = [page EXCEPT !.popover = FALSE, !.closeTimer = FALSE]
    /\ OnlyPage

(* The pointer leaves the trigger or the panel, or comes back to the panel.  *)
PointerMoves == \E leaves \in BOOLEAN :
    /\ Clickable /\ Visiting(Trend) /\ page.popover
    /\ page' = [page EXCEPT !.closeTimer = leaves]
    /\ OnlyPage

PopoverCloses ==
    /\ page.closeTimer
    /\ page' = [page EXCEPT !.popover = FALSE, !.closeTimer = FALSE]
    /\ OnlyPage

WindowStatsRead(i) ==
    /\ i \in Replied("windowStats")
    /\ page' = Lower([page EXCEPT !.windows = Settled(i, "only", @)], i)
    /\ End(i)
    /\ UNCHANGED <<server, dialog>>

-----------------------------------------------------------------------------
(* onMounted of the overview and of its card, and the refresh of the window, *)
(* each for the part that the visit uses.                                    *)
OverviewMounted == \E visit \in {Rankings, Statistics, Trend} :
    LET p == [OverviewFresh EXCEPT !.visit = visit, !.poll = visit = Trend]
    IN  IF visit = Trend THEN RefreshMetrics(p) ELSE ReloadOverview(p)

OverviewUnmounted == [page EXCEPT !.mounted = FALSE, !.poll = FALSE]

OverviewRefresh ==
    /\ page.mounted
    /\ IF Visiting(Trend) THEN RefreshMetrics(page) ELSE ReloadOverview(page)
    /\ UNCHANGED <<server, dialog>>

(* The server answers a query, or its audit is cleared.  Bound: only while the *)
(* trend is looked at.                                                       *)
ServerAudits ==
    /\ page.mounted /\ Visiting(Trend)
    /\ \/ server.stats.newest < MaxQueries /\ server' = [server EXCEPT !.stats.newest = @ + 1]
       \/ server' = [server EXCEPT !.stats.cleared = server.stats.newest]
    /\ UNCHANGED <<page, tasks, dialog, spent>>

-----------------------------------------------------------------------------
OverviewEvent ==
    \/ OpenRankingDetail \/ CloseRankingDetail \/ ShowSlowDetail \/ MetricsPoll
    \/ TriggerEnter \/ TogglePopover \/ DismissPopover \/ PointerMoves \/ PopoverCloses
    \/ OverviewRefresh \/ ServerAudits

OverviewResume(i) ==
    \/ OverviewRead(i) \/ RankBySetRead(i) \/ DetailRead(i) \/ TrendRead(i) \/ WindowStatsRead(i)

=============================================================================
