----------------------------- MODULE DataTables ------------------------------
(***************************************************************************)
(* The upper half of the data page (webui-log DataManagementManager.vue):   *)
(* the table of caches, the table of learned lists, and the window that     *)
(* shows the entries of either, a page at a time.                           *)
(***************************************************************************)
EXTENDS WebPage, Sequences

CONSTANTS
    CacheTags,      \* caches that both core modes show
    ModeCaches,     \* caches that only core mode A shows
    GroupCaches,    \* caches of special groups, shown once the groups are read
    LearnedLists,   \* learned lists
    Queries,        \* texts typed into the window's search box
    ViewPages       \* pages of entries that every source has

ASSUME ViewPagesAssumption == ViewPages \in Nat

AllCaches == CacheTags \cup ModeCaches \cup GroupCaches
CacheTable == "caches"
ListTable == "lists"

TableServers ==
    {[caches |-> [c \in AllCaches |-> "full"], groups |-> GroupCaches, lists |-> "counted", mode |-> mode, entries |-> "some"]
        : mode \in {"A", "B"}}

NoView == [open |-> FALSE, source |-> None, query |-> None, entries |-> <<>>, offset |-> 0,
           more |-> TRUE, failed |-> FALSE]

TablesFresh ==
    [kind |-> "tables", mounted |-> TRUE, busy |-> {}, visit |-> CacheTable,
     mode |-> None, groups |-> {}, rows |-> Nothing, counts |-> None, view |-> NoView, searchTimer |-> FALSE]

-----------------------------------------------------------------------------
(* visibleCacheConfig, buildCacheRows: an unknown mode shows every cache, and *)
(* the groups add theirs.                                                    *)
VisibleCaches(p) ==
    CacheTags \cup {c \in ModeCaches : p.mode # "B"} \cup {c \in GroupCaches : c \in p.groups}

WithRows(p, metrics) == [p EXCEPT !.rows = [c \in VisibleCaches(p) |-> metrics[c]]]

(* refreshCacheStats reads the groups and the metrics, then the core mode;   *)
(* without metrics the rows stay.  Its callers lower their own flag after it. *)
CacheReads == GetAll({"caches", "groups"})

AskCacheStats(i, p, lower) ==
    /\ page' = Raise(p, {"cacheRefreshing"})
    /\ Await(i, "cacheStats", CacheReads, None, lower \cup {"cacheRefreshing"})

MetricsRead(i) ==
    /\ \/ /\ i \in Replied("cacheStats") /\ tasks[i].got["caches"].ok
          /\ page' = [page EXCEPT !.groups = Settled(i, "groups", {})]
          /\ Await(i, "coreMode", One(Get("mode")), tasks[i].got["caches"].val, tasks[i].lower)
       \/ i \in Rejected("cacheStats", {"caches"}) /\ page' = Lower(page, i) /\ End(i)
    /\ UNCHANGED <<server, dialog>>

CoreModeRead(i) ==
    /\ i \in Replied("coreMode")
    /\ page' = Lower(WithRows([page EXCEPT !.mode = Settled(i, "only", None)], tasks[i].mem), i)
    /\ End(i)
    /\ UNCHANGED <<server, dialog>>

(* refreshListStats                                                          *)
ListStatsRead(i) ==
    /\ i \in Replied("listStats")
    /\ page' = Lower([page EXCEPT !.counts = Settled(i, "only", None)], i)
    /\ End(i)
    /\ UNCHANGED <<server, dialog>>

(* reloadAll, for the table that the visit uses.                             *)
ReloadTables(p) ==
    \/ /\ p.visit = CacheTable
       /\ page' = Raise(p, {"cacheRefreshing"})
       /\ Begin("cacheStats", CacheReads, None, {"cacheRefreshing"})
    \/ /\ p.visit = ListTable
       /\ page' = Raise(p, {"listStatsRefreshing"})
       /\ Begin("listStats", One(Get("lists")), None, {"listStatsRefreshing"})

TablesMounted == \E visit \in {CacheTable, ListTable} : ReloadTables([TablesFresh EXCEPT !.visit = visit])
TablesUnmounted == [page EXCEPT !.mounted = FALSE, !.searchTimer = FALSE]

TablesRefresh ==
    /\ page.mounted
    /\ ReloadTables(page)
    /\ UNCHANGED <<server, dialog>>

-----------------------------------------------------------------------------
(* clearSingleCache and clearAllCaches.  cacheClearing[c] is the flag c.     *)

ClearCache == \E c \in DOMAIN page.rows :
    /\ Clickable /\ ~page.view.open /\ c \notin page.busy
    /\ AskFirst("clearCache", {c})
    /\ UNCHANGED <<page, server>>

ClearAllCaches ==
    /\ Clickable /\ ~page.view.open /\ Visiting(CacheTable) /\ "cacheClearingAll" \notin page.busy
    /\ AskFirst("clearAllCaches", {})
    /\ UNCHANGED <<page, server>>

Flushes(caches) == [c \in caches |-> Set("caches", c, "empty")]

ClearAnswered(i) ==
    LET all == tasks[i].fn = "clearAllCaches"
        caches == IF all THEN VisibleCaches(page) ELSE tasks[i].mem
        flags == IF all THEN {"cacheClearingAll"} ELSE caches
    IN  /\ i \in Replied("clearCache") \cup Replied("clearAllCaches")
        /\ \/ ~Reply(i).val /\ End(i) /\ UNCHANGED page
           \/ /\ Reply(i).val
              /\ page' = Raise(page, flags)
              /\ Await(i, IF all THEN "flushAll" ELSE "flushOne", Flushes(caches), None, flags)
        /\ UNCHANGED <<server, dialog>>

(* A single flush that fails ends there; the flush of all goes on to read.   *)
CachesFlushed(i) ==
    /\ i \in Replied("flushOne") \cup Replied("flushAll")
    /\ \/ /\ AllGood(i) \/ tasks[i].fn = "flushAll"
          /\ AskCacheStats(i, page, tasks[i].lower)
       \/ ~AllGood(i) /\ tasks[i].fn = "flushOne" /\ page' = Lower(page, i) /\ End(i)
    /\ UNCHANGED <<server, dialog>>

-----------------------------------------------------------------------------
(* The window of entries.  A fetch carries the source, the query and the     *)
(* offset it was sent with, but its answer is put into whatever is open when *)
(* it arrives.  An entry stands for a page of them.                          *)
ViewFlags == {"viewLoading", "viewLoadingMore"}

FetchDataView(p, append) ==
    /\ page' = IF append THEN Raise(p, {"viewLoadingMore"})
               ELSE Raise([p EXCEPT !.view.failed = FALSE], {"viewLoading"})
    /\ Begin("fetchView", One(Get("entries")),
             [source |-> p.view.source, query |-> p.view.query, offset |-> p.view.offset,
              append |-> append], ViewFlags)
    /\ UNCHANGED <<server, dialog>>

Emptied(view) == [view EXCEPT !.entries = <<>>, !.offset = 0, !.more = TRUE, !.failed = FALSE]

ViewEntries(i) ==
    LET m == tasks[i].mem
    IN  IF m.offset < ViewPages THEN <<[source |-> m.source, query |-> m.query, page |-> m.offset + 1]>> ELSE <<>>

ViewFilled(i) ==
    LET next == ViewEntries(i)
        entries == IF tasks[i].mem.append THEN page.view.entries \o next ELSE next
    IN  [page.view EXCEPT !.entries = entries, !.offset = @ + Len(next), !.more = Len(entries) < ViewPages]

ViewFailed(i) ==
    [page.view EXCEPT !.entries = IF tasks[i].mem.append THEN @ ELSE <<>>, !.more = FALSE, !.failed = TRUE]

ViewFetched(i) ==
    /\ i \in Replied("fetchView")
    /\ page' = Lower([page EXCEPT !.view = IF Reply(i).ok THEN ViewFilled(i) ELSE ViewFailed(i)], i)
    /\ End(i)
    /\ UNCHANGED <<server, dialog>>

(* A list can be opened once its count is known.                             *)
ViewSources ==
    IF Visiting(CacheTable) THEN DOMAIN page.rows ELSE IF page.counts = None THEN {} ELSE LearnedLists

OpenDataView == \E source \in ViewSources :
    /\ Clickable /\ ~page.view.open
    /\ FetchDataView([page EXCEPT !.view = [NoView EXCEPT !.open = TRUE, !.source = source]], FALSE)

CloseDataView ==
    /\ Clickable /\ page.view.open
    /\ page' = [page EXCEPT !.view.open = FALSE]
    /\ OnlyPage

LoadMoreDataView ==
    /\ Clickable /\ page.view.open /\ page.view.more /\ page.busy \cap ViewFlags = {}
    /\ FetchDataView(page, TRUE)

(* Typing restarts the timer; the search is made when it fires, also after   *)
(* the window was closed or opened for another source.                       *)
TypeViewSearch == \E q \in Queries :
    /\ Clickable /\ page.view.open
    /\ page' = [page EXCEPT !.view.query = q, !.searchTimer = TRUE]
    /\ OnlyPage

ViewSearchFires ==
    /\ page.searchTimer
    /\ FetchDataView([page EXCEPT !.searchTimer = FALSE, !.view = Emptied(@)], FALSE)

-----------------------------------------------------------------------------
TablesEvent ==
    \/ TablesRefresh \/ ClearCache \/ ClearAllCaches
    \/ OpenDataView \/ CloseDataView \/ LoadMoreDataView \/ TypeViewSearch \/ ViewSearchFires

TablesResume(i) ==
    \/ MetricsRead(i) \/ CoreModeRead(i) \/ ListStatsRead(i)
    \/ ClearAnswered(i) \/ CachesFlushed(i) \/ ViewFetched(i)

=============================================================================
